---------------------------- MODULE MemoryProofs ----------------------------
(***************************************************************************)
(* Proofs about what the program counts of the memory it holds: MspStore,  *)
(* the maps charged to the budget of the core, and PayloadCaches, the      *)
(* files and images charged to the caps of the app.  They hold for any     *)
(* threads, images, limits and numbers of maps, however the file is        *)
(* replaced and rewritten, and for any payloads, packages and caps; both   *)
(* rest on the same facts about sums.                                      *)
(***************************************************************************)
EXTENDS MspStore, PayloadCaches, FiniteSetTheorems, SequenceTheorems, TLAPS

(***************************************************************************)
(* The inductive invariant.  A loader owns a map from MapFile on, and none *)
(* that exists is numbered above maps: MapInv.  What the checks have found *)
(* out about the map it builds stays true until it is published, unless    *)
(* the mapped file is written into: CheckedInv.  A map that is yet to be   *)
(* charged is nobody else's, and one that is being dropped is not held any *)
(* more: ChargedInv, which is what makes the bytes of the maps in use add  *)
(* up to BUDGET_USED.                                                      *)
(***************************************************************************)
Owning(l) == lpc[l] \in {"load", "reserve", "parse", "rehash", "store"}

MapInv ==
  /\ current <= maps
  /\ \A r \in Readers : pin[r] <= maps
  /\ \A l \in Loaders : own[l] <= maps
  /\ \A l \in Loaders : Owning(l) => own[l] \in Map

CheckedInv ==
  \A l \in Loaders : own[l] \notin altered =>
    /\ lpc[l] \in {"rehash", "store"} => content[own[l]] \in Valid
    /\ lpc[l] = "store" => content[own[l]] = want[l]

ChargedInv ==
  /\ dying \subseteq 1 .. maps
  /\ Held \cap dying = {}
  /\ \A l \in Loaders : lpc[l] \in {"load", "reserve"} => own[l] \notin Held \cup dying
  /\ \A k, l \in Loaders : k # l /\ Owning(k) /\ Owning(l) => own[k] # own[l]

IInv == /\ TypeOK /\ MapInv /\ CheckedInv /\ ChargedInv
        /\ PublishedIsSigned /\ WithinBudget /\ BudgetIsExact

-----------------------------------------------------------------------------
\* Every set of numbers that is not empty has a least one.
LEMMA LeastNumber ==
  ASSUME NEW T \in SUBSET Nat, T # {}
  PROVE  \E n \in T : \A m \in T : n <= m
  <1> DEFINE R == OpToRel(<, Nat)
  <1>1. IsWellFoundedOn(R, Nat)
    BY NatLessThanWellFounded
  <1>2. \A x, y \in Nat : x < y => <<x, y>> \in R
    BY DEF OpToRel
  <1> HIDE DEF R
  <1>3. PICK x \in T : \A y \in T : ~(<<y, x>> \in R)
    BY <1>1, WFMin
  <1>4. ASSUME NEW y \in T PROVE x <= y
    <2>1. x \in Nat /\ y \in Nat
      OBVIOUS
    <2>2. ~(y < x)
      BY <2>1, <1>2, <1>3
    <2> QED
      BY <2>1, <2>2
  <1> QED
    BY <1>4

\* A set of numbers that holds each one whose predecessors it holds is Nat.
LEMMA SetInduction ==
  ASSUME NEW T \in SUBSET Nat,
         \A n \in Nat : (\A m \in Nat : m < n => m \in T) => n \in T
  PROVE  \A n \in Nat : n \in T
  <1> SUFFICES ASSUME Nat \ T # {} PROVE FALSE
    OBVIOUS
  <1> DEFINE U == Nat \ T
  <1>1. U \in SUBSET Nat /\ U # {}
    OBVIOUS
  <1> HIDE DEF U
  <1>2. PICK n \in U : \A m \in U : n <= m
    BY <1>1, LeastNumber
  <1> USE DEF U
  <1>3. \A m \in Nat : m < n => m \in T
    BY <1>2
  <1> QED
    BY <1>2, <1>3

(***************************************************************************)
(* The community modules' SumFunctionOnSet(b, S) is the value at S of a    *)
(* recursive function on the subsets of S, which takes a chosen member     *)
(* away.  Sums(b, S, g) says that g is that function; it exists, is        *)
(* unique, and its value does not depend on which member was chosen.       *)
(***************************************************************************)
Chosen(S) == CHOOSE x \in S : TRUE
Add(b, s, g) == IF s = {} THEN 0 ELSE b[Chosen(s)] + g[s \ {Chosen(s)}]
Sums(b, S, g) == g = [s \in SUBSET S |-> Add(b, s, g)]
Table(b, S, g) == Sums(b, S, g) /\ g \in [SUBSET S -> Int]

\* What SumFunctionOnSet is defined to be.
LEMMA SumIsTableEntry ==
  ASSUME NEW b, NEW S
  PROVE  SumFunctionOnSet(b, S) = (CHOOSE g : Sums(b, S, g))[S]
  BY DEF SumFunctionOnSet, FoldFunctionOnSet, MapThenFoldSet, Sums, Chosen, Add

\* A finite set is larger than itself without a member.
LEMMA WithoutIsSmaller ==
  ASSUME NEW S, IsFiniteSet(S), NEW x \in S
  PROVE  /\ Cardinality(S) \in Nat
         /\ Cardinality(S \ {x}) \in Nat
         /\ Cardinality(S \ {x}) < Cardinality(S)
  <1>1. IsFiniteSet(S \ {x}) /\ Cardinality(S \ {x}) = Cardinality(S) - 1
    BY FS_RemoveElement
  <1>2. Cardinality(S) \in Nat /\ Cardinality(S \ {x}) \in Nat
    BY <1>1, FS_CardinalityType
  <1> QED
    BY <1>1, <1>2

\* The sums over the subsets of a set are those of every larger set.
LEMMA SumsAgree ==
  ASSUME NEW S, IsFiniteSet(S), NEW T, S \subseteq T, NEW b, NEW c, NEW g, NEW h,
         \A x \in S : b[x] = c[x],
         Sums(b, S, g), Sums(c, T, h)
  PROVE  \A s \in SUBSET S : g[s] = h[s]
  <1> DEFINE N == {n \in Nat : \A s \in SUBSET S : Cardinality(s) = n => g[s] = h[s]}
  <1>1. ASSUME NEW n \in Nat, \A m \in Nat : m < n => m \in N PROVE n \in N
    <2> SUFFICES ASSUME NEW s \in SUBSET S, Cardinality(s) = n PROVE g[s] = h[s]
      OBVIOUS
    <2>1. g[s] = Add(b, s, g) /\ h[s] = Add(c, s, h)
      BY DEF Sums
    <2>2. CASE s = {}
      BY <2>1, <2>2 DEF Add
    <2>3. CASE s # {}
      <3>1. IsFiniteSet(s)
        BY FS_Subset
      <3> DEFINE d == Chosen(s)
                 r == s \ {d}
      <3>2. d \in s
        BY <2>3 DEF Chosen
      <3>3. r \in SUBSET S
        OBVIOUS
      <3>4. Cardinality(r) \in Nat /\ Cardinality(r) < n
        BY <3>1, <3>2, WithoutIsSmaller
      <3>5. g[r] = h[r]
        BY <1>1, <3>3, <3>4
      <3> QED
        BY <2>1, <2>3, <3>2, <3>5 DEF Add
    <2> QED
      BY <2>2, <2>3
  <1>2. \A n \in Nat : n \in N
    <2>1. N \in SUBSET Nat
      OBVIOUS
    <2> HIDE DEF N
    <2> QED
      BY <1>1, <2>1, SetInduction
  <1>3. ASSUME NEW s \in SUBSET S PROVE g[s] = h[s]
    <2>1. Cardinality(s) \in Nat
      BY FS_Subset, FS_CardinalityType
    <2> QED
      BY <1>2, <2>1
  <1> QED
    BY <1>3

\* There is a table of sums for every finite set of integers.
LEMMA SumsExist ==
  ASSUME NEW S, IsFiniteSet(S), NEW b, \A x \in S : b[x] \in Int
  PROVE  \E g : Table(b, S, g)
  <1> DEFINE D(n) == {s \in SUBSET S : Cardinality(s) <= n}
             Tables(n) == {g \in [D(n) -> Int] : \A s \in D(n) : g[s] = Add(b, s, g)}
             N == {n \in Nat : Tables(n) # {}}
  <1>0. \A s \in SUBSET S : IsFiniteSet(s) /\ Cardinality(s) \in Nat
    BY FS_Subset, FS_CardinalityType
  <1>1. ASSUME NEW n \in Nat, \A m \in Nat : m < n => m \in N PROVE n \in N
    <2>1. CASE n = 0
      <3> DEFINE g == [s \in D(n) |-> 0]
      <3>1. \A s \in D(n) : s = {}
        BY <1>0, <2>1, FS_EmptySet
      <3>2. g \in Tables(n)
        BY <3>1 DEF Add
      <3> QED
        BY <3>2
    <2>2. CASE n # 0
      <3>1. PICK g : g \in Tables(n - 1)
        <4>1. n - 1 \in Nat /\ n - 1 < n
          BY <2>2
        <4> QED
          BY <1>1, <4>1
      <3> DEFINE h == [s \in D(n) |-> Add(b, s, g)]
      <3>2. ASSUME NEW s \in D(n) PROVE Add(b, s, g) \in Int /\ Add(b, s, h) = Add(b, s, g)
        <4>1. CASE s = {}
          BY <4>1 DEF Add
        <4>2. CASE s # {}
          <5> DEFINE d == Chosen(s)
                     r == s \ {d}
          <5>0. d \in s
            BY <4>2 DEF Chosen
          <5>1. d \in s /\ Cardinality(r) \in Nat /\ Cardinality(r) < Cardinality(s)
                /\ Cardinality(s) \in Nat
            BY <1>0, <5>0, WithoutIsSmaller
          <5>2. Cardinality(r) <= n - 1 /\ Cardinality(r) <= n
            BY <5>1
          <5>3. r \in D(n - 1) /\ r \in D(n)
            BY <5>2
          <5>4. g[r] \in Int /\ g[r] = Add(b, r, g)
            BY <3>1, <5>3
          <5>5. h[r] = g[r]
            BY <5>3, <5>4
          <5>6. b[d] \in Int
            BY <5>1
          <5> HIDE DEF h
          <5> QED
            BY <4>2, <5>4, <5>5, <5>6 DEF Add
        <4> QED
          BY <4>1, <4>2
      <3>3. h \in Tables(n)
        BY <3>2
      <3> QED
        BY <3>3
    <2> QED
      BY <2>1, <2>2
  <1>2. \A n \in Nat : n \in N
    <2>1. N \in SUBSET Nat
      OBVIOUS
    <2> HIDE DEF N
    <2> QED
      BY <1>1, <2>1, SetInduction
  <1>3. D(Cardinality(S)) = SUBSET S
    BY FS_Subset
  <1>4. PICK g : g \in Tables(Cardinality(S))
    BY <1>0, <1>2
  <1>5. g \in [SUBSET S -> Int] /\ \A s \in SUBSET S : g[s] = Add(b, s, g)
    BY <1>3, <1>4
  <1> QED
    BY <1>5 DEF Sums, Table

\* The sum over a subset is the table's entry.
LEMMA SumOfSubset ==
  ASSUME NEW S, IsFiniteSet(S), NEW b, NEW g, Sums(b, S, g), \A x \in S : b[x] \in Int,
         NEW T \in SUBSET S
  PROVE  SumFunctionOnSet(b, T) = g[T]
  <1>1. IsFiniteSet(T)
    BY FS_Subset
  <1>2. \E h : Sums(b, T, h)
    BY <1>1, SumsExist DEF Table
  <1>3. PICK h : h = CHOOSE k : Sums(b, T, k)
    OBVIOUS
  <1>4. Sums(b, T, h)
    BY <1>2, <1>3
  <1>5. T \in SUBSET T
    OBVIOUS
  <1>6. h[T] = g[T]
    BY <1>1, <1>4, <1>5, SumsAgree
  <1> QED
    BY <1>3, <1>6, SumIsTableEntry

\* Any member may be taken away first.
LEMMA EntryWithout ==
  ASSUME NEW S, IsFiniteSet(S), NEW b, \A x \in S : b[x] \in Int,
         NEW g, Table(b, S, g), NEW U \in SUBSET S, NEW y \in U
  PROVE  g[U] = b[y] + g[U \ {y}]
  <1> USE DEF Table
  <1> DEFINE N == {n \in Nat : \A T \in SUBSET S : Cardinality(T) = n
                                 => \A x \in T : g[T] = b[x] + g[T \ {x}]}
  <1>1. ASSUME NEW n \in Nat, \A m \in Nat : m < n => m \in N PROVE n \in N
    <2> SUFFICES ASSUME NEW T \in SUBSET S, Cardinality(T) = n, NEW x \in T
                 PROVE  g[T] = b[x] + g[T \ {x}]
      OBVIOUS
    <2> DEFINE c == Chosen(T)
    <2>1. IsFiniteSet(T)
      BY FS_Subset
    <2>2. c \in T
      BY DEF Chosen
    <2>3. g[T] = b[c] + g[T \ {c}]
      BY DEF Sums, Add
    <2>4. CASE x = c
      BY <2>3, <2>4
    <2>5. CASE x # c
      <3>1. /\ T \ {c} \in SUBSET S /\ x \in T \ {c}
            /\ T \ {x} \in SUBSET S /\ c \in T \ {x}
        BY <2>2, <2>5
      <3>2. /\ Cardinality(T \ {c}) \in Nat /\ Cardinality(T \ {c}) < n
            /\ Cardinality(T \ {x}) \in Nat /\ Cardinality(T \ {x}) < n
        BY <2>1, <2>2, WithoutIsSmaller
      <3>3. g[T \ {c}] = b[x] + g[(T \ {c}) \ {x}]
        BY <1>1, <3>1, <3>2
      <3>4. g[T \ {x}] = b[c] + g[(T \ {x}) \ {c}]
        BY <1>1, <3>1, <3>2
      <3>5. (T \ {c}) \ {x} = (T \ {x}) \ {c} /\ (T \ {c}) \ {x} \in SUBSET S
        OBVIOUS
      <3> DEFINE r == g[(T \ {c}) \ {x}]
      <3>6. b[x] \in Int /\ b[c] \in Int /\ r \in Int
        BY <2>2, <3>5
      <3>7. g[T] = b[c] + (b[x] + r) /\ g[T \ {x}] = b[c] + r
        BY <2>3, <3>3, <3>4, <3>5
      <3> HIDE DEF r, c
      <3> QED
        BY <3>6, <3>7
    <2> QED
      BY <2>4, <2>5
  <1>2. \A n \in Nat : n \in N
    <2>1. N \in SUBSET Nat
      OBVIOUS
    <2> HIDE DEF N
    <2> QED
      BY <1>1, <2>1, SetInduction
  <1>3. \A T \in SUBSET S : Cardinality(T) \in Nat
    BY FS_Subset, FS_CardinalityType
  <1> QED
    BY <1>2, <1>3

\* What a member adds to a total.
LEMMA SumWith ==
  ASSUME NEW S, IsFiniteSet(S), NEW b, \A x \in S : b[x] \in Int, NEW x \in S
  PROVE  /\ SumFunctionOnSet(b, S) \in Int
         /\ SumFunctionOnSet(b, S \ {x}) \in Int
         /\ SumFunctionOnSet(b, S) = b[x] + SumFunctionOnSet(b, S \ {x})
  <1>1. PICK g : Table(b, S, g)
    BY SumsExist
  <1>2. S \in SUBSET S /\ S \ {x} \in SUBSET S /\ Sums(b, S, g)
    BY <1>1 DEF Table
  <1>3. SumFunctionOnSet(b, S) = g[S] /\ SumFunctionOnSet(b, S \ {x}) = g[S \ {x}]
    BY <1>2, SumOfSubset
  <1>4. g[S] = b[x] + g[S \ {x}]
    BY <1>1, <1>2, EntryWithout
  <1> QED
    BY <1>1, <1>2, <1>3, <1>4 DEF Table
\* Only the values of the members count.
LEMMA SumAgrees ==
  ASSUME NEW S, IsFiniteSet(S), NEW b, NEW c,
         \A x \in S : b[x] \in Int /\ b[x] = c[x]
  PROVE  SumFunctionOnSet(b, S) = SumFunctionOnSet(c, S)
  <1>1. PICK g : Sums(b, S, g)
    BY SumsExist DEF Table
  <1>2. PICK h : Sums(c, S, h)
    <2>1. \A x \in S : c[x] \in Int
      OBVIOUS
    <2> QED
      BY <2>1, SumsExist DEF Table
  <1>3. S \in SUBSET S /\ S \subseteq S
    OBVIOUS
  <1>4. SumFunctionOnSet(b, S) = g[S] /\ SumFunctionOnSet(c, S) = h[S]
    BY <1>1, <1>2, <1>3, SumOfSubset
  <1>5. g[S] = h[S]
    BY <1>1, <1>2, <1>3, SumsAgree
  <1> QED
    BY <1>4, <1>5

\* Nothing adds up to nothing.
LEMMA SumOfNone ==
  ASSUME NEW b
  PROVE  SumFunctionOnSet(b, {}) = 0
  <1>1. IsFiniteSet({}) /\ \A x \in {} : b[x] \in Int
    BY FS_EmptySet
  <1>2. PICK g : Sums(b, {}, g)
    BY <1>1, SumsExist DEF Table
  <1>3. SumFunctionOnSet(b, {}) = g[{}]
    BY <1>1, <1>2, SumOfSubset
  <1> QED
    BY <1>2, <1>3 DEF Sums, Add

-----------------------------------------------------------------------------
\* Held maps are maps, so that those that are dropped are.
LEMMA HeldAreMaps == TypeOK => Held \subseteq Map
  BY BoundsAssumption DEF TypeOK, Held, Map

LEMMA HeldAreNumbered == TypeOK /\ MapInv => Held \subseteq 1 .. maps
  BY BoundsAssumption DEF TypeOK, MapInv, Held

\* The initial state is in the invariant.
LEMMA InitInvariant == Init => IInv
  <1> SUFFICES ASSUME Init PROVE IInv
    OBVIOUS
  <1> USE ImagesAssumption, BoundsAssumption DEF Init
  <1>1. TypeOK
    BY DEF TypeOK
  <1>2. MapInv /\ CheckedInv
    BY DEF MapInv, CheckedInv, Owning
  <1>3. PublishedIsSigned /\ WithinBudget
    BY DEF PublishedIsSigned, WithinBudget
  <1>4. Held = {}
    BY DEF Held, Building
  <1>5. ChargedInv
    BY <1>4 DEF ChargedInv, Owning
  <1>6. BudgetIsExact
    <2>1. used = SumFunctionOnSet(bytes, Held \cup dying)
      BY <1>4, SumOfNone
    <2> QED
      BY <2>1 DEF BudgetIsExact
  <1> QED
    BY <1>1, <1>2, <1>3, <1>5, <1>6 DEF IInv

\* Type correctness is kept by every step, and maps are numbered as they come.
LEMMA TypeStep == TypeOK /\ MapInv /\ [Next]_vars => TypeOK' /\ MapInv'
  <1> SUFFICES ASSUME TypeOK, MapInv, [Next]_vars PROVE TypeOK' /\ MapInv'
    OBVIOUS
  <1> USE ImagesAssumption, BoundsAssumption
          DEF TypeOK, MapInv, Owning, Map, At, fileVars, mapVars, loadVars
  <1>0. ASSUME DropUnheld PROVE dying' \subseteq Map
    BY <1>0, HeldAreMaps DEF DropUnheld
  <1>1. CASE UNCHANGED vars
    BY <1>1 DEF vars
  <1>2. ASSUME NEW l \in Loaders, LoaderStep(l) PROVE TypeOK' /\ MapInv'
    <2>1. CASE ReadSignature(l)
      BY <2>1 DEF ReadSignature
    <2>2. CASE HashFile(l)
      BY <2>2 DEF HashFile
    <2>3. CASE MapFile(l)
      BY SMTT(20), <2>3 DEF MapFile
    <2>4. CASE LoadUsed(l)
      BY <2>4 DEF LoadUsed
    <2>5. CASE Reserve(l)
      <3>1. bytes[own[l]] \in Int /\ own[l] \in Map
        BY <2>5 DEF Reserve
      <3>2. used' \in Int /\ seen' \in [Loaders -> Int]
        BY SMTT(20), <2>5, <3>1 DEF Reserve
      <3>3. /\ lpc' \in [Loaders -> {"idle", "hash", "map", "load", "reserve", "parse",
                                     "rehash", "store"}]
            /\ \A k \in Loaders : Owning(k)' => Owning(k)
        BY <2>5 DEF Reserve
      <3> QED
        BY <2>5, <3>2, <3>3 DEF Reserve
    <2>6. CASE Parse(l)
      BY <1>0, <2>6 DEF Parse
    <2>7. CASE Rehash(l)
      BY <1>0, <2>7 DEF Rehash
    <2>8. CASE StoreMap(l)
      BY <1>0, <2>8 DEF StoreMap
    <2>9. CASE Unload(l)
      BY <1>0, <2>9 DEF Unload
    <2> QED
      BY <1>2, <2>1, <2>2, <2>3, <2>4, <2>5, <2>6, <2>7, <2>8, <2>9 DEF LoaderStep
  <1>3. ASSUME NEW r \in Readers, Pin(r) \/ Unpin(r) PROVE TypeOK' /\ MapInv'
    <2>1. CASE Pin(r)
      BY <2>1 DEF Pin
    <2>2. CASE Unpin(r)
      BY SMTT(20), <1>0, <2>2 DEF Unpin
    <2> QED
      BY <1>3, <2>1, <2>2
  <1>4. ASSUME NEW m \in Map, Release(m) PROVE TypeOK' /\ MapInv'
    <2>1. used' \in Int
      BY <1>4 DEF Release
    <2> QED
      BY <1>4, <2>1 DEF Release
  <1>5. ASSUME NEW i \in Images, Rewrite(i) \/ Replace(i) PROVE TypeOK' /\ MapInv'
    <2>1. CASE Rewrite(i)
      <3>1. content' \in [Map -> Images \cup {NoImage}]
        BY <2>1 DEF Rewrite
      <3>2. rewrites' \in 0 .. MaxRewrites
        BY <2>1 DEF Rewrite
      <3> QED
        BY <1>5, <2>1, <3>1, <3>2 DEF Rewrite
    <2>2. CASE Replace(i)
      BY <1>5, <2>2 DEF Replace
    <2> QED
      BY <1>5, <2>1, <2>2
  <1>6. CASE Sign
    BY <1>6 DEF Sign
  <1> QED
    BY <1>1, <1>2, <1>3, <1>4, <1>5, <1>6 DEF Next

\* No step takes the budget over its limit: a reservation is charged only on
\* the value it was checked against, and nothing else charges.
LEMMA BudgetStep == TypeOK /\ MapInv /\ WithinBudget /\ [Next]_vars => WithinBudget'
  <1> SUFFICES ASSUME TypeOK, MapInv, WithinBudget, [Next]_vars PROVE WithinBudget'
    OBVIOUS
  <1> USE DEF WithinBudget, fileVars, mapVars, loadVars
  <1>1. ASSUME NEW l \in Loaders, Reserve(l) PROVE WithinBudget'
    BY <1>1 DEF Reserve
  <1>2. ASSUME NEW m \in Map, Release(m) PROVE WithinBudget'
    <2>1. bytes[m] \in Nat /\ used \in Int /\ Limit \in Nat
      BY BoundsAssumption DEF TypeOK
    <2> QED
      BY <1>2, <2>1 DEF Release
  <1>3. ASSUME NEW l \in Loaders, LoaderStep(l), ~Reserve(l) PROVE WithinBudget'
    BY <1>3 DEF LoaderStep, ReadSignature, HashFile, MapFile, LoadUsed, Parse, Rehash,
                StoreMap, Unload
  <1>4. ASSUME NEW r \in Readers, Pin(r) \/ Unpin(r) PROVE WithinBudget'
    BY <1>4 DEF Pin, Unpin
  <1>5. ASSUME NEW i \in Images, Rewrite(i) \/ Replace(i) PROVE WithinBudget'
    BY <1>5 DEF Rewrite, Replace
  <1>6. CASE Sign
    BY <1>6 DEF Sign
  <1>7. CASE UNCHANGED vars
    BY <1>7 DEF vars
  <1> QED
    BY <1>1, <1>2, <1>3, <1>4, <1>5, <1>6, <1>7 DEF Next

\* What is known of a map that is being built, and of one that is published,
\* stays true.
LEMMA CheckedStep ==
  TypeOK /\ MapInv /\ CheckedInv /\ PublishedIsSigned /\ [Next]_vars
    => CheckedInv' /\ PublishedIsSigned'
  <1> SUFFICES ASSUME TypeOK, MapInv, CheckedInv, PublishedIsSigned, [Next]_vars
               PROVE  CheckedInv' /\ PublishedIsSigned'
    OBVIOUS
  <1> USE BoundsAssumption
          DEF TypeOK, MapInv, CheckedInv, PublishedIsSigned, Owning, Map, At, fileVars,
              mapVars, loadVars
  <1>1. CASE UNCHANGED vars
    BY <1>1 DEF vars
  <1>2. ASSUME NEW l \in Loaders, LoaderStep(l) PROVE CheckedInv' /\ PublishedIsSigned'
    <2>1. CASE ReadSignature(l)
      BY <2>1 DEF ReadSignature
    <2>2. CASE HashFile(l)
      BY <2>2 DEF HashFile
    <2>3. CASE MapFile(l)
      <3>1. maps + 1 \in Map /\ \A m \in 0 .. maps : m # maps + 1
        BY <2>3 DEF MapFile
      <3>2. CheckedInv'
        BY <2>3, <3>1 DEF MapFile
      <3>3. PublishedIsSigned'
        BY <2>3, <3>1 DEF MapFile
      <3> QED
        BY <3>2, <3>3
    <2>4. CASE LoadUsed(l)
      BY <2>4 DEF LoadUsed
    <2>5. CASE Reserve(l)
      BY SMTT(20), <2>5 DEF Reserve
    <2>6. CASE Parse(l)
      BY <2>6 DEF Parse
    <2>7. CASE Rehash(l)
      BY <2>7 DEF Rehash
    <2>8. CASE StoreMap(l)
      <3>1. own[l] \in Map /\ current' = own[l]
            /\ (own[l] \notin altered =>
                  content[own[l]] \in Valid /\ content[own[l]] = want[l])
        BY <2>8 DEF StoreMap
      <3>2. CheckedInv'
        BY <2>8 DEF StoreMap
      <3>3. PublishedIsSigned'
        BY <2>8, <3>1 DEF StoreMap
      <3> QED
        BY <3>2, <3>3
    <2>9. CASE Unload(l)
      BY <2>9 DEF Unload
    <2> QED
      BY <1>2, <2>1, <2>2, <2>3, <2>4, <2>5, <2>6, <2>7, <2>8, <2>9 DEF LoaderStep
  <1>3. ASSUME NEW r \in Readers, Pin(r) \/ Unpin(r)
        PROVE  CheckedInv' /\ PublishedIsSigned'
    BY SMTT(20), <1>3 DEF Pin, Unpin
  <1>4. ASSUME NEW m \in Map, Release(m) PROVE CheckedInv' /\ PublishedIsSigned'
    BY <1>4 DEF Release
  <1>5. ASSUME NEW i \in Images, Rewrite(i) PROVE CheckedInv' /\ PublishedIsSigned'
    BY <1>5 DEF Rewrite
  <1>6. ASSUME NEW i \in Images, Replace(i) PROVE CheckedInv' /\ PublishedIsSigned'
    BY <1>6 DEF Replace
  <1>7. CASE Sign
    BY <1>7 DEF Sign
  <1> QED
    BY <1>1, <1>2, <1>3, <1>4, <1>5, <1>6, <1>7 DEF Next

(***************************************************************************)
(* The three ways in which a step may treat the maps in use: a loader      *)
(* charges one more, a drop gives one back, or none comes or goes, though  *)
(* some may turn from held to dying.                                       *)
(***************************************************************************)
Charges(l) ==
  /\ lpc[l] = "reserve" /\ lpc'[l] = "parse"
  /\ Held' = Held \cup {own[l]} /\ dying' = dying
  /\ used' = used + bytes[own[l]] /\ bytes' = bytes

GivesBack(m) ==
  /\ m \in dying
  /\ Held' = Held /\ dying' = dying \ {m}
  /\ used' = used - bytes[m] /\ bytes' = bytes

Keeps ==
  /\ Held' \subseteq Held /\ dying' = dying \cup (Held \ Held')
  /\ used' = used /\ \A m \in 1 .. maps : bytes'[m] = bytes[m]

\* Every step does one of the three.
LEMMA UseStep ==
  TypeOK /\ MapInv /\ [Next]_vars
    => (\E l \in Loaders : Charges(l)) \/ (\E m \in Map : GivesBack(m)) \/ Keeps
  <1> SUFFICES ASSUME TypeOK, MapInv, [Next]_vars
               PROVE  (\E l \in Loaders : Charges(l)) \/ (\E m \in Map : GivesBack(m)) \/ Keeps
    OBVIOUS
  <1> USE BoundsAssumption DEF fileVars, mapVars, loadVars
  <1>0. ASSUME Held' = Held, dying' = dying, used' = used, bytes' = bytes PROVE Keeps
    BY <1>0 DEF Keeps
  <1>1. CASE UNCHANGED vars
    <2>1. Held' = Held
      BY <1>1 DEF vars, Held, Building
    <2> QED
      BY <1>0, <1>1, <2>1 DEF vars
  <1>2. ASSUME NEW l \in Loaders, LoaderStep(l)
        PROVE  Keeps \/ Charges(l)
    <2> USE DEF At
    <2>0. lpc \in [Loaders -> {"idle", "hash", "map", "load", "reserve", "parse",
                               "rehash", "store"}]
      BY DEF TypeOK
    <2>1. CASE ReadSignature(l)
      <3>1. Held' = Held
        BY <2>0, <2>1 DEF ReadSignature, Held, Building
      <3> QED
        BY <1>0, <2>1, <3>1 DEF ReadSignature
    <2>2. CASE HashFile(l)
      <3>1. Held' = Held
        BY <2>0, <2>2 DEF HashFile, Held, Building
      <3> QED
        BY <1>0, <2>2, <3>1 DEF HashFile
    <2>3. CASE MapFile(l)
      <3>1. \A k \in Loaders : Building(k)' <=> Building(k)
        BY <2>0, <2>3 DEF MapFile, Building
      <3>2. \A k \in Loaders : Building(k) => own'[k] = own[k]
        BY <2>0, <2>3 DEF MapFile, Building, TypeOK
      <3>3. Held' = Held
        BY <2>3, <3>1, <3>2 DEF MapFile, Held
      <3>4. \A m \in 1 .. maps : bytes'[m] = bytes[m]
        BY <2>3 DEF MapFile, TypeOK, Map
      <3> QED
        BY <2>3, <3>3, <3>4 DEF MapFile, Keeps
    <2>4. CASE LoadUsed(l)
      <3>1. Held' = Held
        BY <2>0, <2>4 DEF LoadUsed, Held, Building
      <3> QED
        BY <1>0, <2>4, <3>1 DEF LoadUsed
    <2>5. CASE Reserve(l)
      <3>1. CASE UNCHANGED used
        <4>1. CASE UNCHANGED lpc
          <5>1. Held' = Held
            BY <2>5, <4>1 DEF Reserve, Held, Building
          <5> QED
            BY <1>0, <2>5, <3>1, <5>1 DEF Reserve
        <4>2. CASE At(l, "reserve", "idle")
          <5>1. Held' = Held
            BY <2>0, <2>5, <4>2 DEF Reserve, Held, Building
          <5> QED
            BY <1>0, <2>5, <3>1, <5>1 DEF Reserve
        <4>3. CASE At(l, "reserve", "parse") /\ used' = used + bytes[own[l]]
          <5>1. own[l] \in Map
            BY <4>3 DEF MapInv, Owning
          <5>2. Held' = Held \cup {own[l]}
            BY <2>0, <2>5, <4>3, <5>1 DEF Reserve, Held, Building, Map
          <5> QED
            BY <2>0, <2>5, <4>3, <5>2 DEF Reserve, Charges
        <4> QED
          BY <2>5, <4>1, <4>2, <4>3 DEF Reserve
      <3>2. CASE ~UNCHANGED used
        <4>1. At(l, "reserve", "parse") /\ used' = used + bytes[own[l]]
          BY <2>5, <3>2 DEF Reserve
        <4>2. own[l] \in Map
          BY <4>1 DEF MapInv, Owning
        <4>3. Held' = Held \cup {own[l]}
          BY <2>0, <2>5, <4>1, <4>2 DEF Reserve, Held, Building, Map
        <4> QED
          BY <2>0, <2>5, <4>1, <4>3 DEF Reserve, Charges
      <3> QED
        BY <3>1, <3>2
    <2>6. CASE Parse(l)
      <3>1. Held' \subseteq Held
        BY <2>0, <2>6 DEF Parse, Held, Building
      <3> QED
        BY <2>6, <3>1 DEF Parse, Keeps, DropUnheld
    <2>7. CASE Rehash(l)
      <3>1. Held' \subseteq Held
        BY <2>0, <2>7 DEF Rehash, Held, Building
      <3> QED
        BY <2>7, <3>1 DEF Rehash, Keeps, DropUnheld
    <2>8. CASE StoreMap(l)
      <3>1. Held' \subseteq Held
        BY <2>0, <2>8 DEF StoreMap, Held, Building
      <3> QED
        BY <2>8, <3>1 DEF StoreMap, Keeps, DropUnheld
    <2>9. CASE Unload(l)
      <3>1. Held' \subseteq Held
        BY <2>9 DEF Unload, Held, Building
      <3> QED
        BY <2>9, <3>1 DEF Unload, Keeps, DropUnheld
    <2> QED
      BY <1>2, <2>1, <2>2, <2>3, <2>4, <2>5, <2>6, <2>7, <2>8, <2>9 DEF LoaderStep
  <1>3. ASSUME NEW r \in Readers, Pin(r) \/ Unpin(r) PROVE Keeps
    <2>0. pin \in [Readers -> 0 .. MaxMaps]
      BY DEF TypeOK
    <2>1. CASE Pin(r)
      <3>1. Held' = Held
        BY <2>0, <2>1 DEF Pin, Held, Building
      <3> QED
        BY <1>0, <2>1, <3>1 DEF Pin
    <2>2. CASE Unpin(r)
      <3>1. Held' \subseteq Held
        BY <2>0, <2>2 DEF Unpin, Held, Building
      <3> QED
        BY <2>2, <3>1 DEF Unpin, Keeps, DropUnheld
    <2> QED
      BY <1>3, <2>1, <2>2
  <1>4. ASSUME NEW m \in Map, Release(m) PROVE GivesBack(m)
    <2>1. Held' = Held
      BY <1>4 DEF Release, Held, Building
    <2> QED
      BY <1>4, <2>1 DEF Release, GivesBack
  <1>5. ASSUME NEW i \in Images, Rewrite(i) \/ Replace(i) PROVE Keeps
    <2>1. Held' = Held
      BY <1>5 DEF Rewrite, Replace, Held, Building
    <2> QED
      BY <1>0, <1>5, <2>1 DEF Rewrite, Replace
  <1>6. CASE Sign
    <2>1. Held' = Held
      BY <1>6 DEF Sign, Held, Building
    <2> QED
      BY <1>0, <1>6, <2>1 DEF Sign
  <1> QED
    BY <1>1, <1>2, <1>3, <1>4, <1>5, <1>6 DEF Next

\* Whom a map belongs to before it is charged: MapFile makes a new one, and
\* afterwards a loader only gives its own up.
LEMMA OwnStep ==
  TypeOK /\ MapInv /\ [Next]_vars
    => \A l \in Loaders : Owning(l)' =>
         \/ Owning(l) /\ own'[l] = own[l] /\ maps <= maps'
            /\ (lpc'[l] \in {"load", "reserve"} => lpc[l] \in {"load", "reserve"})
         \/ /\ MapFile(l) /\ maps' = maps + 1 /\ own'[l] = maps + 1
            /\ \A k \in Loaders \ {l} : own'[k] = own[k] /\ (Owning(k)' => Owning(k))
  <1> SUFFICES ASSUME TypeOK, MapInv, [Next]_vars, NEW l \in Loaders, Owning(l)'
               PROVE  \/ Owning(l) /\ own'[l] = own[l] /\ maps <= maps'
                         /\ (lpc'[l] \in {"load", "reserve"} => lpc[l] \in {"load", "reserve"})
                      \/ /\ MapFile(l) /\ maps' = maps + 1 /\ own'[l] = maps + 1
                         /\ \A k \in Loaders \ {l} : own'[k] = own[k] /\ (Owning(k)' => Owning(k))
    OBVIOUS
  <1> USE DEF Owning, At, fileVars, mapVars, loadVars
  <1>0. /\ maps \in Nat
        /\ own \in [Loaders -> 0 .. MaxMaps]
        /\ lpc \in [Loaders -> {"idle", "hash", "map", "load", "reserve", "parse",
                                "rehash", "store"}]
    BY BoundsAssumption DEF TypeOK
  <1>1. ASSUME NEW k \in Loaders, MapFile(k), k = l
        PROVE  /\ MapFile(l) /\ maps' = maps + 1 /\ own'[l] = maps + 1
               /\ \A j \in Loaders \ {l} : own'[j] = own[j] /\ (Owning(j)' => Owning(j))
    BY <1>0, <1>1 DEF MapFile
  <1>2. ASSUME NEW k \in Loaders, MapFile(k), k # l
        PROVE  Owning(l) /\ own'[l] = own[l] /\ maps <= maps' /\ lpc'[l] = lpc[l]
    BY <1>0, <1>2 DEF MapFile
  <1>3. ASSUME NEW k \in Loaders, LoaderStep(k), ~MapFile(k)
        PROVE  /\ Owning(l) /\ own'[l] = own[l] /\ maps <= maps'
               /\ lpc'[l] \in {"load", "reserve"} => lpc[l] \in {"load", "reserve"}
    BY <1>0, <1>3 DEF LoaderStep, ReadSignature, HashFile, LoadUsed, Reserve, Parse, Rehash,
                      StoreMap, Unload
  <1>4. ASSUME ~(\E k \in Loaders : LoaderStep(k))
        PROVE  Owning(l) /\ own'[l] = own[l] /\ maps <= maps' /\ lpc'[l] = lpc[l]
    BY <1>0, <1>4 DEF Next, Pin, Unpin, Release, Rewrite, Replace, Sign, vars
  <1> QED
    BY <1>1, <1>2, <1>3, <1>4

\* The maps that are yet to be charged stay their loaders' own, and no map is
\* held and dying at once.
LEMMA ChargedStep == TypeOK /\ MapInv /\ ChargedInv /\ [Next]_vars => ChargedInv'
  <1> SUFFICES ASSUME TypeOK, MapInv, ChargedInv, [Next]_vars PROVE ChargedInv'
    OBVIOUS
  <1> DEFINE Use == Held \cup dying
  <1>1. maps \in Nat /\ maps' \in Nat /\ maps <= maps'
    <2>1. TypeOK'
      BY TypeStep
    <2>2. maps \in Nat /\ maps' \in Nat
      BY <2>1, BoundsAssumption DEF TypeOK
    <2> QED
      BY <2>2 DEF Next, LoaderStep, ReadSignature, HashFile, MapFile, LoadUsed, Reserve, Parse,
                  Rehash, StoreMap, Unload, Pin, Unpin, Release, Rewrite, Replace, Sign, vars,
                  fileVars, mapVars, loadVars
  <1>2. Held \subseteq 1 .. maps
    BY HeldAreNumbered
  <1>3. dying' \subseteq 1 .. maps' /\ Held' \cap dying' = {}
    <2>1. dying' \subseteq Use
      BY UseStep DEF Charges, GivesBack, Keeps
    <2>2. Held' \cap dying' = {}
      <3>1. ASSUME NEW l \in Loaders, Charges(l) PROVE Held' \cap dying' = {}
        BY <3>1 DEF Charges, ChargedInv
      <3>2. ASSUME NEW m \in Map, GivesBack(m) PROVE Held' \cap dying' = {}
        BY <3>2 DEF GivesBack, ChargedInv
      <3>3. ASSUME Keeps PROVE Held' \cap dying' = {}
        BY <3>3 DEF Keeps, ChargedInv
      <3> QED
        BY <3>1, <3>2, <3>3, UseStep
    <2> QED
      BY <1>1, <1>2, <2>1, <2>2 DEF ChargedInv
  <1>4. \A k, l \in Loaders : k # l /\ Owning(k)' /\ Owning(l)' => own'[k] # own'[l]
    <2> SUFFICES ASSUME NEW k \in Loaders, NEW l \in Loaders, k # l, Owning(k)', Owning(l)'
                 PROVE  own'[k] # own'[l]
      OBVIOUS
    <2>1. \A j \in Loaders : own[j] \in Int /\ own[j] # maps + 1
      BY <1>1, BoundsAssumption DEF MapInv, TypeOK
    <2>2. Owning(k) /\ Owning(l) => own[k] # own[l]
      BY DEF ChargedInv
    <2> QED
      BY <2>1, <2>2, OwnStep
  <1>5. ASSUME NEW l \in Loaders, lpc'[l] \in {"load", "reserve"}
        PROVE  own'[l] \notin Held' \cup dying'
    <2>0. Owning(l)'
      BY <1>5 DEF Owning
    <2>1. CASE MapFile(l) /\ own'[l] = maps + 1
      <3>1. own'[l] \notin Use
        BY <1>1, <1>2, <2>1 DEF ChargedInv
      <3>2. Held' \cup dying' \subseteq Use
        <4>1. dying' = dying /\ used' = used
          BY <2>1 DEF MapFile
        <4>2. ASSUME NEW k \in Loaders, Charges(k) PROVE FALSE
          BY <2>1, <4>2 DEF Charges, MapFile, At, TypeOK
        <4> QED
          BY <4>2, UseStep DEF Keeps, GivesBack
      <3> QED
        BY <3>1, <3>2
    <2>2. CASE Owning(l) /\ own'[l] = own[l] /\ lpc[l] \in {"load", "reserve"}
      <3>1. own[l] \notin Use
        BY <2>2 DEF ChargedInv
      <3>2. ASSUME NEW k \in Loaders, Charges(k) PROVE own[l] \notin Held' \cup dying'
        <4>1. k # l /\ Owning(k)
          BY <1>5, <3>2 DEF Charges, Owning
        <4>2. own[k] # own[l]
          BY <2>2, <4>1 DEF ChargedInv
        <4> QED
          BY <3>1, <3>2, <4>2 DEF Charges
      <3> QED
        BY <2>2, <3>1, <3>2, UseStep DEF Keeps, GivesBack
    <2> QED
      BY <1>5, <2>0, <2>1, <2>2, OwnStep
  <1> QED
    BY <1>3, <1>4, <1>5 DEF ChargedInv

\* And the bytes of the maps in use keep adding up to BUDGET_USED.
LEMMA ExactStep ==
  TypeOK /\ MapInv /\ ChargedInv /\ BudgetIsExact /\ [Next]_vars => BudgetIsExact'
  <1> SUFFICES ASSUME TypeOK, MapInv, ChargedInv, BudgetIsExact, [Next]_vars
               PROVE  BudgetIsExact'
    OBVIOUS
  <1> DEFINE Use == Held \cup dying
  <1>1. /\ IsFiniteSet(Use) /\ Use \subseteq 1 .. maps /\ \A m \in Map : bytes[m] \in Int
        /\ Use \subseteq Map
    <2>1. maps \in Nat /\ MaxMaps \in Nat /\ maps <= MaxMaps
      BY BoundsAssumption DEF TypeOK
    <2>2. Use \subseteq 1 .. maps
      BY HeldAreNumbered DEF ChargedInv
    <2>3. IsFiniteSet(1 .. maps)
      BY <2>1, FS_Interval
    <2>4. 1 .. maps \subseteq Map
      BY <2>1 DEF Map
    <2>5. IsFiniteSet(Use)
      BY <2>2, <2>3, FS_Subset
    <2> QED
      BY <2>2, <2>4, <2>5 DEF TypeOK
  <1>2. used = SumFunctionOnSet(bytes, Use)
    BY DEF BudgetIsExact
  <1>3. BudgetIsExact' <=> used' = SumFunctionOnSet(bytes', Held' \cup dying')
    BY DEF BudgetIsExact
  <1>4. ASSUME NEW l \in Loaders, Charges(l) PROVE BudgetIsExact'
    <2> DEFINE m == own[l]
    <2>1. m \in Map /\ m \notin Use
      BY <1>4 DEF Charges, MapInv, Owning, ChargedInv
    <2>2. Held' \cup dying' = Use \cup {m} /\ used' = used + bytes[m] /\ bytes' = bytes
      BY <1>4 DEF Charges
    <2> HIDE DEF Use, m
    <2> DEFINE More == Use \cup {m}
    <2>3. IsFiniteSet(More) /\ m \in More /\ (\A x \in More : bytes[x] \in Int)
          /\ More \ {m} = Use
      BY <1>1, <2>1, FS_AddElement
    <2> HIDE DEF More
    <2>4. SumFunctionOnSet(bytes, More) = bytes[m] + SumFunctionOnSet(bytes, Use) /\ SumFunctionOnSet(bytes, Use) \in Int
          /\ bytes[m] \in Int
      BY <2>3, SumWith
    <2>5. used' = SumFunctionOnSet(bytes, More)
      BY <1>2, <2>2, <2>4
    <2>6. Held' \cup dying' = More
      BY <2>2 DEF More
    <2> QED
      BY <1>3, <2>2, <2>5, <2>6
  <1>5. ASSUME NEW m \in Map, GivesBack(m) PROVE BudgetIsExact'
    <2>1. m \in Use /\ Held' \cup dying' = Use \ {m}
      BY <1>5 DEF GivesBack, ChargedInv
    <2>2. used' = used - bytes[m] /\ bytes' = bytes /\ \A x \in Use : bytes[x] \in Int
      BY <1>1, <1>5 DEF GivesBack
    <2> HIDE DEF Use
    <2>3. /\ SumFunctionOnSet(bytes, Use) = bytes[m] + SumFunctionOnSet(bytes, Use \ {m})
          /\ SumFunctionOnSet(bytes, Use \ {m}) \in Int /\ bytes[m] \in Int
      BY <1>1, <2>1, <2>2, SumWith
    <2>4. used' = SumFunctionOnSet(bytes, Use \ {m})
      BY <1>2, <2>2, <2>3
    <2> QED
      BY <1>3, <2>1, <2>2, <2>4
  <1>6. ASSUME Keeps PROVE BudgetIsExact'
    <2>1. Held' \cup dying' = Use /\ used' = used
      BY <1>6 DEF Keeps
    <2>2. \A m \in Use : bytes[m] \in Int /\ bytes[m] = bytes'[m]
      BY <1>1, <1>6 DEF Keeps
    <2> HIDE DEF Use
    <2>3. SumFunctionOnSet(bytes, Use) = SumFunctionOnSet(bytes', Use)
      BY <1>1, <2>2, SumAgrees
    <2> QED
      BY <1>2, <1>3, <2>1, <2>3
  <1> QED
    BY <1>4, <1>5, <1>6, UseStep

LEMMA Invariance == Spec => []IInv
  <1>1. Init => IInv
    BY InitInvariant
  <1>2. IInv /\ [Next]_vars => IInv'
    BY TypeStep, BudgetStep, CheckedStep, ChargedStep, ExactStep DEF IInv
  <1> QED
    BY <1>1, <1>2, PTL DEF Spec

-----------------------------------------------------------------------------
\* Every variable of the store keeps its range.
THEOREM TypeCorrect == Spec => []TypeOK
  <1>1. IInv => TypeOK
    BY DEF IInv
  <1> QED
    BY <1>1, Invariance, PTL

\* However many loads race, BUDGET_USED never exceeds BUDGET_LIMIT.
THEOREM BudgetIsKept == Spec => []WithinBudget
  <1>1. IInv => WithinBudget
    BY DEF IInv
  <1> QED
    BY <1>1, Invariance, PTL

\* Every image that a tick or a caller can see parses and is the one whose
\* signature was verified for it, whatever becomes of the file between the steps
\* of the load, unless the mapped file itself is written into.
THEOREM PublishedSigned == Spec => []PublishedIsSigned
  <1>1. IInv => PublishedIsSigned
    BY DEF IInv
  <1> QED
    BY <1>1, Invariance, PTL

\* BUDGET_USED is at every moment the size of the maps that are published,
\* pinned, being built or being dropped: no failed load and no race of the last
\* references leaks a byte or gives one back twice.
THEOREM BudgetExact == Spec => []BudgetIsExact
  <1>1. IInv => BudgetIsExact
    BY DEF IInv
  <1> QED
    BY <1>1, Invariance, PTL

-----------------------------------------------------------------------------
(***************************************************************************)
(* PayloadCaches: what cutting, taking out and placing do to the entries   *)
(* of a cache, to their keys and to their total.                           *)
(***************************************************************************)
\* Numbers add up to a number.
LEMMA SumOfNats ==
  ASSUME NEW S, IsFiniteSet(S), NEW b, \A x \in S : b[x] \in Nat
  PROVE  SumFunctionOnSet(b, S) \in Nat
  <1> DEFINE N == {n \in Nat : \A T \in SUBSET S : Cardinality(T) = n
                                 => SumFunctionOnSet(b, T) \in Nat}
  <1>1. ASSUME NEW n \in Nat, \A m \in Nat : m < n => m \in N PROVE n \in N
    <2> SUFFICES ASSUME NEW T \in SUBSET S, Cardinality(T) = n
                 PROVE  SumFunctionOnSet(b, T) \in Nat
      OBVIOUS
    <2>1. IsFiniteSet(T) /\ \A x \in T : b[x] \in Int
      BY FS_Subset
    <2>2. CASE T = {}
      BY <2>2, SumOfNone
    <2>3. ASSUME NEW x \in T PROVE SumFunctionOnSet(b, T) \in Nat
      <3>1. Cardinality(T \ {x}) \in Nat /\ Cardinality(T \ {x}) < n
        BY <2>1, WithoutIsSmaller
      <3>2. SumFunctionOnSet(b, T \ {x}) \in Nat
        BY <1>1, <3>1
      <3>3. SumFunctionOnSet(b, T) = b[x] + SumFunctionOnSet(b, T \ {x})
        BY <2>1, SumWith
      <3>4. b[x] \in Nat
        OBVIOUS
      <3> QED
        BY <3>2, <3>3, <3>4
    <2> QED
      BY <2>2, <2>3
  <1>2. \A n \in Nat : n \in N
    <2>1. N \in SUBSET Nat
      OBVIOUS
    <2> HIDE DEF N
    <2> QED
      BY <1>1, <2>1, SetInduction
  <1>3. Cardinality(S) \in Nat /\ S \in SUBSET S
    BY FS_CardinalityType
  <1> QED
    BY <1>2, <1>3

\* The entries of a cache have sizes.
Sized(E) == \A e \in E : e.size \in Nat

\* The total of a cache is the sum of its sizes.
LEMMA TotalIsSum ==
  ASSUME NEW E, Sized(E), NEW s \in Seq(E)
  PROVE  /\ Total(s) = SumFunctionOnSet(Sizes(s), 1 .. Len(s))
         /\ \A k \in 1 .. Len(s) : Sizes(s)[k] = s[k].size /\ Sizes(s)[k] \in Nat
         /\ Total(s) \in Nat
  <1>1. DOMAIN s = 1 .. Len(s) /\ DOMAIN Sizes(s) = 1 .. Len(s)
    BY DEF Sizes
  <1>2. \A k \in 1 .. Len(s) : Sizes(s)[k] = s[k].size /\ s[k] \in E
    BY DEF Sizes
  <1>3. \A k \in 1 .. Len(s) : Sizes(s)[k] \in Nat
    BY <1>2 DEF Sized
  <1>4. IsFiniteSet(1 .. Len(s))
    BY FS_Interval
  <1>5. SumFunctionOnSet(Sizes(s), 1 .. Len(s)) \in Nat
    BY <1>3, <1>4, SumOfNats
  <1>6. Total(s) = SumFunctionOnSet(Sizes(s), 1 .. Len(s))
    BY <1>1 DEF Total, SumFunction
  <1> QED
    BY <1>2, <1>3, <1>5, <1>6

\* Each entry adds its size.
LEMMA PrefixSum ==
  ASSUME NEW E, Sized(E), NEW s \in Seq(E), NEW k \in 0 .. Len(s) - 1
  PROVE  /\ SumFunctionOnSet(Sizes(s), 1 .. k) \in Int
         /\ SumFunctionOnSet(Sizes(s), 1 .. k + 1)
              = SumFunctionOnSet(Sizes(s), 1 .. k) + s[k + 1].size
  <1> DEFINE S == 1 .. k + 1
             b == Sizes(s)
  <1>1. IsFiniteSet(S)
    BY FS_Interval
  <1>2. \A x \in S : b[x] \in Int /\ b[x] = s[x].size
    BY TotalIsSum
  <1>3. k + 1 \in S /\ S \ {k + 1} = 1 .. k
    OBVIOUS
  <1> HIDE DEF S, b
  <1>4. /\ SumFunctionOnSet(b, S \ {k + 1}) \in Int
        /\ SumFunctionOnSet(b, S) = b[k + 1] + SumFunctionOnSet(b, S \ {k + 1})
    BY <1>1, <1>2, <1>3, SumWith
  <1>5. b[k + 1] \in Int /\ b[k + 1] = s[k + 1].size
    BY <1>2, <1>3
  <1>6. /\ SumFunctionOnSet(b, 1 .. k) \in Int
        /\ SumFunctionOnSet(b, S) = s[k + 1].size + SumFunctionOnSet(b, 1 .. k)
        /\ s[k + 1].size \in Int
    BY <1>3, <1>4, <1>5
  <1>7. SumFunctionOnSet(b, S) = SumFunctionOnSet(b, 1 .. k) + s[k + 1].size
    BY <1>6
  <1> QED
    BY <1>6, <1>7 DEF S, b

\* A concatenation is as large as its parts.
LEMMA TotalOfBoth ==
  ASSUME NEW E, Sized(E), NEW s \in Seq(E), NEW t \in Seq(E)
  PROVE  Total(s \o t) = Total(s) + Total(t)
  <1> DEFINE u == s \o t
             P(j) == SumFunctionOnSet(Sizes(u), 1 .. Len(s) + j)
                       = Total(s) + SumFunctionOnSet(Sizes(t), 1 .. j)
             N == {j \in Nat : j <= Len(t) => P(j)}
  <1>0. /\ u \in Seq(E) /\ Len(u) = Len(s) + Len(t) /\ Len(s) \in Nat /\ Len(t) \in Nat
        /\ \A k \in 1 .. Len(s) : u[k] = s[k]
        /\ \A k \in 1 .. Len(t) : u[Len(s) + k] = t[k]
    OBVIOUS
  <1> HIDE DEF u
  <1>1. ASSUME NEW j \in Nat, \A m \in Nat : m < j => m \in N PROVE j \in N
    <2> SUFFICES ASSUME j <= Len(t) PROVE P(j)
      OBVIOUS
    <2>1. CASE j = 0
      <3>1. \A k \in 1 .. Len(s) : Sizes(s)[k] \in Int /\ Sizes(s)[k] = Sizes(u)[k]
        <4>1. \A k \in 1 .. Len(s) : Sizes(s)[k] = s[k].size /\ Sizes(s)[k] \in Nat
          BY TotalIsSum
        <4>2. \A k \in 1 .. Len(u) : Sizes(u)[k] = u[k].size
          BY <1>0, TotalIsSum
        <4>3. \A k \in 1 .. Len(s) : k \in 1 .. Len(u) /\ u[k] = s[k]
          BY <1>0
        <4> QED
          BY <4>1, <4>2, <4>3
      <3>2. IsFiniteSet(1 .. Len(s))
        <4>1. Len(s) \in Int /\ 1 \in Int
          BY <1>0
        <4> QED
          BY <4>1, FS_Interval
      <3>3. SumFunctionOnSet(Sizes(s), 1 .. Len(s)) = SumFunctionOnSet(Sizes(u), 1 .. Len(s))
        BY <3>1, <3>2, SumAgrees
      <3>4. SumFunctionOnSet(Sizes(t), 1 .. j) = 0
        <4>1. 1 .. j = {}
          BY <2>1
        <4> QED
          BY <4>1, SumOfNone
      <3>5. Total(s) = SumFunctionOnSet(Sizes(s), 1 .. Len(s)) /\ Total(s) \in Nat
        BY TotalIsSum
      <3>6. Len(s) + j = Len(s)
        BY <1>0, <2>1
      <3> QED
        BY <3>3, <3>4, <3>5, <3>6
    <2>2. CASE j # 0
      <3> DEFINE i == j - 1
      <3>1. i \in Nat /\ i < j /\ i <= Len(t) /\ i \in 0 .. Len(t) - 1
            /\ Len(s) + i \in 0 .. Len(u) - 1 /\ j = i + 1
        BY <1>0, <2>2
      <3> HIDE DEF i
      <3>2. P(i)
        BY <1>1, <3>1
      <3>3. /\ SumFunctionOnSet(Sizes(t), 1 .. i) \in Int
            /\ SumFunctionOnSet(Sizes(t), 1 .. i + 1)
                 = SumFunctionOnSet(Sizes(t), 1 .. i) + t[i + 1].size
        BY <3>1, PrefixSum
      <3>4. SumFunctionOnSet(Sizes(u), 1 .. (Len(s) + i) + 1)
              = SumFunctionOnSet(Sizes(u), 1 .. Len(s) + i) + u[(Len(s) + i) + 1].size
        BY <1>0, <3>1, PrefixSum
      <3>5. (Len(s) + i) + 1 = Len(s) + j /\ u[(Len(s) + i) + 1] = t[i + 1]
            /\ i + 1 \in 1 .. Len(t)
        <4>1. (Len(s) + i) + 1 = Len(s) + j /\ Len(s) + j = Len(s) + (i + 1)
              /\ i + 1 \in 1 .. Len(t)
          BY <1>0, <3>1
        <4> QED
          BY <1>0, <4>1
      <3>6. t[i + 1].size \in Int /\ Total(s) \in Int
        BY <3>5, TotalIsSum
      <3> DEFINE a == SumFunctionOnSet(Sizes(t), 1 .. i)
                 c == t[i + 1].size
                 d == Total(s)
      <3>7. SumFunctionOnSet(Sizes(u), 1 .. Len(s) + j) = (d + a) + c
        BY <3>2, <3>4, <3>5
      <3>8. SumFunctionOnSet(Sizes(t), 1 .. j) = a + c
        BY <3>1, <3>3
      <3>9. a \in Int /\ c \in Int /\ d \in Int
        BY <3>3, <3>6
      <3> HIDE DEF a, c, d
      <3>10. (d + a) + c = d + (a + c)
        BY <3>9
      <3> QED
        BY <3>7, <3>8, <3>10 DEF d
    <2> QED
      BY <2>1, <2>2
  <1>2. \A j \in Nat : j \in N
    <2>1. N \in SUBSET Nat
      OBVIOUS
    <2> HIDE DEF N
    <2> QED
      BY <1>1, <2>1, SetInduction
  <1>3. P(Len(t))
    <2>1. Len(t) \in N /\ Len(t) <= Len(t)
      BY <1>0, <1>2
    <2> QED
      BY <2>1
  <1>4. Total(u) = SumFunctionOnSet(Sizes(u), 1 .. Len(s) + Len(t))
    BY <1>0, TotalIsSum
  <1>5. Total(t) = SumFunctionOnSet(Sizes(t), 1 .. Len(t))
    BY TotalIsSum
  <1> QED
    BY <1>3, <1>4, <1>5 DEF u

\* One entry is as large as it is, and none is nothing.
LEMMA TotalOfOne ==
  ASSUME NEW E, Sized(E), NEW e \in E
  PROVE  Total(<<e>>) = e.size /\ Total(<< >>) = 0
  <1> DEFINE s == <<e>>
             none == << >>
  <1>1. s \in Seq(E) /\ Len(s) = 1 /\ s[0 + 1] = e /\ 0 \in 0 .. Len(s) - 1
        /\ none \in Seq(E) /\ Len(none) = 0 /\ 0 + 1 = 1
    OBVIOUS
  <1> HIDE DEF s, none
  <1>2. SumFunctionOnSet(Sizes(s), 1 .. 0) = 0 /\ SumFunctionOnSet(Sizes(none), 1 .. 0) = 0
    <2>1. 1 .. 0 = {}
      OBVIOUS
    <2> QED
      BY <2>1, SumOfNone
  <1>3. SumFunctionOnSet(Sizes(s), 1 .. 0 + 1)
          = SumFunctionOnSet(Sizes(s), 1 .. 0) + s[0 + 1].size
    BY <1>1, PrefixSum
  <1>4. e.size \in Nat
    BY DEF Sized
  <1>5. Total(s) = SumFunctionOnSet(Sizes(s), 1 .. 1)
    BY <1>1, TotalIsSum
  <1>6. Total(none) = SumFunctionOnSet(Sizes(none), 1 .. 0)
    BY <1>1, TotalIsSum
  <1> QED
    BY <1>1, <1>2, <1>3, <1>4, <1>5, <1>6 DEF s, none

\* A sequence is cut in two.
LEMMA Cut ==
  ASSUME NEW E, NEW s \in Seq(E), NEW k \in 0 .. Len(s)
  PROVE  /\ SubSeq(s, 1, k) \in Seq(E) /\ SubSeq(s, k + 1, Len(s)) \in Seq(E)
         /\ Len(SubSeq(s, 1, k)) = k /\ Len(SubSeq(s, k + 1, Len(s))) = Len(s) - k
         /\ \A j \in 1 .. k : SubSeq(s, 1, k)[j] = s[j]
         /\ \A j \in 1 .. Len(s) - k : SubSeq(s, k + 1, Len(s))[j] = s[k + j]
         /\ s = SubSeq(s, 1, k) \o SubSeq(s, k + 1, Len(s))
  <1>0. Len(s) \in Nat /\ k \in Nat /\ k <= Len(s)
    BY LenProperties
  <1>1. \A j \in 1 .. Len(s) : s[j] \in E
    BY ElementOfSeq
  <1>2. /\ SubSeq(s, 1, k) \in Seq(E)
        /\ Len(SubSeq(s, 1, k)) = IF 1 <= k THEN k - 1 + 1 ELSE 0
        /\ \A j \in 1 .. k - 1 + 1 : SubSeq(s, 1, k)[j] = s[1 + j - 1]
    <2>1. \A j \in 1 .. k : s[j] \in E
      BY <1>0, <1>1
    <2> QED
      BY <1>0, <2>1, SubSeqProperties
  <1>3. /\ SubSeq(s, k + 1, Len(s)) \in Seq(E)
        /\ Len(SubSeq(s, k + 1, Len(s)))
             = IF k + 1 <= Len(s) THEN Len(s) - (k + 1) + 1 ELSE 0
        /\ \A j \in 1 .. Len(s) - (k + 1) + 1 :
             SubSeq(s, k + 1, Len(s))[j] = s[k + 1 + j - 1]
    <2>1. \A j \in k + 1 .. Len(s) : s[j] \in E
      BY <1>0, <1>1
    <2>2. k + 1 \in Int /\ Len(s) \in Int
      BY <1>0
    <2> QED
      BY <2>1, <2>2, SubSeqProperties
  <1>4. SubSeq(s, 1, k) \o SubSeq(s, k + 1, Len(s)) = s
    <2>1. 1 \in 1 .. Len(s) + 1 /\ k \in 1 - 1 .. Len(s) /\ Len(s) \in k .. Len(s)
      BY <1>0
    <2>2. SubSeq(s, 1, k) \o SubSeq(s, k + 1, Len(s)) = SubSeq(s, 1, Len(s))
      BY <2>1, ConcatAdjacentSubSeq
    <2> QED
      BY <2>2, SubSeqFull
  <1>5. /\ Len(SubSeq(s, 1, k)) = k
        /\ \A j \in 1 .. k : SubSeq(s, 1, k)[j] = s[j]
    BY <1>0, <1>2
  <1>6. /\ Len(SubSeq(s, k + 1, Len(s))) = Len(s) - k
        /\ \A j \in 1 .. Len(s) - k : SubSeq(s, k + 1, Len(s))[j] = s[k + j]
    <2>1. Len(s) - (k + 1) + 1 = Len(s) - k
      BY <1>0
    <2>2. ASSUME NEW j \in 1 .. Len(s) - k
          PROVE  SubSeq(s, k + 1, Len(s))[j] = s[k + j]
      <3>1. j \in 1 .. Len(s) - (k + 1) + 1 /\ k + 1 + j - 1 = k + j
        BY <1>0, <2>1
      <3> QED
        BY <1>3, <3>1
    <2>3. Len(SubSeq(s, k + 1, Len(s))) = Len(s) - k
      BY <1>0, <1>3
    <2> QED
      BY <2>2, <2>3
  <1> QED
    BY <1>2, <1>3, <1>4, <1>5, <1>6

\* Either part counts, and they make up the whole.
LEMMA TotalOfCut ==
  ASSUME NEW E, Sized(E), NEW s \in Seq(E), NEW k \in 0 .. Len(s)
  PROVE  Total(s) = Total(SubSeq(s, 1, k)) + Total(SubSeq(s, k + 1, Len(s)))
  <1> DEFINE a == SubSeq(s, 1, k)
             b == SubSeq(s, k + 1, Len(s))
  <1>1. a \in Seq(E) /\ b \in Seq(E) /\ s = a \o b
    BY Cut
  <1> HIDE DEF a, b
  <1>2. Total(a \o b) = Total(a) + Total(b)
    BY <1>1, TotalOfBoth
  <1> QED
    BY <1>1, <1>2 DEF a, b

\* Where the entry of a key is, and what is left of the sequence without it.
LEMMA PlaceOfKey ==
  ASSUME NEW E, NEW s \in Seq(E), NEW key \in Keys(s)
  PROVE  /\ Place(s, key) \in 1 .. Len(s) /\ s[Place(s, key)].key = key
         /\ Of(s, key) = <<s[Place(s, key)]>>
         /\ Without(s, key) = SubSeq(s, 1, Place(s, key) - 1)
                                \o SubSeq(s, Place(s, key) + 1, Len(s))
  <1>1. \E k \in DOMAIN s : s[k].key = key
    BY DEF Keys
  <1>2. DOMAIN s = 1 .. Len(s)
    BY LenProperties
  <1>3. Place(s, key) \in 1 .. Len(s) /\ s[Place(s, key)].key = key
    BY <1>1, <1>2 DEF Place
  <1> QED
    BY <1>3 DEF Of, Without, RemoveAt

\* What is before an entry and what comes after it.
LEMMA Around ==
  ASSUME NEW E, NEW s \in Seq(E), NEW p \in 1 .. Len(s)
  PROVE  LET a == SubSeq(s, 1, p - 1)
             b == SubSeq(s, p + 1, Len(s))
         IN  /\ a \in Seq(E) /\ b \in Seq(E)
             /\ Len(a) = p - 1 /\ Len(b) = Len(s) - p
             /\ \A j \in 1 .. p - 1 : a[j] = s[j]
             /\ \A j \in 1 .. Len(s) - p : b[j] = s[p + j]
             /\ s[p] \in E
             /\ s = (a \o <<s[p]>>) \o b
  <1> DEFINE a == SubSeq(s, 1, p - 1)
             b == SubSeq(s, p + 1, Len(s))
  <1>0. p - 1 \in 0 .. Len(s) /\ p \in 0 .. Len(s) /\ (p - 1) + 1 = p /\ Len(s) \in Nat
    BY LenProperties
  <1>1. a \in Seq(E) /\ Len(a) = p - 1 /\ \A j \in 1 .. p - 1 : a[j] = s[j]
    <2> DEFINE k == p - 1
    <2>1. k \in 0 .. Len(s)
      BY <1>0
    <2> HIDE DEF k
    <2>2. /\ SubSeq(s, 1, k) \in Seq(E) /\ Len(SubSeq(s, 1, k)) = k
          /\ \A j \in 1 .. k : SubSeq(s, 1, k)[j] = s[j]
      BY <2>1, Cut
    <2> QED
      BY ONLY <2>2 DEF k
  <1>2. b \in Seq(E) /\ Len(b) = Len(s) - p /\ \A j \in 1 .. Len(s) - p : b[j] = s[p + j]
    BY <1>0, Cut
  <1>3. s[p] \in E
    BY ElementOfSeq
  <1>4. SubSeq(s, 1, p) = a \o <<s[p]>>
    <2>1. 1 \in 1 .. Len(s) /\ p \in 1 .. Len(s)
      BY <1>0
    <2>2. SubSeq(s, 1, p) = SubSeq(s, 1, p - 1) \o <<s[p]>>
      BY <2>1, SubSeqRecursiveSecond
    <2> QED
      BY <2>2
  <1>5. s = SubSeq(s, 1, p) \o b
    BY <1>0, Cut
  <1> HIDE DEF a, b
  <1>6. s = (a \o <<s[p]>>) \o b
    BY <1>4, <1>5
  <1> QED
    BY <1>1, <1>2, <1>3, <1>6 DEF a, b

\* An entry and the others make up the whole.
LEMMA TotalOfParts ==
  ASSUME NEW E, Sized(E), NEW s \in Seq(E), NEW key
  PROVE  /\ Of(s, key) \in Seq(E) /\ Without(s, key) \in Seq(E)
         /\ Total(Of(s, key)) \in Nat /\ Total(Without(s, key)) \in Nat
         /\ Total(s) = Total(Without(s, key)) + Total(Of(s, key))
  <1>1. CASE key \notin Keys(s)
    <2>1. Of(s, key) = << >> /\ Without(s, key) = s
      BY <1>1 DEF Of, Without
    <2>2. << >> \in Seq(E) /\ Total(s) \in Nat
      BY TotalIsSum
    <2>3. Total(<< >>) = 0
      <3> DEFINE none == << >>
      <3>1. none \in Seq(E) /\ none \o none = none
        BY <2>2, ConcatEmptySeq
      <3> HIDE DEF none
      <3>2. Total(none \o none) = Total(none) + Total(none) /\ Total(none) \in Nat
        BY <3>1, TotalOfBoth, TotalIsSum
      <3>3. Total(none) = 0
        BY <3>1, <3>2
      <3> QED
        BY <3>3 DEF none
    <2> QED
      BY <2>1, <2>2, <2>3
  <1>2. CASE key \in Keys(s)
    <2> DEFINE p == Place(s, key)
               a == SubSeq(s, 1, p - 1)
               b == SubSeq(s, p + 1, Len(s))
    <2>1. p \in 1 .. Len(s) /\ Of(s, key) = <<s[p]>> /\ Without(s, key) = a \o b
      BY <1>2, PlaceOfKey
    <2> HIDE DEF p
    <2>2. a \in Seq(E) /\ b \in Seq(E) /\ s[p] \in E /\ s = (a \o <<s[p]>>) \o b
      BY <2>1, Around
    <2> HIDE DEF a, b
    <2> DEFINE e == s[p]
    <2>3. <<e>> \in Seq(E) /\ a \o <<e>> \in Seq(E) /\ a \o b \in Seq(E)
      BY <2>2
    <2>4. Total(s) = Total(a \o <<e>>) + Total(b)
      BY <2>2, <2>3, TotalOfBoth
    <2>5. Total(a \o <<e>>) = Total(a) + Total(<<e>>)
      BY <2>2, <2>3, TotalOfBoth
    <2>6. Total(a \o b) = Total(a) + Total(b)
      BY <2>2, TotalOfBoth
    <2>7. Total(a) \in Nat /\ Total(b) \in Nat /\ Total(<<e>>) \in Nat
      BY <2>2, <2>3, TotalIsSum
    <2> HIDE DEF e
    <2>8. Total(s) = Total(a \o b) + Total(<<e>>) /\ Total(a \o b) \in Nat
      BY <2>4, <2>5, <2>6, <2>7
    <2> QED
      BY <2>1, <2>3, <2>7, <2>8 DEF e
  <1> QED
    BY <1>1, <1>2

\* An entry that is placed comes instead of the one of its key.
LEMMA TotalOfPlaced ==
  ASSUME NEW E, Sized(E), NEW s \in Seq(E), Distinct(s), NEW e \in E
  PROVE  /\ Placed(s, e) \in Seq(E)
         /\ Total(Placed(s, e)) = Total(s) - Total(Of(s, e.key)) + e.size
  <1>0. e.size \in Nat /\ <<e>> \in Seq(E) /\ Total(<<e>>) = e.size /\ Total(s) \in Nat
    BY TotalOfOne, TotalIsSum DEF Sized
  <1>1. CASE e.key \notin Keys(s)
    <2>1. Of(s, e.key) = << >> /\ Placed(s, e) = s \o <<e>>
      BY <1>1 DEF Of, Placed
    <2>2. Total(s \o <<e>>) = Total(s) + Total(<<e>>)
      BY <1>0, TotalOfBoth
    <2>3. Total(<< >>) = 0
      BY TotalOfOne
    <2>4. s \o <<e>> \in Seq(E)
      BY <1>0
    <2> QED
      BY <1>0, <2>1, <2>2, <2>3, <2>4
  <1>2. CASE e.key \in Keys(s)
    <2> DEFINE p == Place(s, e.key)
               a == SubSeq(s, 1, p - 1)
               b == SubSeq(s, p + 1, Len(s))
               t == [k \in DOMAIN s |-> IF s[k].key = e.key THEN e ELSE s[k]]
    <2>1. /\ p \in 1 .. Len(s) /\ s[p].key = e.key
          /\ Of(s, e.key) = <<s[p]>> /\ Without(s, e.key) = a \o b
      BY <1>2, PlaceOfKey
    <2> HIDE DEF p
    <2>2. /\ a \in Seq(E) /\ b \in Seq(E) /\ s[p] \in E
          /\ Len(a) = p - 1 /\ Len(b) = Len(s) - p
      BY <2>1, Around
    <2>3. /\ t \in Seq(E) /\ Len(t) = Len(s) /\ t[p] = e
          /\ \A k \in 1 .. Len(s) : k # p => t[k] = s[k]
      BY <2>1 DEF Distinct
    <2> HIDE DEF t
    <2>4. t = (a \o <<e>>) \o b
      <3> DEFINE c == SubSeq(t, 1, p - 1)
                 d == SubSeq(t, p + 1, Len(t))
      <3>0. p \in 1 .. Len(t)
        BY <2>1, <2>3
      <3>1. /\ c \in Seq(E) /\ d \in Seq(E) /\ t = (c \o <<t[p]>>) \o d
            /\ Len(c) = p - 1 /\ Len(d) = Len(t) - p
            /\ \A j \in 1 .. p - 1 : c[j] = t[j]
            /\ \A j \in 1 .. Len(t) - p : d[j] = t[p + j]
        BY ZenonT(30), <2>3, <3>0, Around
      <3>2. /\ \A j \in 1 .. p - 1 : a[j] = s[j]
            /\ \A j \in 1 .. Len(s) - p : b[j] = s[p + j]
        BY <2>1, Around
      <3> HIDE DEF a, b, c, d
      <3>3. c = a
        <4>1. ASSUME NEW j \in 1 .. p - 1 PROVE c[j] = a[j]
          <5>1. j \in 1 .. Len(s) /\ j # p
            BY <2>1, LenProperties
          <5> QED
            BY <2>3, <3>1, <3>2, <5>1
        <4>2. Len(c) = Len(a) /\ \A j \in 1 .. Len(c) : c[j] = a[j]
          BY <2>2, <3>1, <4>1
        <4> QED
          BY <2>2, <3>1, <4>2, SeqEqual
      <3>4. d = b
        <4>1. ASSUME NEW j \in 1 .. Len(s) - p PROVE d[j] = b[j]
          <5>1. p + j \in 1 .. Len(s) /\ p + j # p
            BY <2>1, LenProperties
          <5> QED
            BY <2>3, <3>1, <3>2, <5>1
        <4>2. Len(d) = Len(b) /\ \A j \in 1 .. Len(d) : d[j] = b[j]
          BY <2>2, <2>3, <3>1, <4>1
        <4> QED
          BY <2>2, <3>1, <4>2, SeqEqual
      <3> QED
        BY <2>3, <3>1, <3>3, <3>4
    <2> HIDE DEF a, b
    <2>5. a \o <<e>> \in Seq(E) /\ a \o b \in Seq(E)
      BY <1>0, <2>2
    <2>6. Total(t) = Total(a \o <<e>>) + Total(b) /\ Total(a \o <<e>>) = Total(a) + Total(<<e>>)
          /\ Total(a \o b) = Total(a) + Total(b)
      BY <1>0, <2>2, <2>4, <2>5, TotalOfBoth
    <2>7. /\ Total(s) = Total(a \o b) + Total(Of(s, e.key))
          /\ Total(Of(s, e.key)) \in Nat
      BY <2>1, TotalOfParts
    <2>8. Total(a) \in Nat /\ Total(b) \in Nat
      BY <2>2, TotalIsSum
    <2>9. Total(t) = Total(s) - Total(Of(s, e.key)) + e.size
      BY <1>0, <2>6, <2>7, <2>8
    <2>10. Placed(s, e) = t
      BY <1>2 DEF Placed, t
    <2> QED
      BY <2>3, <2>9, <2>10
  <1> QED
    BY <1>1, <1>2

\* What the loop of _put and of _putSkinImage stops at: the cache is empty, or
\* there is room.
LEMMA EvictedMakesRoom ==
  ASSUME NEW E, Sized(E), NEW s \in Seq(E), NEW counted \in Int, NEW items \in Int,
         NEW limit \in Int, NEW incoming \in Int
  PROVE  LET k == Evicted(s, counted, items, limit, incoming)
         IN  /\ k \in 0 .. Len(s)
             /\ \/ k = Len(s)
                \/ /\ Len(s) - k < items
                   /\ counted - Total(SubSeq(s, 1, k)) + incoming <= limit
  <1> DEFINE Room(k) == /\ Len(s) - k < items
                        /\ counted - Total(SubSeq(s, 1, k)) + incoming <= limit
             K == {k \in 0 .. Len(s) : k = Len(s) \/ Room(k)}
             Stop(k) == (k = Len(s) \/ Room(k)) /\ \A j \in 0 .. k - 1 : ~Room(j)
  <1>1. Len(s) \in Nat
    BY LenProperties
  <1>2. K \in SUBSET Nat /\ K # {}
    BY <1>1
  <1>3. \A k \in K : k \in 0 .. Len(s) /\ (k = Len(s) \/ Room(k))
    OBVIOUS
  <1>4. \A k \in 0 .. Len(s) : Room(k) => k \in K
    OBVIOUS
  <1> HIDE DEF K
  <1>5. PICK k \in K : \A m \in K : k <= m
    BY <1>2, LeastNumber
  <1> HIDE DEF Room
  <1>6. ASSUME NEW j \in 0 .. k - 1 PROVE ~Room(j)
    <2>1. j \in 0 .. Len(s) /\ k \in Nat /\ j < k
      BY <1>1, <1>3
    <2>2. Room(j) => k <= j
      BY <1>4, <1>5, <2>1
    <2> QED
      BY <2>1, <2>2
  <1>7. \E n \in 0 .. Len(s) : Stop(n)
    BY <1>3, <1>6
  <1>8. Evicted(s, counted, items, limit, incoming) = CHOOSE n \in 0 .. Len(s) : Stop(n)
    BY DEF Evicted, Room
  <1> DEFINE found == CHOOSE n \in 0 .. Len(s) : Stop(n)
  <1>9. found \in 0 .. Len(s) /\ Stop(found)
    BY <1>7
  <1> QED
    BY <1>8, <1>9 DEF Room

\* The others keep their order and close up.
LEMMA WithoutElements ==
  ASSUME NEW E, NEW s \in Seq(E), NEW key \in Keys(s)
  PROVE  /\ Without(s, key) \in Seq(E) /\ Len(Without(s, key)) = Len(s) - 1
         /\ \A j \in 1 .. Len(s) - 1 :
              Without(s, key)[j] = s[IF j < Place(s, key) THEN j ELSE j + 1]
  <1> DEFINE p == Place(s, key)
             a == SubSeq(s, 1, p - 1)
             b == SubSeq(s, p + 1, Len(s))
  <1>1. p \in 1 .. Len(s) /\ Without(s, key) = a \o b /\ Len(s) \in Nat
    BY PlaceOfKey, LenProperties
  <1> HIDE DEF p
  <1>2. /\ a \in Seq(E) /\ b \in Seq(E)
        /\ Len(a) = p - 1 /\ Len(b) = Len(s) - p
        /\ \A j \in 1 .. p - 1 : a[j] = s[j]
        /\ \A j \in 1 .. Len(s) - p : b[j] = s[p + j]
    BY <1>1, Around
  <1> HIDE DEF a, b
  <1>3. /\ a \o b \in Seq(E) /\ Len(a \o b) = Len(a) + Len(b)
        /\ \A j \in 1 .. Len(a) + Len(b) :
             (a \o b)[j] = IF j <= Len(a) THEN a[j] ELSE b[j - Len(a)]
    BY <1>2, ConcatProperties
  <1>4. Len(a) + Len(b) = Len(s) - 1
    BY <1>1, <1>2
  <1>5. ASSUME NEW j \in 1 .. Len(s) - 1
        PROVE  (a \o b)[j] = s[IF j < p THEN j ELSE j + 1]
    <2>1. CASE j < p
      <3>1. j <= Len(a) /\ j \in 1 .. p - 1
        BY <1>1, <1>2, <2>1
      <3> QED
        BY <1>2, <1>3, <1>4, <2>1, <3>1
    <2>2. CASE ~(j < p)
      <3>1. ~(j <= Len(a)) /\ j - Len(a) \in 1 .. Len(s) - p /\ p + (j - Len(a)) = j + 1
        BY <1>1, <1>2, <2>2
      <3> QED
        BY <1>2, <1>3, <1>4, <2>2, <3>1
    <2> QED
      BY <2>1, <2>2
  <1> QED
    BY <1>1, <1>3, <1>4, <1>5 DEF p

\* No key is doubled by what is done to a sequence of distinct ones.
LEMMA CutIsDistinct ==
  ASSUME NEW E, NEW s \in Seq(E), Distinct(s), NEW k \in 0 .. Len(s)
  PROVE  Distinct(SubSeq(s, k + 1, Len(s)))
  <1> DEFINE b == SubSeq(s, k + 1, Len(s))
  <1>1. /\ b \in Seq(E) /\ Len(b) = Len(s) - k
        /\ \A j \in 1 .. Len(s) - k : b[j] = s[k + j]
    BY Cut
  <1> HIDE DEF b
  <1>2. DOMAIN b = 1 .. Len(s) - k /\ DOMAIN s = 1 .. Len(s) /\ Len(s) \in Nat /\ k \in Nat
    BY <1>1, LenProperties
  <1>3. ASSUME NEW i \in DOMAIN b, NEW j \in DOMAIN b, b[i].key = b[j].key PROVE i = j
    <2>1. i \in Nat /\ j \in Nat /\ k + i \in DOMAIN s /\ k + j \in DOMAIN s
      BY <1>2
    <2>2. s[k + i].key = s[k + j].key
      BY <1>1, <1>2, <1>3
    <2>3. k + i = k + j
      BY <2>1, <2>2 DEF Distinct
    <2> QED
      BY <1>2, <2>1, <2>3
  <1> QED
    BY <1>3 DEF Distinct, b

\* Nor by what takes one out: its key is gone.
LEMMA WithoutIsDistinct ==
  ASSUME NEW E, NEW s \in Seq(E), Distinct(s), NEW key
  PROVE  Distinct(Without(s, key)) /\ key \notin Keys(Without(s, key))
  <1>1. CASE key \notin Keys(s)
    BY <1>1 DEF Without
  <1>2. CASE key \in Keys(s)
    <2> DEFINE t == Without(s, key)
               p == Place(s, key)
               to(j) == IF j < p THEN j ELSE j + 1
    <2>1. /\ t \in Seq(E) /\ Len(t) = Len(s) - 1 /\ p \in 1 .. Len(s) /\ s[p].key = key
          /\ \A j \in 1 .. Len(s) - 1 : t[j] = s[to(j)]
      BY <1>2, WithoutElements, PlaceOfKey
    <2> HIDE DEF t, p
    <2>2. DOMAIN t = 1 .. Len(s) - 1 /\ DOMAIN s = 1 .. Len(s) /\ Len(s) \in Nat
      BY <2>1, LenProperties
    <2>3. ASSUME NEW j \in DOMAIN t PROVE to(j) \in DOMAIN s /\ to(j) # p
      BY <2>1, <2>2
    <2>4. ASSUME NEW i \in DOMAIN t, NEW j \in DOMAIN t, t[i].key = t[j].key PROVE i = j
      <3>1. s[to(i)].key = s[to(j)].key
        BY <2>1, <2>2, <2>4
      <3>2. to(i) = to(j)
        <4>1. to(i) \in DOMAIN s /\ to(j) \in DOMAIN s
          BY <2>3
        <4> HIDE DEF to
        <4> QED
          BY <3>1, <4>1 DEF Distinct
      <3> QED
        BY <2>1, <2>2, <3>2
    <2>5. ASSUME NEW j \in DOMAIN t PROVE t[j].key # key
      <3>1. to(j) \in DOMAIN s /\ to(j) # p /\ t[j] = s[to(j)] /\ p \in DOMAIN s
        BY <2>1, <2>2, <2>3
      <3> HIDE DEF to
      <3> QED
        BY <2>1, <3>1 DEF Distinct
    <2> QED
      BY <2>4, <2>5 DEF Distinct, Keys, t
  <1> QED
    BY <1>1, <1>2

\* Nor by a new one that comes last.
LEMMA AppendIsDistinct ==
  ASSUME NEW E, NEW s \in Seq(E), Distinct(s), NEW e \in E, e.key \notin Keys(s)
  PROVE  Distinct(Append(s, e))
  <1>1. /\ Append(s, e) \in Seq(E) /\ Len(Append(s, e)) = Len(s) + 1
        /\ \A i \in 1 .. Len(s) : Append(s, e)[i] = s[i]
        /\ Append(s, e)[Len(s) + 1] = e
    BY AppendProperties
  <1> DEFINE t == Append(s, e)
  <1>2. DOMAIN t = 1 .. Len(s) + 1 /\ DOMAIN s = 1 .. Len(s) /\ Len(s) \in Nat
    BY <1>1, LenProperties
  <1> HIDE DEF t
  <1>3. \A i \in 1 .. Len(s) : t[i] = s[i] /\ t[i].key # e.key
    BY <1>1, <1>2 DEF Keys, t
  <1>4. t[Len(s) + 1] = e
    BY <1>1 DEF t
  <1>5. ASSUME NEW i \in DOMAIN t, NEW j \in DOMAIN t, t[i].key = t[j].key PROVE i = j
    <2>1. (i \in 1 .. Len(s) \/ i = Len(s) + 1) /\ (j \in 1 .. Len(s) \/ j = Len(s) + 1)
      BY <1>2
    <2>2. CASE i \in 1 .. Len(s) /\ j \in 1 .. Len(s)
      BY <1>2, <1>3, <1>5, <2>2 DEF Distinct
    <2> QED
      BY <1>3, <1>4, <1>5, <2>1, <2>2
  <1> QED
    BY <1>5 DEF Distinct, t

\* Nor by one that takes the place of the one of its key.
LEMMA PlacedIsDistinct ==
  ASSUME NEW E, NEW s \in Seq(E), Distinct(s), NEW e \in E
  PROVE  Distinct(Placed(s, e)) /\ Len(Placed(s, e)) <= Len(s) + 1 /\ Len(Placed(s, e)) \in Nat
  <1>0. DOMAIN s = 1 .. Len(s) /\ Len(s) \in Nat
    BY LenProperties
  <1>1. CASE e.key \notin Keys(s)
    <2>1. Placed(s, e) = Append(s, e)
      BY <1>1 DEF Placed
    <2>2. Distinct(Append(s, e))
      BY <1>1, AppendIsDistinct
    <2>3. Len(Append(s, e)) = Len(s) + 1
      BY AppendProperties
    <2> QED
      BY <1>0, <2>1, <2>2, <2>3
  <1>2. CASE e.key \in Keys(s)
    <2> DEFINE t == [k \in DOMAIN s |-> IF s[k].key = e.key THEN e ELSE s[k]]
    <2>1. Placed(s, e) = t
      BY <1>2 DEF Placed
    <2>2. t \in Seq(E) /\ Len(t) = Len(s) /\ DOMAIN t = DOMAIN s
      BY <1>0, ElementOfSeq
    <2>3. \A k \in DOMAIN s : t[k].key = s[k].key
      OBVIOUS
    <2> HIDE DEF t
    <2>4. Distinct(t)
      BY <2>2, <2>3 DEF Distinct
    <2> QED
      BY <1>0, <2>1, <2>2, <2>4
  <1> QED
    BY <1>1, <1>2

-----------------------------------------------------------------------------
(***************************************************************************)
(* The inductive invariant of the caches: each bound is kept because the   *)
(* bytes that are counted are never fewer than those that are there, and   *)
(* an image is disposed of once because it has one place: ImagesInv.       *)
(***************************************************************************)
CacheEntry == [key : Payloads, size : Nat]
SkinEntry  == [key : Paths, size : Nat, image : Nat]

CachesTypeOK ==
  /\ cache \in Seq(CacheEntry) /\ cacheBytes \in Int /\ doubled \in Nat
  /\ decoding \in [Viewers -> Payloads \cup {None}]
  /\ skins \in Seq(SkinEntry) /\ skinBytes \in Int
  /\ todo \in [Preloads -> Seq(Paths)]
  /\ images \in Nat /\ disposed \subseteq 1 .. images

OnePlace(s) == \A j, k \in DOMAIN s : s[j].image = s[k].image => j = k

ImagesInv == ImagesOf(skins) \subseteq 1 .. images /\ OnePlace(skins)

DecodeInv ==
  /\ cacheBytes = Total(cache) + doubled
  /\ Distinct(cache)
  /\ Len(cache) <= MaxItems /\ (Len(cache) > 1 => Total(cache) <= MaxBytes)

SkinInv ==
  /\ skinBytes = Total(skins)
  /\ Distinct(skins)
  /\ Len(skins) <= MaxSkins /\ (Len(skins) > 1 => Total(skins) <= MaxSkinBytes)

CachesIInv == CachesTypeOK /\ DecodeInv /\ SkinInv /\ ImagesInv /\ ImagesAccounted

\* What the loop compares: the bytes counted, the bounds, the size to come.
Bounds(counted, items, limit, incoming) ==
  counted \in Int /\ items \in Nat \ {0} /\ limit \in Nat /\ incoming \in Nat

\* What is left of a sequence once the loop has evicted from it.
LEMMA KeptFits ==
  ASSUME NEW E, Sized(E), NEW s \in Seq(E), Distinct(s),
         NEW counted, NEW items, NEW limit, NEW incoming,
         Bounds(counted, items, limit, incoming),
         NEW gone, gone = Evicted(s, counted, items, limit, incoming),
         NEW out, out = SubSeq(s, 1, gone),
         NEW kept, kept = SubSeq(s, gone + 1, Len(s))
  PROVE  /\ gone \in 0 .. Len(s)
         /\ out \in Seq(E) /\ kept \in Seq(E) /\ Distinct(kept)
         /\ Total(out) \in Nat /\ Total(kept) \in Nat
         /\ Len(kept) < items
         /\ Len(kept) > 0 => counted - Total(out) + incoming <= limit
  <1>0. /\ Len(s) \in Nat
        /\ counted \in Int /\ items \in Nat \ {0} /\ limit \in Nat /\ incoming \in Nat
    BY LenProperties DEF Bounds
  <1>1. /\ gone \in 0 .. Len(s)
        /\ gone = Len(s) \/ (Len(s) - gone < items /\ counted - Total(out) + incoming <= limit)
    <2>1. items \in Int /\ limit \in Int /\ incoming \in Int
      BY <1>0
    <2> QED
      BY <1>0, <2>1, EvictedMakesRoom
  <1>2. out \in Seq(E) /\ kept \in Seq(E) /\ Len(kept) = Len(s) - gone
    BY <1>1, Cut
  <1>3. Distinct(kept)
    BY <1>1, CutIsDistinct
  <1>5. Total(out) \in Nat /\ Total(kept) \in Nat
    BY <1>2, TotalIsSum
  <1>6. Len(kept) < items
    BY <1>0, <1>1, <1>2
  <1>7. Len(kept) > 0 => counted - Total(out) + incoming <= limit
    BY <1>0, <1>1, <1>2
  <1> QED
    BY <1>1, <1>2, <1>3, <1>5, <1>6, <1>7

LEMMA EntriesAreSized == Sized(CacheEntry) /\ Sized(SkinEntry)
  BY DEF Sized, CacheEntry, SkinEntry

\* _put keeps the cache within its bounds, and its count above what is there.
LEMMA PutStep ==
  ASSUME CachesTypeOK, DecodeInv, NEW id \in Payloads, NEW size \in Nat, Put(id, size)
  PROVE  /\ cache' \in Seq(CacheEntry) /\ cacheBytes' \in Int /\ doubled' \in Nat
         /\ DecodeInv'
  <1> DEFINE gone == Evicted(cache, cacheBytes, MaxItems, MaxBytes, size)
             out  == SubSeq(cache, 1, gone)
             kept == SubSeq(cache, gone + 1, Len(cache))
             e    == [key |-> id, size |-> size]
             over == Total(Of(kept, id))
  <1>1. /\ cache' = Placed(kept, e)
        /\ cacheBytes' = cacheBytes - Total(out) + size
        /\ doubled' = doubled + over
    BY DEF Put
  <1>2. e \in CacheEntry /\ e.key = id /\ e.size = size
    BY DEF CacheEntry
  <1>3. /\ gone \in 0 .. Len(cache)
        /\ out \in Seq(CacheEntry) /\ kept \in Seq(CacheEntry) /\ Distinct(kept)
        /\ Total(cache) = Total(out) + Total(kept)
        /\ Total(out) \in Nat /\ Total(kept) \in Nat
        /\ Len(kept) < MaxItems
        /\ Len(kept) > 0 => cacheBytes - Total(out) + size <= MaxBytes
    <2>1. /\ cache \in Seq(CacheEntry) /\ Distinct(cache)
          /\ Bounds(cacheBytes, MaxItems, MaxBytes, size)
      BY CachesAssumption DEF CachesTypeOK, DecodeInv, Bounds
    <2>2. Sized(CacheEntry)
      BY EntriesAreSized
    <2> HIDE DEF e, over
    <2>3. /\ gone = Evicted(cache, cacheBytes, MaxItems, MaxBytes, size)
          /\ out = SubSeq(cache, 1, gone) /\ kept = SubSeq(cache, gone + 1, Len(cache))
      OBVIOUS
    <2> HIDE DEF gone, out, kept
    <2>4. gone \in 0 .. Len(cache)
      BY <2>1, <2>2, <2>3, KeptFits
    <2>5. Total(cache) = Total(out) + Total(kept)
      <3>1. Total(cache) = Total(SubSeq(cache, 1, gone)) + Total(SubSeq(cache, gone + 1, Len(cache)))
        BY <2>1, <2>2, <2>4, TotalOfCut
      <3> QED
        BY <2>3, <3>1
    <2>6. /\ out \in Seq(CacheEntry) /\ kept \in Seq(CacheEntry) /\ Distinct(kept)
          /\ Total(out) \in Nat /\ Total(kept) \in Nat
          /\ Len(kept) < MaxItems
          /\ Len(kept) > 0 => cacheBytes - Total(out) + size <= MaxBytes
      BY <2>1, <2>2, <2>3, KeptFits
    <2> QED
      BY <2>4, <2>6, <2>5
  <1> HIDE DEF gone, out, kept, e
  <1>4. /\ Placed(kept, e) \in Seq(CacheEntry)
        /\ Total(Placed(kept, e)) = Total(kept) - over + size
    BY <1>2, <1>3, TotalOfPlaced, EntriesAreSized
  <1>5. Distinct(Placed(kept, e)) /\ Len(Placed(kept, e)) <= Len(kept) + 1
        /\ Len(Placed(kept, e)) \in Nat
    BY <1>2, <1>3, PlacedIsDistinct
  <1>6. over \in Nat /\ Total(kept) >= over
    BY <1>3, TotalOfParts, EntriesAreSized
  <1>7. Len(kept) \in Nat /\ MaxItems \in Nat /\ MaxBytes \in Nat
    BY <1>3, LenProperties, CachesAssumption
  <1>8. cacheBytes \in Int /\ doubled \in Nat /\ cacheBytes = Total(cache) + doubled
    BY DEF CachesTypeOK, DecodeInv
  <1> HIDE DEF over
  <1>9. cacheBytes' \in Int /\ doubled' \in Nat
    BY <1>1, <1>3, <1>6, <1>8
  <1> DEFINE a == Total(out)
             b == Total(kept)
  <1>10. /\ a \in Nat /\ b \in Nat /\ over \in Nat /\ b >= over
        /\ cacheBytes' = cacheBytes - a + size /\ doubled' = doubled + over
        /\ cacheBytes = (a + b) + doubled
        /\ Total(cache') = b - over + size
    BY <1>1, <1>3, <1>4, <1>6, <1>8
  <1> HIDE DEF a, b
  <1>11. cacheBytes' = Total(cache') + doubled'
    BY <1>10, <1>8
  <1>12. Len(cache') <= MaxItems
    BY <1>1, <1>3, <1>5, <1>7
  <1>13. Len(cache') > 1 => Total(cache') <= MaxBytes
    <2>1. Len(cache') > 1 => Len(kept) > 0
      BY <1>1, <1>5, <1>7
    <2>2. Total(cache') <= cacheBytes - Total(out) + size
          /\ Total(cache') \in Int /\ cacheBytes - Total(out) + size \in Int
      <3>1. Total(cache') \in Int /\ cacheBytes - a + size \in Int
        BY <1>8, <1>10
      <3>2. Total(cache') <= cacheBytes - a + size
        BY <1>8, <1>10
      <3> QED
        BY <3>1, <3>2 DEF a
    <2> QED
      BY <1>3, <1>7, <2>1, <2>2
  <1>14. cache' \in Seq(CacheEntry) /\ Distinct(cache')
    BY <1>1, <1>4, <1>5
  <1> QED
    BY <1>9, <1>11, <1>12, <1>13, <1>14 DEF DecodeInv

\* _promote changes the order of the entries, and nothing else.
LEMMA PromoteStep ==
  ASSUME CachesTypeOK, DecodeInv, NEW id \in Payloads, Promote(id)
  PROVE  /\ cache' \in Seq(CacheEntry) /\ cacheBytes' \in Int /\ doubled' \in Nat
         /\ DecodeInv'
  <1> DEFINE rest == Without(cache, id)
             e == cache[Place(cache, id)]
  <1>1. /\ cache \in Seq(CacheEntry) /\ Distinct(cache) /\ id \in Keys(cache)
        /\ cache' = rest \o Of(cache, id)
        /\ cacheBytes' = cacheBytes /\ doubled' = doubled
        /\ cacheBytes \in Int /\ doubled \in Nat
    BY DEF Promote, CachesTypeOK, DecodeInv
  <1>2. Of(cache, id) = <<e>> /\ e.key = id /\ e \in CacheEntry
    <2>1. Place(cache, id) \in 1 .. Len(cache) /\ e.key = id /\ Of(cache, id) = <<e>>
      BY <1>1, PlaceOfKey
    <2> QED
      BY <1>1, <2>1, ElementOfSeq
  <1>3. rest \in Seq(CacheEntry) /\ Distinct(rest) /\ id \notin Keys(rest)
        /\ Len(rest) = Len(cache) - 1
    BY <1>1, WithoutIsDistinct, WithoutElements
  <1>4. Total(cache) = Total(rest) + Total(Of(cache, id)) /\ Of(cache, id) \in Seq(CacheEntry)
    BY <1>1, TotalOfParts, EntriesAreSized
  <1>5. Total(cache') = Total(cache) /\ cache' \in Seq(CacheEntry)
    <2>1. Total(rest \o Of(cache, id)) = Total(rest) + Total(Of(cache, id))
      BY <1>3, <1>4, TotalOfBoth, EntriesAreSized
    <2>2. rest \o Of(cache, id) \in Seq(CacheEntry)
      BY <1>3, <1>4, ConcatProperties
    <2> QED
      BY <1>1, <1>4, <2>1, <2>2
  <1>6. cache' = Append(rest, e)
    <2> HIDE DEF rest, e
    <2>1. Append(rest, e) = rest \o <<e>>
      BY <1>2, <1>3, AppendIsConcat
    <2> QED
      BY <1>1, <1>2, <2>1
  <1> HIDE DEF rest, e
  <1>7. Distinct(cache')
    BY <1>2, <1>3, <1>6, AppendIsDistinct
  <1>8. Len(cache') = Len(cache)
    <2>1. Len(Append(rest, e)) = Len(rest) + 1
      BY <1>2, <1>3, AppendProperties
    <2>2. Len(cache) \in Nat
      BY <1>1, LenProperties
    <2> QED
      BY <1>3, <1>6, <2>1, <2>2
  <1> QED
    BY <1>1, <1>5, <1>7, <1>8 DEF DecodeInv

\* Either part of a sequence has its images; they are apart when none has two
\* places in the whole.
LEMMA ImagesOfBoth ==
  ASSUME NEW E, NEW s \in Seq(E), NEW t \in Seq(E)
  PROVE  /\ ImagesOf(s \o t) = ImagesOf(s) \cup ImagesOf(t)
         /\ OnePlace(s \o t) <=> OnePlace(s) /\ OnePlace(t) /\ ImagesOf(s) \cap ImagesOf(t) = {}
  <1> DEFINE u == s \o t
  <1>1. /\ DOMAIN s = 1 .. Len(s) /\ DOMAIN t = 1 .. Len(t)
        /\ DOMAIN u = 1 .. Len(s) + Len(t) /\ Len(s) \in Nat /\ Len(t) \in Nat
        /\ \A k \in 1 .. Len(s) : u[k] = s[k]
        /\ \A k \in 1 .. Len(t) : u[Len(s) + k] = t[k]
    OBVIOUS
  <1> HIDE DEF u
  <1>2. \A k \in DOMAIN u : (k \in DOMAIN s /\ u[k] = s[k])
                              \/ (k - Len(s) \in DOMAIN t /\ u[k] = t[k - Len(s)])
    <2> SUFFICES ASSUME NEW k \in DOMAIN u, k \notin DOMAIN s
                 PROVE  k - Len(s) \in DOMAIN t /\ u[k] = t[k - Len(s)]
      BY <1>1
    <2>1. k - Len(s) \in 1 .. Len(t) /\ Len(s) + (k - Len(s)) = k
      BY <1>1
    <2> QED
      BY <1>1, <2>1
  <1>3. \A k \in DOMAIN s : k \in DOMAIN u /\ u[k] = s[k]
    BY <1>1
  <1>4. \A k \in DOMAIN t : Len(s) + k \in DOMAIN u /\ u[Len(s) + k] = t[k]
                              /\ Len(s) + k \notin DOMAIN s
    BY <1>1
  <1>5. ImagesOf(u) = ImagesOf(s) \cup ImagesOf(t)
    BY <1>2, <1>3, <1>4 DEF ImagesOf
  <1>6. ASSUME OnePlace(u)
        PROVE  OnePlace(s) /\ OnePlace(t) /\ ImagesOf(s) \cap ImagesOf(t) = {}
    <2>1. OnePlace(s)
      BY <1>3, <1>6 DEF OnePlace
    <2>2. ASSUME NEW j \in DOMAIN t, NEW k \in DOMAIN t, t[j].image = t[k].image PROVE j = k
      <3>1. Len(s) + j = Len(s) + k
        BY <1>4, <1>6, <2>2 DEF OnePlace
      <3> QED
        BY <1>1, <3>1
    <2>3. ASSUME NEW j \in DOMAIN s, NEW k \in DOMAIN t PROVE s[j].image # t[k].image
      BY <1>3, <1>4, <1>6 DEF OnePlace
    <2> QED
      BY <2>1, <2>2, <2>3 DEF OnePlace, ImagesOf
  <1>7. ASSUME OnePlace(s), OnePlace(t), ImagesOf(s) \cap ImagesOf(t) = {},
               NEW j \in DOMAIN u, NEW k \in DOMAIN u, u[j].image = u[k].image
        PROVE  j = k
    <2>1. \A x \in DOMAIN s, y \in DOMAIN t : s[x].image # t[y].image
      BY <1>7 DEF ImagesOf
    <2>2. j \in Int /\ k \in Int /\ Len(s) \in Int
      BY <1>1
    <2>3. CASE j \in DOMAIN s /\ u[j] = s[j]
      BY <1>2, <1>7, <2>1, <2>3 DEF OnePlace
    <2>4. CASE j - Len(s) \in DOMAIN t /\ u[j] = t[j - Len(s)]
      <3>1. k - Len(s) \in DOMAIN t /\ u[k] = t[k - Len(s)]
        BY <1>2, <1>7, <2>1, <2>4
      <3>2. j - Len(s) = k - Len(s)
        BY <1>7, <2>4, <3>1 DEF OnePlace
      <3> QED
        BY <2>2, <3>2
    <2> QED
      BY <1>2, <2>3, <2>4
  <1>8. OnePlace(s) /\ OnePlace(t) /\ ImagesOf(s) \cap ImagesOf(t) = {} => OnePlace(u)
    BY <1>7 DEF OnePlace
  <1> QED
    BY <1>5, <1>6, <1>8 DEF u

\* An entry alone has its image, and none has none.
LEMMA ImagesOfOne ==
  ASSUME NEW e
  PROVE  /\ ImagesOf(<<e>>) = {e.image} /\ OnePlace(<<e>>)
         /\ ImagesOf(<< >>) = {} /\ OnePlace(<< >>) /\ Distinct(<< >>)
  BY DEF ImagesOf, OnePlace, Distinct

\* The image of a key, and those of the others.
LEMMA ImagesOfParts ==
  ASSUME NEW E, NEW s \in Seq(E), OnePlace(s), NEW key
  PROVE  /\ ImagesOf(s) = ImagesOf(Without(s, key)) \cup ImagesOf(Of(s, key))
         /\ ImagesOf(Without(s, key)) \cap ImagesOf(Of(s, key)) = {}
         /\ OnePlace(Without(s, key))
  <1>1. CASE key \notin Keys(s)
    <2>1. Of(s, key) = << >> /\ Without(s, key) = s
      BY <1>1 DEF Of, Without
    <2> QED
      BY <2>1, ImagesOfOne
  <1>2. CASE key \in Keys(s)
    <2> DEFINE p == Place(s, key)
               a == SubSeq(s, 1, p - 1)
               b == SubSeq(s, p + 1, Len(s))
               e == s[p]
    <2>1. p \in 1 .. Len(s) /\ Of(s, key) = <<e>> /\ Without(s, key) = a \o b
      BY <1>2, PlaceOfKey
    <2> HIDE DEF p
    <2>2. a \in Seq(E) /\ b \in Seq(E) /\ e \in E /\ s = (a \o <<e>>) \o b
      BY <2>1, Around
    <2> HIDE DEF a, b, e
    <2> DEFINE o == <<e>>
               c == a \o o
    <2>3. o \in Seq(E) /\ c \in Seq(E) /\ s = c \o b
      BY <2>2
    <2> HIDE DEF o, c
    <2>4. ImagesOf(c \o b) = ImagesOf(c) \cup ImagesOf(b)
          /\ (OnePlace(c \o b) <=> OnePlace(c) /\ OnePlace(b) /\ ImagesOf(c) \cap ImagesOf(b) = {})
      BY <2>2, <2>3, ImagesOfBoth
    <2>5. ImagesOf(a \o o) = ImagesOf(a) \cup ImagesOf(o)
          /\ (OnePlace(a \o o) <=> OnePlace(a) /\ OnePlace(o) /\ ImagesOf(a) \cap ImagesOf(o) = {})
      BY <2>2, <2>3, ImagesOfBoth
    <2>6. ImagesOf(a \o b) = ImagesOf(a) \cup ImagesOf(b)
          /\ (OnePlace(a \o b) <=> OnePlace(a) /\ OnePlace(b) /\ ImagesOf(a) \cap ImagesOf(b) = {})
      BY <2>2, ImagesOfBoth
    <2>7. c = a \o o /\ OnePlace(c \o b) /\ ImagesOf(s) = ImagesOf(c \o b)
      BY <2>3 DEF c
    <2>8. /\ ImagesOf(s) = ImagesOf(a \o b) \cup ImagesOf(o)
          /\ ImagesOf(a \o b) \cap ImagesOf(o) = {} /\ OnePlace(a \o b)
      BY <2>4, <2>5, <2>6, <2>7
    <2> QED
      BY <2>1, <2>8 DEF o
  <1> QED
    BY <1>1, <1>2

\* The images of the entries that go, and of those that stay.
LEMMA ImagesOfCut ==
  ASSUME NEW E, NEW s \in Seq(E), OnePlace(s), NEW k \in 0 .. Len(s)
  PROVE  /\ ImagesOf(s) = ImagesOf(SubSeq(s, 1, k)) \cup ImagesOf(SubSeq(s, k + 1, Len(s)))
         /\ ImagesOf(SubSeq(s, 1, k)) \cap ImagesOf(SubSeq(s, k + 1, Len(s))) = {}
         /\ OnePlace(SubSeq(s, k + 1, Len(s)))
  <1> DEFINE a == SubSeq(s, 1, k)
             b == SubSeq(s, k + 1, Len(s))
  <1>1. a \in Seq(E) /\ b \in Seq(E) /\ s = a \o b
    BY Cut
  <1> HIDE DEF a, b
  <1>2. /\ ImagesOf(a \o b) = ImagesOf(a) \cup ImagesOf(b)
        /\ OnePlace(a \o b) <=> OnePlace(a) /\ OnePlace(b) /\ ImagesOf(a) \cap ImagesOf(b) = {}
    BY <1>1, ImagesOfBoth
  <1> QED
    BY <1>1, <1>2 DEF a, b

\* A sequence that is cut has no other keys.
LEMMA KeysOfCut ==
  ASSUME NEW E, NEW s \in Seq(E), NEW k \in 0 .. Len(s)
  PROVE  Keys(SubSeq(s, k + 1, Len(s))) \subseteq Keys(s)
  <1> DEFINE b == SubSeq(s, k + 1, Len(s))
  <1>1. /\ b \in Seq(E) /\ Len(b) = Len(s) - k
        /\ \A j \in 1 .. Len(s) - k : b[j] = s[k + j]
    BY Cut
  <1> HIDE DEF b
  <1>2. DOMAIN b = 1 .. Len(s) - k /\ DOMAIN s = 1 .. Len(s) /\ Len(s) \in Nat /\ k \in Nat
    BY <1>1, LenProperties
  <1>3. ASSUME NEW j \in DOMAIN b PROVE k + j \in DOMAIN s /\ b[j] = s[k + j]
    BY <1>1, <1>2
  <1> QED
    BY <1>3 DEF Keys, b

\* An empty cache holds nothing.
LEMMA NothingInEmpty ==
  ASSUME NEW s, s = << >>
  PROVE  Total(s) = 0 /\ Len(s) = 0 /\ ImagesOf(s) = {} /\ Distinct(s) /\ OnePlace(s)
  <1> DEFINE x == [size |-> 0]
             E == {x}
  <1>1. x \in E /\ Sized(E)
    BY DEF Sized
  <1> HIDE DEF E, x
  <1>2. Total(<< >>) = 0
    BY <1>1, TotalOfOne
  <1> QED
    BY <1>2, ImagesOfOne

\* _putSkinImage keeps the bounds and the count, and gives up every image it
\* drops but the one whose path the new one has.
LEMMA PutSkinStep ==
  ASSUME CachesTypeOK, SkinInv, ImagesInv, ImagesAccounted,
         NEW path \in Paths, NEW size \in Nat,
         PutSkin(path, size, images + 1), images' = images + 1
  PROVE  /\ skins' \in Seq(SkinEntry) /\ skinBytes' \in Int
         /\ images' \in Nat /\ disposed' \subseteq 1 .. images'
         /\ SkinInv' /\ ImagesInv' /\ ImagesAccounted'
  <1> DEFINE others == Without(skins, path)
             mine    == Of(skins, path)
             counted == skinBytes - Total(mine)
             gone == Evicted(others, counted, MaxSkins, MaxSkinBytes, size)
             out  == SubSeq(others, 1, gone)
             kept == SubSeq(others, gone + 1, Len(others))
             e    == [key |-> path, size |-> size, image |-> images + 1]
  <1>1. /\ skins' = Append(kept, e)
        /\ skinBytes' = counted - Total(out) + size
        /\ disposed' = disposed \cup ImagesOf(out)
        /\ replaced' = replaced \cup ImagesOf(mine)
    BY DEF PutSkin
  <1>2. /\ kept \in Seq(SkinEntry) /\ Distinct(kept) /\ path \notin Keys(kept)
        /\ Len(kept) < MaxSkins /\ Total(kept) \in Nat /\ OnePlace(kept)
        /\ counted - Total(out) = Total(kept)
        /\ Len(kept) > 0 => Total(kept) + size <= MaxSkinBytes
        /\ ImagesOf(skins) = ImagesOf(kept) \cup ImagesOf(out) \cup ImagesOf(mine)
        /\ ImagesOf(kept) \cap ImagesOf(out) = {}
        /\ ImagesOf(mine) \cap (ImagesOf(kept) \cup ImagesOf(out)) = {}
    <2>0. /\ others = Without(skins, path) /\ mine = Of(skins, path)
          /\ counted = skinBytes - Total(Of(skins, path))
          /\ gone = Evicted(others, counted, MaxSkins, MaxSkinBytes, size)
          /\ out = SubSeq(others, 1, gone)
          /\ kept = SubSeq(others, gone + 1, Len(others))
      OBVIOUS
    <2> HIDE DEF others, mine, counted, gone, out, kept, e
    <2>1. /\ skins \in Seq(SkinEntry) /\ Distinct(skins) /\ OnePlace(skins)
          /\ skinBytes = Total(skins) /\ Sized(SkinEntry)
      BY <2>0, EntriesAreSized DEF CachesTypeOK, SkinInv, ImagesInv
    <2>2. /\ others \in Seq(SkinEntry) /\ Total(others) \in Nat
          /\ Total(mine) \in Nat
          /\ Total(skins) = Total(others) + Total(mine)
      BY <2>0, <2>1, TotalOfParts
    <2>3. Distinct(others) /\ path \notin Keys(others)
      BY <2>0, <2>1, WithoutIsDistinct
    <2>4. counted = Total(others) /\ counted \in Int
      BY <2>0, <2>1, <2>2
    <2>5. Bounds(counted, MaxSkins, MaxSkinBytes, size)
      BY <2>4, CachesAssumption DEF Bounds
    <2>6. gone \in 0 .. Len(others)
      BY <2>0, <2>1, <2>2, <2>3, <2>5, KeptFits
    <2>7. /\ out \in Seq(SkinEntry) /\ kept \in Seq(SkinEntry) /\ Distinct(kept)
      BY <2>0, <2>1, <2>2, <2>3, <2>5, KeptFits
    <2>8. Total(out) \in Nat /\ Total(kept) \in Nat
      BY <2>1, <2>7, TotalIsSum
    <2>9. Len(kept) < MaxSkins
      BY <2>0, <2>1, <2>2, <2>3, <2>5, KeptFits
    <2>10. Len(kept) > 0 => counted - Total(out) + size <= MaxSkinBytes
      BY <2>0, <2>1, <2>2, <2>3, <2>5, KeptFits
    <2>11. Total(others) = Total(out) + Total(kept)
      BY <2>0, <2>1, <2>2, <2>6, TotalOfCut
    <2>12. counted - Total(out) = Total(kept)
      BY <2>4, <2>8, <2>11
    <2>13. path \notin Keys(kept)
      <3>1. Keys(kept) \subseteq Keys(others)
        BY <2>0, <2>2, <2>6, KeysOfCut
      <3> QED
        BY <2>3, <3>1
    <2>14. /\ ImagesOf(skins) = ImagesOf(others) \cup ImagesOf(mine)
           /\ ImagesOf(others) \cap ImagesOf(mine) = {}
           /\ OnePlace(others)
      BY <2>0, <2>1, ImagesOfParts
    <2>15. /\ ImagesOf(others) = ImagesOf(out) \cup ImagesOf(kept)
           /\ ImagesOf(out) \cap ImagesOf(kept) = {}
           /\ OnePlace(kept)
      BY <2>0, <2>2, <2>6, <2>14, ImagesOfCut
    <2>16. Len(kept) > 0 => Total(kept) + size <= MaxSkinBytes
      BY <2>10, <2>12
    <2> QED
      BY <2>7, <2>12, <2>13, <2>14, <2>15, <2>16, <2>8, <2>9
  <1>3. /\ images \in Nat /\ disposed \subseteq 1 .. images
        /\ ImagesOf(skins) \subseteq 1 .. images
        /\ MaxSkins \in Nat /\ MaxSkinBytes \in Nat
    BY CachesAssumption DEF CachesTypeOK, ImagesInv
  <1>4. e \in SkinEntry /\ e.key = path /\ e.size = size /\ e.image = images + 1
    BY <1>3 DEF SkinEntry
  <1> HIDE DEF others, mine, counted, gone, out, kept, e
  <1> DEFINE one == <<e>>
  <1>5. /\ skins' \in Seq(SkinEntry) /\ one \in Seq(SkinEntry) /\ skins' = kept \o one
        /\ Len(skins') = Len(kept) + 1 /\ Len(kept) \in Nat
    BY <1>1, <1>2, <1>4, AppendProperties, AppendIsConcat, LenProperties
  <1>6. Distinct(skins')
    BY <1>1, <1>2, <1>4, AppendIsDistinct
  <1>7. Total(one) = size
    BY <1>4, EntriesAreSized, TotalOfOne
  <1>8. ImagesOf(one) = {images + 1} /\ OnePlace(one)
    BY <1>4, ImagesOfOne
  <1> HIDE DEF one
  <1>9. Total(skins') = Total(kept) + size
    <2>1. Total(kept \o one) = Total(kept) + Total(one)
      BY <1>2, <1>5, EntriesAreSized, TotalOfBoth
    <2> QED
      BY <1>5, <1>7, <2>1
  <1>10. /\ ImagesOf(skins') = ImagesOf(kept) \cup {images + 1}
         /\ OnePlace(skins')
    <2>1. /\ ImagesOf(kept \o one) = ImagesOf(kept) \cup ImagesOf(one)
          /\ OnePlace(kept \o one)
               <=> OnePlace(kept) /\ OnePlace(one) /\ ImagesOf(kept) \cap ImagesOf(one) = {}
      BY <1>2, <1>5, ImagesOfBoth
    <2>2. images + 1 \notin ImagesOf(kept)
      BY <1>2, <1>3
    <2> QED
      BY <1>2, <1>5, <1>8, <2>1, <2>2
  <1>11. skinBytes' = Total(skins') /\ skinBytes' \in Int
    BY <1>1, <1>2, <1>9
  <1>12. Len(skins') <= MaxSkins /\ (Len(skins') > 1 => Total(skins') <= MaxSkinBytes)
    <2>1. Len(skins') > 1 => Len(kept) > 0
      BY <1>5
    <2>2. Len(skins') <= MaxSkins
      BY <1>2, <1>3, <1>5
    <2> QED
      BY <1>2, <1>9, <2>1, <2>2
  <1>13. \A i \in 1 .. images : i \in 1 .. images + 1 /\ i # images + 1
    BY <1>3
  <1>14. 1 .. images + 1 = (1 .. images) \cup {images + 1}
    BY <1>3
  <1>15. images' \in Nat /\ disposed' \subseteq 1 .. images' /\ ImagesOf(skins') \subseteq 1 .. images'
    <2>1. images' \in Nat /\ 1 .. images' = 1 .. images + 1
      BY <1>3
    <2>2. disposed' \subseteq 1 .. images + 1 /\ ImagesOf(skins') \subseteq 1 .. images + 1
      BY <1>1, <1>2, <1>3, <1>10, <1>14
    <2> QED
      BY <2>1, <2>2
  <1>16. ImagesOf(skins) \cap disposed = {}
         /\ (1 .. images) \ (disposed \cup ImagesOf(skins)) = replaced
    BY DEF ImagesAccounted
  <1>17. ImagesOf(skins') \cap disposed' = {}
    BY <1>1, <1>2, <1>3, <1>10, <1>13, <1>16
  <1>18. (1 .. images + 1) \ (disposed' \cup ImagesOf(skins')) = replaced'
    BY <1>1, <1>2, <1>3, <1>10, <1>13, <1>14, <1>16
  <1>19. SkinInv'
    BY <1>6, <1>11, <1>12 DEF SkinInv
  <1>20. ImagesInv'
    BY <1>10, <1>15 DEF ImagesInv
  <1>21. ImagesAccounted'
    BY <1>17, <1>18 DEF ImagesAccounted
  <1> QED
    BY <1>5, <1>11, <1>15, <1>19, <1>20, <1>21

\* disposeSkins disposes of every image that can be looked up.
LEMMA DisposeStep ==
  ASSUME CachesTypeOK, ImagesInv, ImagesAccounted, DisposeSkins,
         UNCHANGED <<images, replaced>>
  PROVE  /\ skins' \in Seq(SkinEntry) /\ skinBytes' \in Int
         /\ images' \in Nat /\ disposed' \subseteq 1 .. images'
         /\ SkinInv' /\ ImagesInv' /\ ImagesAccounted'
  <1>1. /\ skins' = << >> /\ skinBytes' = 0 /\ images' = images /\ replaced' = replaced
        /\ disposed' = disposed \cup ImagesOf(skins)
    BY DEF DisposeSkins
  <1>2. /\ images \in Nat /\ disposed \subseteq 1 .. images
        /\ ImagesOf(skins) \subseteq 1 .. images
        /\ (1 .. images) \ (disposed \cup ImagesOf(skins)) = replaced
        /\ MaxSkins \in Nat
    BY CachesAssumption DEF CachesTypeOK, ImagesInv, ImagesAccounted
  <1>3. Total(skins') = 0
    BY <1>1, NothingInEmpty
  <1>4. ImagesOf(skins') = {} /\ OnePlace(skins') /\ Distinct(skins')
    BY <1>1, NothingInEmpty
  <1>5. Len(skins') = 0 /\ skins' \in Seq(SkinEntry)
    BY <1>1
  <1>6. SkinInv'
    BY <1>1, <1>2, <1>3, <1>4, <1>5 DEF SkinInv
  <1>7. ImagesInv'
    BY <1>4 DEF ImagesInv
  <1>8. ImagesAccounted'
    BY <1>1, <1>2, <1>4 DEF ImagesAccounted
  <1>9. images' \in Nat /\ disposed' \subseteq 1 .. images' /\ skinBytes' \in Int
    <2>1. 1 .. images' = 1 .. images
      BY <1>1
    <2>2. disposed' \subseteq 1 .. images
      BY <1>1, <1>2
    <2>3. images' \in Nat /\ skinBytes' \in Int
      BY <1>1, <1>2
    <2> QED
      BY <2>1, <2>2, <2>3
  <1> QED
    BY <1>5, <1>6, <1>7, <1>8, <1>9

LEMMA CachesInitIInv == CachesInit => CachesIInv
  <1> SUFFICES ASSUME CachesInit PROVE CachesIInv
    OBVIOUS
  <1>1. /\ cache = << >> /\ cacheBytes = 0 /\ doubled = 0
        /\ decoding = [v \in Viewers |-> None]
        /\ skins = << >> /\ skinBytes = 0
        /\ todo = [l \in Preloads |-> << >>]
        /\ images = 0 /\ disposed = {} /\ replaced = {}
    BY DEF CachesInit
  <1>2. CachesTypeOK
    <2>1. decoding \in [Viewers -> Payloads \cup {None}]
      BY <1>1
    <2>2. todo \in [Preloads -> Seq(Paths)]
      BY <1>1
    <2> QED
      BY <1>1, <2>1, <2>2 DEF CachesTypeOK
  <1>3. MaxItems \in Nat /\ MaxSkins \in Nat
    BY CachesAssumption
  <1>4. Total(cache) = 0 /\ Len(cache) = 0 /\ Distinct(cache)
    BY <1>1, NothingInEmpty
  <1>5. /\ Total(skins) = 0 /\ Len(skins) = 0 /\ Distinct(skins)
        /\ ImagesOf(skins) = {} /\ OnePlace(skins)
    BY <1>1, NothingInEmpty
  <1>6. DecodeInv
    BY <1>1, <1>3, <1>4 DEF DecodeInv
  <1>7. SkinInv /\ ImagesInv
    BY <1>1, <1>3, <1>5 DEF SkinInv, ImagesInv
  <1>8. ImagesAccounted
    BY <1>1, <1>5 DEF ImagesAccounted
  <1> QED
    BY <1>2, <1>6, <1>7, <1>8 DEF CachesIInv

\* What does not touch a cache keeps what holds of it.
LEMMA DecodeStays ==
  ASSUME CachesTypeOK, DecodeInv, UNCHANGED <<cache, cacheBytes, doubled>>
  PROVE  /\ cache' \in Seq(CacheEntry) /\ cacheBytes' \in Int /\ doubled' \in Nat
         /\ DecodeInv'
  BY DEF CachesTypeOK, DecodeInv

LEMMA SkinsStay ==
  ASSUME CachesTypeOK, SkinInv, ImagesInv, ImagesAccounted,
         UNCHANGED <<skins, skinBytes, images, disposed, replaced>>
  PROVE  /\ skins' \in Seq(SkinEntry) /\ skinBytes' \in Int
         /\ images' \in Nat /\ disposed' \subseteq 1 .. images'
         /\ SkinInv' /\ ImagesInv' /\ ImagesAccounted'
  BY DEF CachesTypeOK, SkinInv, ImagesInv, ImagesAccounted

\* clearCache leaves nothing to count.
LEMMA ClearStep ==
  ASSUME ClearCache
  PROVE  /\ cache' \in Seq(CacheEntry) /\ cacheBytes' \in Int /\ doubled' \in Nat
         /\ DecodeInv'
  <1>1. cache' = << >> /\ cacheBytes' = 0 /\ doubled' = 0 /\ MaxItems \in Nat
    BY CachesAssumption DEF ClearCache
  <1>2. Total(cache') = 0 /\ Distinct(cache') /\ Len(cache') = 0
    BY <1>1, NothingInEmpty
  <1> QED
    BY <1>1, <1>2 DEF DecodeInv

\* Each action deals with one cache and leaves the other alone, but for the one
\* that drops both.
LEMMA CachesStepIInv == CachesIInv /\ [CachesNext]_cachesVars => CachesIInv'
  <1> SUFFICES ASSUME CachesIInv, [CachesNext]_cachesVars PROVE CachesIInv'
    OBVIOUS
  <1> DEFINE DecodeTyped == cache' \in Seq(CacheEntry) /\ cacheBytes' \in Int /\ doubled' \in Nat
             SkinTyped   == /\ skins' \in Seq(SkinEntry) /\ skinBytes' \in Int
                            /\ images' \in Nat /\ disposed' \subseteq 1 .. images'
             Awaiting    == decoding' \in [Viewers -> Payloads \cup {None}]
             Loading     == todo' \in [Preloads -> Seq(Paths)]
             Skinned     == SkinTyped /\ SkinInv' /\ ImagesInv' /\ ImagesAccounted'
  <1>1. /\ CachesTypeOK /\ DecodeInv /\ SkinInv /\ ImagesInv /\ ImagesAccounted
        /\ decoding \in [Viewers -> Payloads \cup {None}]
        /\ todo \in [Preloads -> Seq(Paths)]
    BY DEF CachesIInv, CachesTypeOK
  <1>2. ASSUME DecodeTyped, DecodeInv', Skinned, Awaiting, Loading PROVE CachesIInv'
    BY <1>2 DEF CachesIInv, CachesTypeOK
  <1>3. FileSizes \subseteq Nat /\ ImageSizes \subseteq Nat /\ \A z \in Packages : z \in Seq(Paths)
    BY CachesAssumption
  <1> HIDE DEF DecodeTyped, Skinned, Awaiting, Loading
  <1>4. ASSUME UNCHANGED skinVars PROVE Skinned /\ Loading
    BY <1>1, <1>4, SkinsStay DEF skinVars, Skinned, Loading
  <1>5. ASSUME UNCHANGED decodeVars PROVE DecodeTyped /\ DecodeInv' /\ Awaiting
    BY <1>1, <1>5, DecodeStays DEF decodeVars, DecodeTyped, Awaiting
  <1>6. ASSUME UNCHANGED decoding PROVE Awaiting
    BY <1>1, <1>6 DEF Awaiting
  <1>7. ASSUME NEW id \in Payloads, Promote(id) PROVE CachesIInv'
    <2>1. DecodeTyped /\ DecodeInv'
      BY <1>1, <1>7, PromoteStep DEF DecodeTyped
    <2> QED
      BY <1>2, <1>4, <1>6, <1>7, <2>1 DEF Promote
  <1>8. ASSUME NEW id \in Payloads, PutNoAsset(id) PROVE CachesIInv'
    <2>1. PICK size \in FileSizes : Put(id, size)
      BY <1>8 DEF PutNoAsset
    <2>2. DecodeTyped /\ DecodeInv'
      BY <1>1, <1>3, <2>1, PutStep DEF DecodeTyped
    <2> QED
      BY <1>2, <1>4, <1>6, <1>8, <2>2 DEF PutNoAsset
  <1>9. ASSUME NEW v \in Viewers, NEW id \in Payloads, BeginDecode(v, id) PROVE CachesIInv'
    <2>1. DecodeTyped /\ DecodeInv'
      BY <1>1, <1>9, DecodeStays DEF BeginDecode, DecodeTyped
    <2>2. Awaiting
      BY <1>1, <1>9 DEF BeginDecode, Awaiting
    <2> QED
      BY <1>2, <1>4, <1>9, <2>1, <2>2 DEF BeginDecode
  <1>10. ASSUME NEW v \in Viewers, FinishDecode(v) PROVE CachesIInv'
    <2>1. PICK size \in FileSizes : Put(decoding[v], size)
      BY <1>10 DEF FinishDecode
    <2>2. decoding[v] \in Payloads
      BY <1>1, <1>10 DEF FinishDecode
    <2>3. DecodeTyped /\ DecodeInv'
      BY <1>1, <1>3, <2>1, <2>2, PutStep DEF DecodeTyped
    <2>4. Awaiting
      BY <1>1, <1>10 DEF FinishDecode, Awaiting
    <2> QED
      BY <1>2, <1>4, <1>10, <2>3, <2>4 DEF FinishDecode
  <1>11. ASSUME NEW v \in Viewers, DecodeFails(v) PROVE CachesIInv'
    <2>1. DecodeTyped /\ DecodeInv'
      BY <1>1, <1>11, DecodeStays DEF DecodeFails, DecodeTyped
    <2>2. Awaiting
      BY <1>1, <1>11 DEF DecodeFails, Awaiting
    <2> QED
      BY <1>2, <1>4, <1>11, <2>1, <2>2 DEF DecodeFails
  <1>12. ASSUME NEW l \in Preloads, BeginPreload(l) PROVE CachesIInv'
    <2>1. Skinned
      BY <1>1, <1>12, DisposeStep DEF BeginPreload, Skinned
    <2>2. Loading
      BY <1>1, <1>3, <1>12 DEF BeginPreload, Loading
    <2> QED
      BY <1>2, <1>5, <1>12, <2>1, <2>2 DEF BeginPreload
  <1>13. ASSUME NEW l \in Preloads, todo[l] # << >>
         PROVE  Head(todo[l]) \in Paths /\ Tail(todo[l]) \in Seq(Paths)
    <2>1. todo[l] \in Seq(Paths)
      BY <1>1
    <2> QED
      BY <1>13, <2>1
  <1>14. ASSUME NEW l \in Preloads, LoadSkin(l) PROVE CachesIInv'
    <2>1. PICK size \in ImageSizes : PutSkin(Head(todo[l]), size, images + 1)
      BY <1>14 DEF LoadSkin
    <2>2. Head(todo[l]) \in Paths /\ Tail(todo[l]) \in Seq(Paths) /\ size \in Nat
      BY <1>3, <1>13, <1>14 DEF LoadSkin
    <2>3. Skinned
      <3>1. images' = images + 1
        BY <1>14 DEF LoadSkin
      <3> QED
        BY <1>1, <2>1, <2>2, <3>1, PutSkinStep DEF Skinned
    <2>4. Loading
      <3>1. todo' = [todo EXCEPT ![l] = Tail(todo[l])]
        BY <1>14 DEF LoadSkin
      <3> QED
        BY <1>1, <2>2, <3>1 DEF Loading
    <2> QED
      BY <1>2, <1>5, <1>14, <2>3, <2>4 DEF LoadSkin
  <1>15. ASSUME NEW l \in Preloads, SkipSkin(l) PROVE CachesIInv'
    <2>1. Skinned
      BY <1>1, <1>15, SkinsStay DEF SkipSkin, Skinned
    <2>2. Loading
      <3>1. todo' = [todo EXCEPT ![l] = Tail(todo[l])] /\ Tail(todo[l]) \in Seq(Paths)
        BY <1>13, <1>15 DEF SkipSkin
      <3> QED
        BY <1>1, <3>1 DEF Loading
    <2> QED
      BY <1>2, <1>5, <1>15, <2>1, <2>2 DEF SkipSkin
  <1>16. ASSUME DropCaches PROVE CachesIInv'
    <2>1. DecodeTyped /\ DecodeInv'
      BY <1>16, ClearStep DEF DropCaches, DecodeTyped
    <2>2. Skinned
      BY <1>1, <1>16, DisposeStep DEF DropCaches, Skinned
    <2>3. Loading
      BY <1>1, <1>16 DEF DropCaches, Loading
    <2> QED
      BY <1>2, <1>6, <1>16, <2>1, <2>2, <2>3 DEF DropCaches
  <1>17. CASE UNCHANGED cachesVars
    BY <1>2, <1>4, <1>5, <1>17 DEF cachesVars
  <1>18. CASE CachesNext
    BY <1>7, <1>8, <1>9, <1>10, <1>11, <1>12, <1>14, <1>15, <1>16, <1>18
       DEF CachesNext, Decode, Preload
  <1> QED
    BY <1>17, <1>18

\* Whatever is decoded, loaded, evicted or dropped, in any order: the invariant
\* of both caches holds.
THEOREM CachesInvariance == CachesSpec => []CachesIInv
  BY CachesInitIInv, CachesStepIInv, PTL DEF CachesSpec

\* The count of the decoded files drifts by exactly what a second answer has put
\* over, and that of the images not at all: payload_decode_service.dart _put and
\* package_controller.dart _putSkinImage.
THEOREM CountsDrift == CachesSpec => []DriftIsDoubled
  <1>1. CachesIInv => DriftIsDoubled
    BY DEF CachesIInv, DecodeInv, SkinInv, DriftIsDoubled
  <1> QED
    BY <1>1, CachesInvariance, PTL

\* Both caches keep their bounds for any bounds, drift or not.
THEOREM CapsAreKept == CachesSpec => []WithinCaps
  <1>1. CachesIInv => WithinCaps
    BY DEF CachesIInv, DecodeInv, SkinInv, WithinCaps
  <1> QED
    BY <1>1, CachesInvariance, PTL

\* Every image that was ever created can be looked up, or has been disposed of,
\* or another of its path has taken its place; and only one of the three.
THEOREM ImagesAreAccounted == CachesSpec => []ImagesAccounted
  <1>1. CachesIInv => ImagesAccounted
    BY DEF CachesIInv
  <1> QED
    BY <1>1, CachesInvariance, PTL
=============================================================================
