-------------------------- MODULE SystemHostProofs --------------------------
(***************************************************************************)
(* Proofs about SystemHost, for any host threads, tickers, images and      *)
(* libraries: which loads a race can lose, whom a tick never calls and in  *)
(* which order and slices it calls the others, and how far a taint flag    *)
(* reaches.                                                                *)
(***************************************************************************)
EXTENDS SystemHost, SequenceTheorems, TLAPS

Loading(h) == hpc[h] \in {"init", "copy", "store"}
Calling(t) == tpc[t] \in {"running", "taint"}

(***************************************************************************)
(* The inductive invariant.  A system that is being loaded is nobody       *)
(* else's and has not been stored (FreshInv), so that every vector - the   *)
(* registry, the copies, the lists of the walks - holds systems in the     *)
(* order of their stores (RankInv).                                        *)
(***************************************************************************)
Prepared == initialised \cup early

FreshInv ==
  /\ \A h \in Hosts : Loading(h) => mine[h] \in 1 .. opened /\ rank[mine[h]] = 0
  /\ \A g, h \in Hosts : Loading(g) /\ Loading(h) /\ g # h => mine[g] # mine[h]
  /\ \A s \in System : s > opened => rank[s] = 0

\* With ranks r and n stores, the systems of a vector are stored and in order.
Ranked(v, r, n) ==
  /\ \A i \in DOMAIN v : r[v[i]] \in 1 .. n
  /\ \A i, j \in DOMAIN v : i < j => r[v[i]] < r[v[j]]

RankInv ==
  /\ Ranked(registry, rank, loads)
  /\ \A h \in Hosts : Ranked(copy[h], rank, loads)
  /\ \A t \in Tickers : Ranked(list[t], rank, loads)

\* A walk: where it is, and what its calls have in common with what is ahead.
WalkInv ==
  \A t \in Tickers :
    /\ tpc[t] \in {"idle", "list"} => called[t] = << >> /\ base[t] = 0 /\ next[t] = 1
    /\ tpc[t] \in {"checked", "running", "taint"} => next[t] <= Len(list[t])
    /\ tpc[t] = "checked" => base[t] < Capacity
    /\ Calling(t) => called[t] # << >> /\ called[t][Len(called[t])].count = 0

Ahead(t) == IF Calling(t) THEN next[t] + 1 ELSE next[t]

\* The calls c are ranked, and before what is left of the vector v from k on.
CallsRanked(c, v, k, r, n) ==
  /\ \A i \in DOMAIN c : r[c[i].system] \in 1 .. n
  /\ \A i, j \in DOMAIN c : i < j => r[c[i].system] < r[c[j].system]
  /\ \A i \in DOMAIN c, l \in DOMAIN v : l >= k => r[c[i].system] < r[v[l]]

CallsInv ==
  \A t \in Tickers : CallsRanked(called[t], list[t], Ahead(t), rank, loads)

EndOf(c) == IF c = << >> THEN 0 ELSE c[Len(c)].from + c[Len(c)].count

Sliced(c) ==
  \A i \in DOMAIN c :
    /\ c[i].from = (IF i = 1 THEN 0 ELSE c[i-1].from + c[i-1].count)
    /\ c[i].from < Capacity
    /\ c[i].from + c[i].count <= Capacity

SliceInv ==
  \A t \in Tickers : Sliced(called[t]) /\ base[t] = EndOf(called[t])

(***************************************************************************)
(* Wherever a system is on its way, its init has returned 0 or there was   *)
(* nothing to run it on (PreparedInv); the flag of an offender is set or   *)
(* about to be (TaintInv); what a host is about to store differs from what *)
(* is owed by exposed systems only (CrossInv).                             *)
(***************************************************************************)
PreparedInv ==
  /\ Elements(registry) \subseteq Prepared
  /\ \A h \in Hosts : Elements(copy[h]) \subseteq Prepared
  /\ \A h \in Hosts : hpc[h] \in {"copy", "store"} => mine[h] \in Prepared
  /\ \A t \in Tickers : Elements(list[t]) \subseteq Prepared
  /\ OnlyEarlyUninitialised

TaintInv ==
  \A s \in offenders :
    s \in tainted \/ \E u \in Tickers : tpc[u] = "taint" /\ Current(u) = s

CrossInv ==
  /\ OnlyCrossedAreLost
  /\ \A h \in Hosts : hpc[h] = "store" =>
       /\ Elements(copy[h]) \ owed \subseteq exposed
       /\ owed \ Elements(copy[h]) \subseteq exposed

TypeInv == TypeOK /\ FreshInv /\ WalkInv
IInv == TypeInv /\ RankInv /\ CallsInv /\ SliceInv /\ PreparedInv /\ TaintInv /\ CrossInv

-----------------------------------------------------------------------------
\* Appending adds one element.
LEMMA AppendElements ==
  ASSUME NEW S, NEW s \in Seq(S), NEW e \in S
  PROVE  /\ Elements(Append(s, e)) = Elements(s) \cup {e}
         /\ Append(s, e) \in Seq(S)
         /\ DOMAIN Append(s, e) = 1 .. Len(s) + 1
         /\ \A i \in 1 .. Len(s) : Append(s, e)[i] = s[i]
         /\ Append(s, e)[Len(s) + 1] = e
         /\ Len(s) \in Nat /\ DOMAIN s = 1 .. Len(s)
  <1>1. /\ Append(s, e) \in Seq(S)
        /\ Len(Append(s, e)) = Len(s) + 1
        /\ \A i \in 1 .. Len(s) : Append(s, e)[i] = s[i]
        /\ Append(s, e)[Len(s) + 1] = e
    BY AppendProperties
  <1>2. Len(s) \in Nat /\ DOMAIN s = 1 .. Len(s)
    BY LenProperties
  <1>3. DOMAIN Append(s, e) = 1 .. Len(s) + 1
    BY <1>1, LenProperties
  <1>4. Elements(Append(s, e)) = Elements(s) \cup {e}
    <2>1. ASSUME NEW x \in Elements(Append(s, e)) PROVE x \in Elements(s) \cup {e}
      <3>1. PICK i \in 1 .. Len(s) + 1 : x = Append(s, e)[i]
        BY <1>3, <2>1 DEF Elements
      <3>2. i \in 1 .. Len(s) \/ i = Len(s) + 1
        BY <1>2
      <3> QED
        BY <1>1, <1>2, <3>1, <3>2 DEF Elements
    <2>2. ASSUME NEW x \in Elements(s) PROVE x \in Elements(Append(s, e))
      <3>1. PICK i \in 1 .. Len(s) : x = s[i]
        BY <1>2, <2>2 DEF Elements
      <3>2. i \in DOMAIN Append(s, e) /\ x = Append(s, e)[i]
        BY <1>1, <1>2, <1>3, <3>1
      <3> QED
        BY <3>2 DEF Elements
    <2>3. e \in Elements(Append(s, e))
      <3>1. Len(s) + 1 \in DOMAIN Append(s, e)
        BY <1>2, <1>3
      <3> QED
        BY <1>1, <3>1 DEF Elements
    <2> QED
      BY <2>1, <2>2, <2>3
  <1> QED
    BY <1>1, <1>2, <1>3, <1>4

\* The elements of a sequence of systems are systems.
LEMMA ElementsAreSystems ==
  ASSUME NEW s \in Seq(System) PROVE Elements(s) \subseteq System
  BY LenProperties DEF Elements

\* A call added where the last one ended leaves no gap.
LEMMA AppendSlice ==
  ASSUME NEW c \in Seq(Call), NEW s \in System, Sliced(c), EndOf(c) < Capacity,
         EndOf(c) \in 0 .. Capacity
  PROVE  LET d == Append(c, [system |-> s, from |-> EndOf(c), count |-> 0])
         IN  /\ d \in Seq(Call) /\ d # << >>
             /\ Sliced(d) /\ EndOf(d) = EndOf(c) /\ d[Len(d)].count = 0
  <1> DEFINE b == EndOf(c)
             e == [system |-> s, from |-> b, count |-> 0]
             d == Append(c, e)
  <1>0. e \in Call /\ Capacity \in Nat
    BY BoundsAssumption DEF Call
  <1>1. /\ d \in Seq(Call) /\ Len(d) = Len(c) + 1 /\ DOMAIN d = 1 .. Len(c) + 1
        /\ \A i \in 1 .. Len(c) : d[i] = c[i]
        /\ d[Len(c) + 1] = e
        /\ Len(c) \in Nat /\ DOMAIN c = 1 .. Len(c)
    BY <1>0, AppendElements, LenProperties
  <1>2. d # << >>
    BY <1>1
  <1>3. e.from = b /\ e.count = 0
    OBVIOUS
  <1>4. EndOf(d) = b /\ d[Len(d)].count = 0
    BY <1>1, <1>2, <1>3 DEF EndOf
  <1>5. Len(c) = 0 => b = 0
    <2> SUFFICES ASSUME Len(c) = 0 PROVE c = << >>
      BY DEF EndOf
    <2> QED
      BY EmptySeq
  <1>6. Len(c) # 0 => b = c[Len(c)].from + c[Len(c)].count
    <2> SUFFICES ASSUME Len(c) # 0 PROVE c # << >>
      BY DEF EndOf
    <2> QED
      BY EmptySeq
  <1> HIDE DEF d, e, b
  <1>7. ASSUME NEW i \in 1 .. Len(c) + 1
        PROVE  /\ d[i].from = (IF i = 1 THEN 0 ELSE d[i-1].from + d[i-1].count)
               /\ d[i].from < Capacity
               /\ d[i].from + d[i].count <= Capacity
    <2>1. CASE i \in 1 .. Len(c)
      <3>1. d[i] = c[i] /\ (i # 1 => d[i-1] = c[i-1])
        BY <1>1, <2>1
      <3> QED
        BY <1>1, <2>1, <3>1 DEF Sliced
    <2>2. CASE i = Len(c) + 1
      <3>1. d[i].from = b /\ d[i].count = 0
        BY <1>1, <1>3, <2>2
      <3>2. Len(c) # 0 => i # 1 /\ d[i-1] = c[Len(c)]
        BY <1>1, <2>2
      <3> QED
        BY <1>0, <1>1, <1>5, <1>6, <2>2, <3>1, <3>2 DEF b
    <2> QED
      BY <1>1, <2>1, <2>2
  <1>8. Sliced(d)
    BY <1>1, <1>7 DEF Sliced
  <1> QED
    BY <1>1, <1>2, <1>4, <1>8 DEF d, e, b

\* A call that returns n moves the end of the last slice by n, and nothing else.
LEMMA ReturnSlice ==
  ASSUME NEW c \in Seq(Call), c # << >>, Sliced(c), c[Len(c)].count = 0,
         NEW n \in 0 .. Capacity - EndOf(c), EndOf(c) \in 0 .. Capacity
  PROVE  LET d == [c EXCEPT ![Len(c)].count = n]
         IN  /\ d \in Seq(Call) /\ DOMAIN d = DOMAIN c
             /\ \A i \in DOMAIN c : d[i].system = c[i].system
             /\ Sliced(d) /\ EndOf(d) = EndOf(c) + n
  <1> DEFINE d == [c EXCEPT ![Len(c)].count = n]
             m == Len(c)
  <1>1. /\ m \in Nat /\ m # 0 /\ DOMAIN c = 1 .. m
        /\ \A i \in 1 .. m : c[i] \in Call
    BY LenProperties, EmptySeq, ElementOfSeq
  <1>2. m \in 1 .. m /\ Capacity \in Nat
    BY <1>1, BoundsAssumption
  <1>3. /\ DOMAIN d = 1 .. m
        /\ \A i \in 1 .. m : i # m => d[i] = c[i]
        /\ d[m] = [c[m] EXCEPT !.count = n]
    BY <1>1, <1>2
  <1>4. EndOf(c) = c[m].from /\ n \in 0 .. Capacity /\ c[m].from \in 0 .. Capacity
    <2>1. c[m] \in Call /\ EndOf(c) = c[m].from + c[m].count
      BY <1>1, <1>2 DEF EndOf
    <2>2. c[m].from \in 0 .. Capacity
      BY <2>1 DEF Call
    <2>3. EndOf(c) = c[m].from + 0
      BY <2>1
    <2> QED
      BY <1>2, <2>2, <2>3
  <1>5. /\ d[m] \in Call /\ d[m].from = c[m].from /\ d[m].count = n
        /\ d[m].system = c[m].system
    BY <1>1, <1>2, <1>3, <1>4 DEF Call
  <1>6. \A i \in 1 .. m : d[i] \in Call /\ d[i].system = c[i].system
    BY <1>1, <1>3, <1>5
  <1>7. d \in Seq(Call) /\ Len(d) = m
    <2>1. d \in [1 .. m -> Call]
      <3>1. d = [i \in 1 .. m |-> d[i]]
        BY <1>1
      <3> QED
        BY <1>6, <3>1
    <2> HIDE DEF d
    <2> QED
      BY <1>1, <2>1, LenProperties, SeqDef
  <1>8. d # << >>
    BY <1>1, <1>7, EmptySeq
  <1> HIDE DEF d, m
  <1>9. EndOf(d) = EndOf(c) + n
    BY <1>4, <1>5, <1>7, <1>8 DEF EndOf
  <1>10. ASSUME NEW i \in 1 .. m
         PROVE  /\ d[i].from = (IF i = 1 THEN 0 ELSE d[i-1].from + d[i-1].count)
                /\ d[i].from < Capacity
                /\ d[i].from + d[i].count <= Capacity
    <2>0. i # 1 => i - 1 \in 1 .. m /\ i - 1 # m
      BY <1>1
    <2>1. d[i].from = c[i].from /\ (i # 1 => d[i-1] = c[i-1])
      BY <1>3, <1>5, <2>0
    <2>2. i = m => d[i].from + d[i].count <= Capacity
      BY <1>2, <1>4, <1>5
    <2>3. i # m => d[i].from + d[i].count <= Capacity
      BY <1>1, <1>3 DEF Sliced
    <2> QED
      BY <1>1, <2>1, <2>2, <2>3 DEF Sliced
  <1>11. Sliced(d)
    BY <1>3, <1>10 DEF Sliced
  <1> QED
    BY <1>1, <1>3, <1>6, <1>7, <1>9, <1>11 DEF d, m

-----------------------------------------------------------------------------
\* The initial state is in the invariant.
LEMMA InitInvariant == Init => IInv
  <1> SUFFICES ASSUME Init PROVE IInv
    OBVIOUS
  <1> USE DEF Init
  <1>1. /\ << >> \in Seq(System) /\ DOMAIN << >> = {} /\ << >> \in Seq(Call)
        /\ Elements(<< >>) = {} /\ Ranked(<< >>, rank, loads) /\ Sliced(<< >>) /\ EndOf(<< >>) = 0
    BY EmptySeq DEF Elements, Ranked, Sliced, EndOf
  <1>2. TypeOK
    BY <1>1, BoundsAssumption DEF TypeOK
  <1>3. FreshInv /\ WalkInv
    BY DEF FreshInv, WalkInv, Loading, Calling
  <1>4. RankInv /\ CallsInv /\ SliceInv
    BY <1>1 DEF RankInv, CallsInv, CallsRanked, SliceInv
  <1>5. PreparedInv /\ TaintInv /\ CrossInv
    BY <1>1 DEF PreparedInv, TaintInv, CrossInv, OnlyCrossedAreLost, OnlyEarlyUninitialised
  <1> QED
    BY <1>2, <1>3, <1>4, <1>5 DEF IInv, TypeInv

\* What a walk that calls or has called is about to use is a system.
LEMMA CurrentIsSystem ==
  ASSUME TypeInv, NEW t \in Tickers, tpc[t] \in {"walk", "checked", "running", "taint"},
         next[t] <= Len(list[t])
  PROVE  /\ list[t] \in Seq(System) /\ next[t] \in DOMAIN list[t]
         /\ Current(t) \in System /\ Current(t) \in Elements(list[t])
  <1>1. list[t] \in Seq(System) /\ next[t] \in Nat \ {0}
    BY DEF TypeInv, TypeOK
  <1>2. next[t] \in DOMAIN list[t] /\ DOMAIN list[t] = 1 .. Len(list[t])
    BY <1>1, LenProperties
  <1>3. list[t][next[t]] \in System
    BY <1>1, <1>2, ElementOfSeq
  <1> QED
    BY <1>1, <1>2, <1>3 DEF Current, Elements

\* A host leaves the walks alone, a ticker the loads.
LEMMA HostFrame ==
  ASSUME NEW h \in Hosts, HostStep(h)
  PROVE  UNCHANGED <<tickVars, offenders>>
  BY DEF HostStep, OpenLibrary, InitSystem, CopyRegistry, StoreRegistry, ReplaceImage,
         UnloadImage, ClearSystems, history

LEMMA TickFrame ==
  ASSUME NEW t \in Tickers, TickStep(t)
  PROVE  UNCHANGED <<registry, mapped, opened, hostVars, initHistory, loadHistory>>
  BY DEF TickStep, PinImage, LoadList, SkipTainted, CheckSystem, BeginCall, CallReturns,
         CallOffends, StoreTaint, EndTick, history, registryVars

LEMMA HostRanks ==
  ASSUME NEW h \in Hosts, HostStep(h), ~StoreRegistry(h)
  PROVE  UNCHANGED <<loads, rank>>
  BY DEF HostStep, OpenLibrary, InitSystem, CopyRegistry, ReplaceImage, UnloadImage,
         ClearSystems, history, loadHistory

LEMMA NewCall ==
  ASSUME NEW s \in System, NEW b \in 0 .. Capacity
  PROVE  [system |-> s, from |-> b, count |-> 0] \in Call
  BY BoundsAssumption DEF Call

\* Every variable keeps its range.
LEMMA TypeStep == TypeInv /\ SliceInv /\ [Next]_vars => TypeOK'
  <1> SUFFICES ASSUME TypeInv, SliceInv, [Next]_vars PROVE TypeOK'
    OBVIOUS
  <1> USE BoundsAssumption DEF At, Goes, registryVars, hostVars, tickVars, history,
                               initHistory, loadHistory
  <1>0. TypeOK /\ << >> \in Seq(System) /\ << >> \in Seq(Call)
    BY EmptySeq DEF TypeInv
  <1>1. CASE UNCHANGED vars
    BY <1>0, <1>1 DEF vars, TypeOK
  <1>2. ASSUME NEW h \in Hosts, HostStep(h) PROVE TypeOK'
    <2>0. UNCHANGED <<tickVars, offenders>>
      BY <1>2, HostFrame
    <2>1. CASE OpenLibrary(h)
      BY <1>0, <2>1 DEF OpenLibrary, TypeOK
    <2>2. CASE InitSystem(h)
      <3>1. hpc[h] = "init" /\ mine[h] \in System
        BY <1>0, <2>2 DEF InitSystem, TypeInv, FreshInv, Loading, TypeOK, System
      <3> QED
        <4>1. mine' \in [Hosts -> 0 .. MaxSystems] /\ copy' \in [Hosts -> Seq(System)]
          <5>1. Return(h) \/ UNCHANGED <<mine, copy>>
            BY <2>2 DEF InitSystem
          <5>2. mine \in [Hosts -> 0 .. MaxSystems] /\ copy \in [Hosts -> Seq(System)]
            BY <1>0 DEF TypeOK
          <5>3. CASE Return(h)
            BY <1>0, <5>2, <5>3 DEF Return
          <5> QED
            BY <5>1, <5>2, <5>3
        <4>2. initialised' \subseteq System /\ early' \subseteq System
          BY <1>0, <2>2, <3>1 DEF InitSystem, TypeOK
        <4>3. hpc' \in [Hosts -> {"idle", "init", "copy", "store", "clear"}]
          BY <1>0, <2>2 DEF InitSystem, TypeOK
        <4>4. UNCHANGED <<registryVars, tickVars, offenders, loadHistory>>
          BY <2>2 DEF InitSystem
        <4> QED
          BY <1>0, <4>1, <4>2, <4>3, <4>4 DEF TypeOK
    <2>3. CASE CopyRegistry(h)
      BY <1>0, <2>3 DEF CopyRegistry, TypeOK
    <2>4. CASE StoreRegistry(h)
      <3>1. hpc[h] = "store" /\ mine[h] \in System /\ copy[h] \in Seq(System)
        BY <1>0, <2>4 DEF StoreRegistry, TypeInv, FreshInv, Loading, TypeOK, System
      <3>2. Append(copy[h], mine[h]) \in Seq(System)
        BY <3>1, AppendElements
      <3>3. owed' \subseteq System /\ exposed' \subseteq System /\ loads' \in Nat
            /\ rank' \in [System -> Nat]
        BY <1>0, <2>4, <3>1 DEF StoreRegistry, RecordLoad, TypeOK
      <3> QED
        BY <1>0, <2>4, <3>2, <3>3 DEF StoreRegistry, Return, TypeOK
    <2>5. CASE ReplaceImage(h)
      BY <1>0, <2>5 DEF ReplaceImage, TypeOK
    <2>6. CASE UnloadImage(h)
      BY <1>0, <2>6 DEF UnloadImage, TypeOK
    <2>7. CASE ClearSystems(h)
      BY <1>0, <2>7 DEF ClearSystems, TypeOK
    <2> QED
      BY <1>2, <2>1, <2>2, <2>3, <2>4, <2>5, <2>6, <2>7 DEF HostStep
  <1>3. ASSUME NEW t \in Tickers, TickStep(t) PROVE TypeOK'
    <2>0. UNCHANGED <<registry, mapped, opened, hostVars, initHistory, loadHistory>>
      BY <1>3, TickFrame
    <2>1. CASE PinImage(t)
      BY <1>0, <2>1 DEF PinImage, TypeOK
    <2>2. CASE LoadList(t)
      BY <1>0, <2>2 DEF LoadList, TypeOK
    <2>3. CASE SkipTainted(t)
      BY SMTT(20), <1>0, <2>3 DEF SkipTainted, TypeOK
    <2>4. CASE CheckSystem(t)
      BY <1>0, <2>4 DEF CheckSystem, TypeOK
    <2>5. CASE BeginCall(t)
      <3>1. Current(t) \in System
        BY <2>5, CurrentIsSystem DEF BeginCall, TypeInv, WalkInv
      <3>2. called[t] \in Seq(Call) /\ base[t] \in 0 .. Capacity
        BY <1>0 DEF TypeOK
      <3>6. [system |-> Current(t), from |-> base[t], count |-> 0] \in Call
        BY <3>1, <3>2, NewCall
      <3>3. Append(called[t], [system |-> Current(t), from |-> base[t], count |-> 0]) \in Seq(Call)
        BY <3>2, <3>6, AppendElements
      <3>4. called' \in [Tickers -> Seq(Call)]
        BY <1>0, <2>5, <3>3 DEF BeginCall, TypeOK
      <3>5. /\ tpc' = [tpc EXCEPT ![t] = "running"]
            /\ UNCHANGED <<registryVars, hostVars, image, list, next, base, history>>
        BY <2>5 DEF BeginCall
      <3> QED
        BY <1>0, <3>4, <3>5 DEF TypeOK
    <2>6. CASE CallReturns(t)
      <3>1. PICK n \in 0 .. Capacity - base[t] :
              /\ base' = [base EXCEPT ![t] = @ + n]
              /\ called' = [called EXCEPT ![t][Len(called[t])].count = n]
        BY <2>6 DEF CallReturns
      <3>2. /\ called[t] \in Seq(Call) /\ called[t] # << >> /\ Sliced(called[t])
            /\ called[t][Len(called[t])].count = 0 /\ base[t] = EndOf(called[t])
            /\ base[t] \in 0 .. Capacity
        BY <1>0, <2>6 DEF CallReturns, TypeOK, TypeInv, WalkInv, Calling, SliceInv
      <3>3. [called[t] EXCEPT ![Len(called[t])].count = n] \in Seq(Call)
        BY ZenonT(30), <3>2, ReturnSlice
      <3>4. called' \in [Tickers -> Seq(Call)] /\ base' \in [Tickers -> 0 .. Capacity]
        BY SMTT(20), <1>0, <3>1, <3>2, <3>3 DEF TypeOK
      <3>5. /\ tpc' = [tpc EXCEPT ![t] = "walk"] /\ next' = [next EXCEPT ![t] = @ + 1]
            /\ UNCHANGED <<registryVars, hostVars, image, list, history>>
        BY <2>6 DEF CallReturns
      <3> QED
        BY SMTT(20), <1>0, <3>4, <3>5 DEF TypeOK
    <2>7. CASE CallOffends(t)
      <3>1. Current(t) \in System
        BY <2>7, CurrentIsSystem DEF CallOffends, TypeInv, WalkInv
      <3> QED
        BY <1>0, <2>7, <3>1 DEF CallOffends, TypeOK
    <2>8. CASE StoreTaint(t)
      <3>1. Current(t) \in System
        BY <2>8, CurrentIsSystem DEF StoreTaint, TypeInv, WalkInv
      <3> QED
        BY SMTT(20), <1>0, <2>8, <3>1 DEF StoreTaint, TypeOK
    <2>9. CASE EndTick(t)
      <3>1. tpc' \in [Tickers -> {"idle", "list", "walk", "checked", "running", "taint"}]
        BY <1>0, <2>9 DEF EndTick, TypeOK
      <3>2. UNCHANGED <<registryVars, hostVars, history>>
        BY <2>9 DEF EndTick
      <3>3. /\ image' \in [Tickers -> Images \cup {NoImage}]
            /\ list' \in [Tickers -> Seq(System)]
            /\ next' \in [Tickers -> Nat \ {0}]
            /\ base' \in [Tickers -> 0 .. Capacity]
            /\ called' \in [Tickers -> Seq(Call)]
        BY <1>0, <2>9 DEF EndTick, TypeOK
      <3> QED
        BY <1>0, <3>1, <3>2, <3>3 DEF TypeOK
    <2> QED
      BY <1>3, <2>1, <2>2, <2>3, <2>4, <2>5, <2>6, <2>7, <2>8, <2>9 DEF TickStep
  <1> QED
    BY <1>1, <1>2, <1>3 DEF Next

\* A library is opened under a new number; what has no store has no rank.
LEMMA FreshStep == TypeInv /\ [Next]_vars => FreshInv'
  <1> SUFFICES ASSUME TypeInv, [Next]_vars PROVE FreshInv'
    OBVIOUS
  <1> USE DEF At, registryVars, hostVars, tickVars, history, initHistory, loadHistory
  <1>0. TypeOK /\ FreshInv
    BY DEF TypeInv
  <1>1. CASE UNCHANGED vars
    BY <1>0, <1>1 DEF vars, FreshInv, Loading
  <1>2. ASSUME NEW h \in Hosts, HostStep(h) PROVE FreshInv'
    <2>1. CASE OpenLibrary(h)
      <3>1. /\ opened' = opened + 1 /\ opened \in Nat /\ opened + 1 \in System
            /\ mine' = [mine EXCEPT ![h] = opened + 1] /\ hpc' = [hpc EXCEPT ![h] = "init"]
            /\ UNCHANGED rank
        BY <1>0, <2>1, BoundsAssumption DEF OpenLibrary, TypeOK, System
      <3>2. rank[opened + 1] = 0
        BY <1>0, <3>1 DEF FreshInv
      <3>3. \A g \in Hosts \ {h} : mine'[g] = mine[g] /\ (Loading(g)' <=> Loading(g))
        BY <1>0, <3>1 DEF TypeOK, Loading
      <3>4. \A g \in Hosts \ {h} : Loading(g) => mine[g] # opened + 1
        BY <1>0, <3>1 DEF FreshInv
      <3>5. mine'[h] = opened + 1
        BY <1>0, <3>1 DEF TypeOK
      <3>6. \A g \in Hosts : Loading(g)' => mine'[g] \in 1 .. opened' /\ rank'[mine'[g]] = 0
        BY <1>0, <3>1, <3>2, <3>3, <3>5 DEF FreshInv
      <3>7. \A f, g \in Hosts : Loading(f)' /\ Loading(g)' /\ f # g => mine'[f] # mine'[g]
        BY <1>0, <3>3, <3>4, <3>5 DEF FreshInv
      <3>8. \A s \in System : s > opened' => rank'[s] = 0
        BY <1>0, <3>1 DEF FreshInv, System
      <3> QED
        BY <3>6, <3>7, <3>8 DEF FreshInv
    <2>2. CASE InitSystem(h)
      <3>1. \A g \in Hosts : Loading(g)' => Loading(g) /\ mine'[g] = mine[g]
        BY <1>0, <2>2 DEF InitSystem, Return, TypeOK, Loading
      <3> QED
        BY <1>0, <2>2, <3>1 DEF InitSystem, FreshInv
    <2>3. CASE CopyRegistry(h)
      <3>1. \A g \in Hosts : Loading(g)' => Loading(g) /\ mine'[g] = mine[g]
        BY <1>0, <2>3 DEF CopyRegistry, TypeOK, Loading
      <3> QED
        BY <1>0, <2>3, <3>1 DEF CopyRegistry, FreshInv
    <2>4. CASE StoreRegistry(h)
      <3>1. \A g \in Hosts : Loading(g)' => g # h /\ Loading(g) /\ mine'[g] = mine[g]
        BY <1>0, <2>4 DEF StoreRegistry, Return, TypeOK, Loading
      <3>2. Loading(h) /\ rank' = [rank EXCEPT ![mine[h]] = loads + 1] /\ UNCHANGED opened
        BY <2>4 DEF StoreRegistry, RecordLoad, Loading
      <3>3. mine[h] \in 1 .. opened
        BY <1>0, <3>2 DEF FreshInv
      <3>4. \A g \in Hosts : Loading(g)' => rank'[mine'[g]] = 0
        BY <1>0, <3>1, <3>2, BoundsAssumption DEF FreshInv, TypeOK, System
      <3>5. \A s \in System : s > opened' => rank'[s] = 0
        BY <1>0, <3>2, <3>3 DEF FreshInv, System, TypeOK
      <3> QED
        BY <1>0, <3>1, <3>2, <3>4, <3>5 DEF FreshInv
    <2>5. CASE ReplaceImage(h)
      BY <1>0, <2>5 DEF ReplaceImage, FreshInv, Loading
    <2>6. CASE UnloadImage(h)
      <3>1. \A g \in Hosts : Loading(g)' => Loading(g) /\ mine'[g] = mine[g]
        BY <1>0, <2>6 DEF UnloadImage, TypeOK, Loading
      <3> QED
        BY <1>0, <2>6, <3>1 DEF UnloadImage, FreshInv
    <2>7. CASE ClearSystems(h)
      <3>1. \A g \in Hosts : Loading(g)' => Loading(g) /\ mine'[g] = mine[g]
        BY <1>0, <2>7 DEF ClearSystems, Return, TypeOK, Loading
      <3> QED
        BY <1>0, <2>7, <3>1 DEF ClearSystems, FreshInv
    <2> QED
      BY <1>2, <2>1, <2>2, <2>3, <2>4, <2>5, <2>6, <2>7 DEF HostStep
  <1>3. ASSUME NEW t \in Tickers, TickStep(t) PROVE FreshInv'
    <2>1. UNCHANGED <<opened, hpc, mine, rank>>
      BY <1>3, TickFrame
    <2> QED
      BY <1>0, <2>1 DEF FreshInv, Loading
  <1> QED
    BY <1>1, <1>2, <1>3 DEF Next

\* A ticker is where its walk has taken it.
LEMMA WalkStep == TypeInv /\ SliceInv /\ [Next]_vars => WalkInv'
  <1> SUFFICES ASSUME TypeInv, SliceInv, [Next]_vars PROVE WalkInv'
    OBVIOUS
  <1> USE DEF Goes, Calling
  <1>0. TypeOK /\ WalkInv
    BY DEF TypeInv
  <1>1. CASE UNCHANGED vars
    BY <1>0, <1>1 DEF vars, tickVars, WalkInv
  <1>2. ASSUME NEW h \in Hosts, HostStep(h) PROVE WalkInv'
    BY <1>0, <1>2, HostFrame DEF tickVars, WalkInv
  <1>3. ASSUME NEW t \in Tickers, TickStep(t) PROVE WalkInv'
    <2>1. CASE PinImage(t)
      BY <1>0, <2>1 DEF PinImage, TypeOK, WalkInv
    <2>2. CASE LoadList(t)
      BY <1>0, <2>2 DEF LoadList, TypeOK, WalkInv
    <2>3. CASE SkipTainted(t)
      BY <1>0, <2>3 DEF SkipTainted, Walking, TypeOK, WalkInv
    <2>4. CASE CheckSystem(t)
      BY <1>0, <2>4 DEF CheckSystem, Walking, TypeOK, WalkInv
    <2>5. CASE BeginCall(t)
      <3> DEFINE d == Append(called[t], [system |-> Current(t), from |-> base[t], count |-> 0])
      <3>1. Current(t) \in System
        BY <2>5, CurrentIsSystem DEF BeginCall, TypeInv, WalkInv
      <3>2. called[t] \in Seq(Call) /\ Sliced(called[t]) /\ base[t] = EndOf(called[t])
            /\ base[t] \in 0 .. Capacity /\ base[t] < Capacity
        BY <1>0, <2>5 DEF BeginCall, TypeOK, WalkInv, SliceInv
      <3>3. d # << >> /\ d[Len(d)].count = 0
        BY <3>1, <3>2, AppendSlice
      <3>4. called' = [called EXCEPT ![t] = d] /\ tpc' = [tpc EXCEPT ![t] = "running"]
            /\ tpc[t] = "checked" /\ UNCHANGED <<list, next, base>>
        BY <2>5 DEF BeginCall
      <3> HIDE DEF d
      <3> QED
        BY <1>0, <3>3, <3>4 DEF TypeOK, WalkInv
    <2>6. CASE CallReturns(t)
      <3>1. \A u \in Tickers \ {t} :
              called'[u] = called[u] /\ base'[u] = base[u] /\ next'[u] = next[u]
              /\ tpc'[u] = tpc[u] /\ list'[u] = list[u]
        BY <1>0, <2>6 DEF CallReturns, TypeOK
      <3>2. tpc'[t] = "walk"
        BY <1>0, <2>6 DEF CallReturns, TypeOK
      <3> QED
        BY <1>0, <3>1, <3>2 DEF WalkInv
    <2>7. CASE CallOffends(t)
      BY <1>0, <2>7 DEF CallOffends, TypeOK, WalkInv
    <2>8. CASE StoreTaint(t)
      BY <1>0, <2>8 DEF StoreTaint, TypeOK, WalkInv
    <2>9. CASE EndTick(t)
      BY <1>0, <2>9 DEF EndTick, TypeOK, WalkInv
    <2> QED
      BY <1>3, <2>1, <2>2, <2>3, <2>4, <2>5, <2>6, <2>7, <2>8, <2>9 DEF TickStep
  <1> QED
    BY <1>1, <1>2, <1>3 DEF Next

\* The slices of a walk follow each other.
LEMMA SliceStep == TypeInv /\ SliceInv /\ [Next]_vars => SliceInv'
  <1> SUFFICES ASSUME TypeInv, SliceInv, [Next]_vars PROVE SliceInv'
    OBVIOUS
  <1> USE DEF Goes
  <1>0. TypeOK /\ WalkInv
    BY DEF TypeInv
  <1>e. Sliced(<< >>) /\ EndOf(<< >>) = 0
    BY EmptySeq DEF Sliced, EndOf
  <1>1. CASE UNCHANGED <<called, base>>
    <2>1. \A t \in Tickers : Sliced(called'[t]) /\ base'[t] = EndOf(called'[t])
      BY <1>1 DEF SliceInv
    <2> QED
      BY <2>1 DEF SliceInv, Sliced, EndOf
  <1>2. ASSUME NEW t \in Tickers, NEW b, NEW d,
               base' = [base EXCEPT ![t] = b], called' = [called EXCEPT ![t] = d],
               Sliced(d), b = EndOf(d)
        PROVE  SliceInv'
    <2>1. \A u \in Tickers : Sliced(called'[u]) /\ base'[u] = EndOf(called'[u])
      BY <1>0, <1>2 DEF SliceInv, TypeOK
    <2> QED
      BY <2>1 DEF SliceInv, Sliced, EndOf
  <1>3. CASE UNCHANGED vars
    BY <1>1, <1>3 DEF vars, tickVars
  <1>4. ASSUME NEW h \in Hosts, HostStep(h) PROVE SliceInv'
    BY <1>1, <1>4, HostFrame DEF tickVars
  <1>5. ASSUME NEW t \in Tickers, TickStep(t) PROVE SliceInv'
    <2>1. CASE PinImage(t) \/ LoadList(t) \/ SkipTainted(t) \/ CheckSystem(t)
               \/ CallOffends(t) \/ StoreTaint(t)
      BY <1>1, <2>1 DEF PinImage, LoadList, SkipTainted, CheckSystem, CallOffends, StoreTaint
    <2>5. CASE BeginCall(t)
      <3> DEFINE d == Append(called[t], [system |-> Current(t), from |-> base[t], count |-> 0])
      <3>1. Current(t) \in System
        BY <2>5, CurrentIsSystem DEF BeginCall, TypeInv, WalkInv
      <3>2. called[t] \in Seq(Call) /\ Sliced(called[t]) /\ base[t] = EndOf(called[t])
            /\ base[t] \in 0 .. Capacity /\ base[t] < Capacity
        BY <1>0, <2>5 DEF BeginCall, TypeOK, WalkInv, SliceInv
      <3>3. Sliced(d) /\ base[t] = EndOf(d)
        BY <3>1, <3>2, AppendSlice
      <3>4. called' = [called EXCEPT ![t] = d] /\ base' = [base EXCEPT ![t] = base[t]]
        BY <1>0, <2>5 DEF BeginCall, TypeOK
      <3> HIDE DEF d
      <3> QED
        BY <1>2, <3>3, <3>4
    <2>6. CASE CallReturns(t)
      <3>1. PICK n \in 0 .. Capacity - base[t] :
              /\ base' = [base EXCEPT ![t] = @ + n]
              /\ called' = [called EXCEPT ![t][Len(called[t])].count = n]
        BY <2>6 DEF CallReturns
      <3> DEFINE d == [called[t] EXCEPT ![Len(called[t])].count = n]
      <3>2. /\ called[t] \in Seq(Call) /\ called[t] # << >> /\ Sliced(called[t])
            /\ called[t][Len(called[t])].count = 0 /\ base[t] = EndOf(called[t])
            /\ base[t] \in 0 .. Capacity
        BY <1>0, <2>6 DEF CallReturns, TypeOK, WalkInv, Calling, SliceInv
      <3>3. Sliced(d) /\ EndOf(d) = base[t] + n
        BY ZenonT(30), <3>2, ReturnSlice
      <3>4. called' = [called EXCEPT ![t] = d] /\ base' = [base EXCEPT ![t] = base[t] + n]
        BY <3>1
      <3> HIDE DEF d
      <3> QED
        BY <1>2, <3>3, <3>4
    <2>9. CASE EndTick(t)
      BY <1>2, <1>e, <2>9 DEF EndTick
    <2> QED
      BY <1>5, <2>1, <2>5, <2>6, <2>9 DEF TickStep
  <1> QED
    BY <1>3, <1>4, <1>5 DEF Next

-----------------------------------------------------------------------------
\* A store gives a rank to a system that had none, and keeps that of every other.
LEMMA RankFrame ==
  ASSUME TypeInv, NEW h \in Hosts, HostStep(h)
  PROVE  /\ loads \in Nat /\ loads' \in Nat /\ loads <= loads'
         /\ \A s \in System : rank[s] \in 1 .. loads => rank'[s] = rank[s]
  <1>0. TypeOK /\ FreshInv
    BY DEF TypeInv
  <1>1. CASE StoreRegistry(h)
    <2>1. rank' = [rank EXCEPT ![mine[h]] = loads + 1] /\ loads' = loads + 1
      BY <1>1 DEF StoreRegistry, RecordLoad
    <2>2. rank[mine[h]] = 0
      BY <1>0, <1>1 DEF StoreRegistry, At, FreshInv, Loading
    <2>3. loads \in Nat /\ rank \in [System -> Nat]
      BY <1>0 DEF TypeOK
    <2> QED
      BY <2>1, <2>2, <2>3
  <1>2. CASE ~StoreRegistry(h)
    <2>1. UNCHANGED <<loads, rank>>
      BY <1>2, HostRanks
    <2> QED
      BY <1>0, <2>1 DEF TypeOK
  <1> QED
    BY <1>1, <1>2

\* A ranked vector stays ranked when others are stored,
LEMMA RankKeeps ==
  ASSUME NEW v \in Seq(System), NEW r, NEW q, NEW m \in Nat, NEW n \in Nat, m <= n,
         \A s \in System : r[s] \in 1 .. m => q[s] = r[s],
         Ranked(v, r, m)
  PROVE  Ranked(v, q, n)
  <1>1. \A i \in DOMAIN v : v[i] \in System
    BY LenProperties
  <1>2. \A i \in DOMAIN v : q[v[i]] = r[v[i]] /\ q[v[i]] \in 1 .. m
    BY <1>1 DEF Ranked
  <1>3. \A i \in DOMAIN v : q[v[i]] \in 1 .. n
    BY <1>2
  <1> QED
    BY <1>2, <1>3 DEF Ranked

\* and with a later one at its end.
LEMMA RankAppends ==
  ASSUME NEW v \in Seq(System), NEW s \in System, NEW r, NEW m \in Nat,
         Ranked(v, r, m), r[s] = m + 1
  PROVE  Ranked(Append(v, s), r, m + 1)
  <1> DEFINE z == Append(v, s)
  <1>1. /\ DOMAIN z = 1 .. Len(v) + 1 /\ DOMAIN v = 1 .. Len(v) /\ Len(v) \in Nat
        /\ \A i \in 1 .. Len(v) : z[i] = v[i]
        /\ z[Len(v) + 1] = s
    BY AppendElements
  <1> HIDE DEF z
  <1>2. \A i \in 1 .. Len(v) : r[z[i]] \in 1 .. m /\ r[z[i]] < m + 1
    BY <1>1 DEF Ranked
  <1>3. ASSUME NEW i \in DOMAIN z PROVE r[z[i]] \in 1 .. m + 1
    BY <1>1, <1>2
  <1>4. ASSUME NEW i \in DOMAIN z, NEW j \in DOMAIN z, i < j PROVE r[z[i]] < r[z[j]]
    <2>1. i \in 1 .. Len(v) /\ (j \in 1 .. Len(v) \/ j = Len(v) + 1)
      BY <1>1, <1>4
    <2>2. CASE j \in 1 .. Len(v)
      BY <1>1, <1>4, <2>1, <2>2 DEF Ranked
    <2>3. CASE j = Len(v) + 1
      BY <1>1, <1>2, <2>1, <2>3
    <2> QED
      BY <2>1, <2>2, <2>3
  <1> QED
    BY <1>3, <1>4 DEF Ranked, z

\* The registry, its copies and the lists of the walks are ranked.
LEMMA RankStep == TypeInv /\ RankInv /\ [Next]_vars => RankInv'
  <1> SUFFICES ASSUME TypeInv, RankInv, [Next]_vars PROVE RankInv'
    OBVIOUS
  <1> USE DEF registryVars, hostVars, tickVars, history, initHistory, loadHistory
  <1>0. TypeOK /\ FreshInv
    BY DEF TypeInv
  <1>e. \A r, n : Ranked(<< >>, r, n)
    BY EmptySeq DEF Ranked
  <1>1. CASE UNCHANGED vars
    BY <1>1 DEF vars, RankInv
  <1>2. ASSUME NEW h \in Hosts, HostStep(h) PROVE RankInv'
    <2>1. /\ loads \in Nat /\ loads' \in Nat /\ loads <= loads'
          /\ \A s \in System : rank[s] \in 1 .. loads => rank'[s] = rank[s]
      BY <1>2, RankFrame
    <2>2. \A v \in Seq(System) : Ranked(v, rank, loads) => Ranked(v, rank', loads')
      BY <2>1, RankKeeps
    <2>3. /\ Ranked(registry, rank', loads')
          /\ \A g \in Hosts : Ranked(copy[g], rank', loads')
          /\ \A t \in Tickers : Ranked(list[t], rank', loads')
      BY <1>0, <2>2 DEF TypeOK, RankInv
    <2>4. \A t \in Tickers : Ranked(list'[t], rank', loads')
      BY <1>2, <2>3, HostFrame
    <2>5. CASE StoreRegistry(h)
      <3>1. /\ hpc[h] = "store" /\ registry' = Append(copy[h], mine[h])
            /\ rank' = [rank EXCEPT ![mine[h]] = loads + 1] /\ loads' = loads + 1
            /\ copy' = [copy EXCEPT ![h] = << >>]
        BY <2>5 DEF StoreRegistry, RecordLoad, Return, At
      <3>2. mine[h] \in System /\ copy[h] \in Seq(System) /\ rank \in [System -> Nat]
        BY <1>0, <3>1 DEF FreshInv, Loading, TypeOK, System
      <3>3. rank'[mine[h]] = loads + 1
        BY <3>1, <3>2
      <3>4. rank[mine[h]] = 0
        BY <1>0, <3>1 DEF FreshInv, Loading
      <3>5. Ranked(copy[h], rank', loads)
        <4>1. \A s \in System : rank[s] \in 1 .. loads => rank'[s] = rank[s]
          BY <2>1
        <4>2. Ranked(copy[h], rank, loads)
          BY DEF RankInv
        <4>3. loads \in Nat /\ loads <= loads
          BY <2>1
        <4> QED
          BY <3>2, <4>1, <4>2, <4>3, RankKeeps
      <3>6. Ranked(registry', rank', loads')
        BY <2>1, <3>1, <3>2, <3>3, <3>5, RankAppends
      <3>7. \A g \in Hosts : Ranked(copy'[g], rank', loads')
        BY <1>0, <1>e, <2>3, <3>1 DEF TypeOK
      <3> QED
        BY <2>4, <3>6, <3>7 DEF RankInv
    <2>6. CASE ~StoreRegistry(h)
      <3>1. registry' = registry \/ registry' = << >>
        BY <1>2, <2>6 DEF HostStep, OpenLibrary, InitSystem, CopyRegistry, ReplaceImage,
                          UnloadImage, ClearSystems
      <3>2. \A g \in Hosts : copy'[g] \in {copy[g], registry, << >>}
        BY <1>0, <1>2, <2>6 DEF HostStep, OpenLibrary, InitSystem, CopyRegistry, ReplaceImage,
                          UnloadImage, ClearSystems, Return, TypeOK
      <3> QED
        BY <1>e, <2>3, <2>4, <3>1, <3>2 DEF RankInv
    <2> QED
      BY <2>5, <2>6
  <1>3. ASSUME NEW t \in Tickers, TickStep(t) PROVE RankInv'
    <2>1. UNCHANGED <<registry, copy, rank, loads>>
      BY <1>3, TickFrame
    <2>2. \A u \in Tickers : list'[u] \in {list[u], registry, << >>}
      BY <1>0, <1>3 DEF TickStep, PinImage, LoadList, SkipTainted, CheckSystem, BeginCall,
                        CallReturns, CallOffends, StoreTaint, EndTick, TypeOK
    <2> QED
      BY <1>e, <2>1, <2>2 DEF RankInv
  <1> QED
    BY <1>1, <1>2, <1>3 DEF Next

\* The calls of a walk are ranked, and before what is ahead of it.
LEMMA CallsKeep ==
  ASSUME NEW c \in Seq(Call), NEW v \in Seq(System), NEW k \in Nat, NEW r, NEW q,
         NEW m \in Nat, NEW n \in Nat, m <= n,
         \A s \in System : r[s] \in 1 .. m => q[s] = r[s],
         Ranked(v, r, m), CallsRanked(c, v, k, r, m)
  PROVE  CallsRanked(c, v, k, q, n)
  <1>1. \A i \in DOMAIN c : c[i].system \in System
    <2> SUFFICES ASSUME NEW i \in DOMAIN c PROVE c[i].system \in System
      OBVIOUS
    <2>1. c[i] \in Call
      BY LenProperties, ElementOfSeq
    <2> QED
      BY <2>1 DEF Call
  <1>2. \A i \in DOMAIN v : v[i] \in System
    BY LenProperties
  <1>3. \A i \in DOMAIN c : q[c[i].system] = r[c[i].system] /\ q[c[i].system] \in 1 .. m
    BY <1>1 DEF CallsRanked
  <1>4. \A i \in DOMAIN v : q[v[i]] = r[v[i]]
    BY <1>2 DEF Ranked
  <1>5. \A i \in DOMAIN c : q[c[i].system] \in 1 .. n
    BY <1>3
  <1> QED
    BY <1>3, <1>4, <1>5 DEF CallsRanked

LEMMA CallsStep == TypeInv /\ RankInv /\ CallsInv /\ SliceInv /\ [Next]_vars => CallsInv'
  <1> SUFFICES ASSUME TypeInv, RankInv, CallsInv, SliceInv, [Next]_vars PROVE CallsInv'
    OBVIOUS
  <1> USE DEF Goes, registryVars, hostVars, tickVars, history, initHistory, loadHistory
  <1>0. TypeOK /\ WalkInv
    BY DEF TypeInv
  <1>1. CASE UNCHANGED vars
    BY <1>1 DEF vars, CallsInv, Ahead, Calling
  <1>2. ASSUME NEW h \in Hosts, HostStep(h) PROVE CallsInv'
    <2>1. /\ loads \in Nat /\ loads' \in Nat /\ loads <= loads'
          /\ \A s \in System : rank[s] \in 1 .. loads => rank'[s] = rank[s]
      BY <1>2, RankFrame
    <2>2. UNCHANGED tickVars
      BY <1>2, HostFrame
    <2>3. ASSUME NEW t \in Tickers
          PROVE  CallsRanked(called[t], list[t], Ahead(t), rank', loads')
      <3>1. /\ called[t] \in Seq(Call) /\ list[t] \in Seq(System) /\ Ahead(t) \in Nat
            /\ Ranked(list[t], rank, loads)
            /\ CallsRanked(called[t], list[t], Ahead(t), rank, loads)
        BY <1>0 DEF TypeOK, Ahead, RankInv, CallsInv
      <3> QED
        BY <2>1, <3>1, CallsKeep
    <2> QED
      BY <2>2, <2>3 DEF CallsInv, Ahead, Calling
  <1>3. ASSUME NEW t \in Tickers, TickStep(t) PROVE CallsInv'
    <2>0. UNCHANGED <<registry, rank, loads>>
      BY <1>3, TickFrame
    <2>1. \A u \in Tickers \ {t} : /\ called'[u] = called[u] /\ list'[u] = list[u]
                                   /\ Ahead(u)' = Ahead(u)
      BY <1>0, <1>3 DEF TickStep, PinImage, LoadList, SkipTainted, CheckSystem, BeginCall,
                        CallReturns, CallOffends, StoreTaint, EndTick, TypeOK, Ahead, Calling
    <2>2. ASSUME CallsRanked(called'[t], list'[t], Ahead(t)', rank, loads) PROVE CallsInv'
      BY <2>0, <2>1, <2>2 DEF CallsInv
    <2>3. \A v, k : CallsRanked(<< >>, v, k, rank, loads)
      BY EmptySeq DEF CallsRanked
    <2>4. CallsRanked(called[t], list[t], Ahead(t), rank, loads)
      BY DEF CallsInv
    <2>5. called[t] \in Seq(Call) /\ list[t] \in Seq(System) /\ next[t] \in Nat
      BY <1>0 DEF TypeOK
    <2>6. CASE PinImage(t) \/ LoadList(t)
      BY <1>0, <2>2, <2>3, <2>6 DEF PinImage, LoadList, TypeOK, WalkInv
    <2>7. CASE SkipTainted(t)
      <3>1. called'[t] = called[t] /\ list'[t] = list[t] /\ Ahead(t) = next[t]
            /\ Ahead(t)' = next[t] + 1
        BY <1>0, <2>7 DEF SkipTainted, Walking, Ahead, Calling, TypeOK
      <3>2. \A l \in DOMAIN list[t] : l \in Nat
        BY <2>5, LenProperties
      <3>3. CallsRanked(called[t], list[t], next[t] + 1, rank, loads)
        BY <2>4, <2>5, <3>1, <3>2 DEF CallsRanked
      <3> QED
        BY <2>2, <3>1, <3>3
    <2>8. CASE CheckSystem(t) \/ CallOffends(t) \/ StoreTaint(t)
      <3>1. called'[t] = called[t] /\ list'[t] = list[t]
        BY <2>8 DEF CheckSystem, CallOffends, StoreTaint
      <3>2. Ahead(t)' = Ahead(t)
        BY <1>0, <2>8 DEF CheckSystem, CallOffends, StoreTaint, Walking, Ahead, Calling, TypeOK
      <3> QED
        BY <2>2, <2>4, <3>1, <3>2
    <2>9. CASE BeginCall(t)
      <3> DEFINE e == [system |-> Current(t), from |-> base[t], count |-> 0]
                 d == Append(called[t], e)
      <3>1. /\ Current(t) \in System /\ next[t] \in DOMAIN list[t]
            /\ next[t] <= Len(list[t])
        BY <2>9, CurrentIsSystem DEF BeginCall, TypeInv, WalkInv
      <3>2. e \in Call
        BY <1>0, <3>1, NewCall DEF TypeOK
      <3>3. /\ DOMAIN d = 1 .. Len(called[t]) + 1 /\ DOMAIN called[t] = 1 .. Len(called[t])
            /\ Len(called[t]) \in Nat
            /\ \A i \in 1 .. Len(called[t]) : d[i] = called[t][i]
            /\ d[Len(called[t]) + 1] = e
        BY <2>5, <3>2, AppendElements
      <3>4. e.system = list[t][next[t]]
        BY DEF Current
      <3>5. /\ called'[t] = d /\ list'[t] = list[t]
            /\ Ahead(t) = next[t] /\ Ahead(t)' = next[t] + 1
        BY <1>0, <2>9 DEF BeginCall, Ahead, Calling, TypeOK
      <3> HIDE DEF d, e
      <3>6. /\ \A l \in DOMAIN list[t] : l \in Nat /\ rank[list[t][l]] \in 1 .. loads
            /\ \A l \in DOMAIN list[t] : l > next[t] => rank[list[t][next[t]]] < rank[list[t][l]]
        BY <2>5, <3>1, LenProperties DEF RankInv, Ranked
      <3>7. \A i \in DOMAIN called[t] : rank[called[t][i].system] < rank[list[t][next[t]]]
        BY SMTT(20), <2>4, <2>5, <3>1, <3>5 DEF CallsRanked
      <3>8. \A i \in DOMAIN d : rank[d[i].system] \in 1 .. loads
        <4> SUFFICES ASSUME NEW i \in DOMAIN d PROVE rank[d[i].system] \in 1 .. loads
          OBVIOUS
        <4>1. CASE i \in 1 .. Len(called[t])
          BY <2>4, <3>3, <4>1 DEF CallsRanked
        <4>2. CASE i = Len(called[t]) + 1
          BY <3>1, <3>3, <3>4, <3>6, <4>2
        <4> QED
          BY <3>3, <4>1, <4>2
      <3>9. ASSUME NEW i \in DOMAIN d, NEW j \in DOMAIN d, i < j
            PROVE  rank[d[i].system] < rank[d[j].system]
        <4>1. i \in 1 .. Len(called[t])
              /\ (j \in 1 .. Len(called[t]) \/ j = Len(called[t]) + 1)
          BY <3>3, <3>9
        <4>2. CASE j \in 1 .. Len(called[t])
          BY <2>4, <3>3, <3>9, <4>1, <4>2 DEF CallsRanked
        <4>3. CASE j = Len(called[t]) + 1
          BY <3>3, <3>4, <3>7, <4>1, <4>3
        <4> QED
          BY <4>1, <4>2, <4>3
      <3>10. ASSUME NEW i \in DOMAIN d, NEW l \in DOMAIN list[t], l >= next[t] + 1
             PROVE  rank[d[i].system] < rank[list[t][l]]
        <4>1. l \in Nat /\ l > next[t] /\ l >= next[t]
          BY <2>5, <3>6, <3>10
        <4>2. CASE i \in 1 .. Len(called[t])
          BY <2>4, <3>3, <3>5, <4>1, <4>2 DEF CallsRanked
        <4>3. CASE i = Len(called[t]) + 1
          BY <3>3, <3>4, <3>6, <4>1, <4>3
        <4> QED
          BY <3>3, <4>2, <4>3
      <3>11. CallsRanked(d, list[t], next[t] + 1, rank, loads)
        BY <3>8, <3>9, <3>10 DEF CallsRanked
      <3> QED
        BY <2>2, <3>5, <3>11
    <2>10. CASE CallReturns(t)
      <3>1. PICK n \in 0 .. Capacity - base[t] :
              /\ base' = [base EXCEPT ![t] = @ + n]
              /\ called' = [called EXCEPT ![t][Len(called[t])].count = n]
        BY <2>10 DEF CallReturns
      <3> DEFINE d == [called[t] EXCEPT ![Len(called[t])].count = n]
      <3>2. /\ called[t] # << >> /\ Sliced(called[t])
            /\ called[t][Len(called[t])].count = 0 /\ base[t] = EndOf(called[t])
            /\ base[t] \in 0 .. Capacity
        BY <1>0, <2>10 DEF CallReturns, TypeOK, WalkInv, Calling, SliceInv
      <3>3. DOMAIN d = DOMAIN called[t] /\ \A i \in DOMAIN d : d[i].system = called[t][i].system
        BY <2>5, <3>2, ReturnSlice
      <3>4. called'[t] = d
        BY <1>0, <3>1 DEF TypeOK
      <3>5. list'[t] = list[t] /\ Ahead(t)' = Ahead(t)
        BY <1>0, <2>10 DEF CallReturns, Ahead, Calling, TypeOK
      <3> HIDE DEF d
      <3>6. CallsRanked(d, list[t], Ahead(t), rank, loads)
        BY <2>4, <3>3 DEF CallsRanked
      <3> QED
        BY <2>2, <3>4, <3>5, <3>6
    <2>11. CASE EndTick(t)
      <3>1. called'[t] = << >>
        BY <1>0, <2>11 DEF EndTick, TypeOK
      <3> QED
        BY <2>2, <2>3, <3>1
    <2> QED
      BY <1>3, <2>6, <2>7, <2>8, <2>9, <2>10, <2>11 DEF TickStep
  <1> QED
    BY <1>1, <1>2, <1>3 DEF Next

-----------------------------------------------------------------------------
\* A system moves on only when it has been prepared, and stays so.
LEMMA PreparedStep == TypeInv /\ PreparedInv /\ SliceInv /\ [Next]_vars => PreparedInv'
  <1> SUFFICES ASSUME TypeInv, PreparedInv, SliceInv, [Next]_vars PROVE PreparedInv'
    OBVIOUS
  <1> USE DEF At, Goes, registryVars, hostVars, tickVars, history, initHistory, loadHistory,
              OnlyEarlyUninitialised
  <1>0. TypeOK /\ FreshInv /\ WalkInv
    BY DEF TypeInv
  <1>e. Elements(<< >>) = {}
    BY EmptySeq DEF Elements
  <1>1. CASE UNCHANGED vars
    BY <1>1 DEF vars, PreparedInv, Prepared
  <1>2. ASSUME NEW h \in Hosts, HostStep(h) PROVE PreparedInv'
    <2>0. UNCHANGED tickVars
      BY <1>2, HostFrame
    <2>1. ASSUME UNCHANGED <<initialised, early>>,
                 Elements(registry') \subseteq Prepared,
                 \A g \in Hosts : Elements(copy'[g]) \subseteq Prepared,
                 \A g \in Hosts : hpc'[g] \in {"copy", "store"} => mine'[g] \in Prepared
          PROVE  PreparedInv'
      BY <2>0, <2>1 DEF PreparedInv, Prepared
    <2>2. CASE OpenLibrary(h)
      BY <1>0, <2>1, <2>2 DEF OpenLibrary, TypeOK, PreparedInv
    <2>3. CASE InitSystem(h)
      <3>1. Prepared \subseteq Prepared'
        BY <2>3 DEF InitSystem, Prepared
      <3>2. registry' = registry /\ \A g \in Hosts : copy'[g] \in {copy[g], << >>}
        BY <1>0, <2>3 DEF InitSystem, Return, TypeOK
      <3>3. \A g \in Hosts : hpc'[g] \in {"copy", "store"} => mine'[g] \in Prepared'
        <4> SUFFICES ASSUME NEW g \in Hosts, hpc'[g] \in {"copy", "store"}
                     PROVE  mine'[g] \in Prepared'
          OBVIOUS
        <4>1. CASE g = h
          BY <1>0, <2>3, <4>1 DEF InitSystem, TypeOK, Prepared
        <4>2. CASE g # h
          <5>1. mine'[g] = mine[g] /\ hpc'[g] = hpc[g]
            BY <1>0, <2>3, <4>2 DEF InitSystem, Return, TypeOK
          <5> QED
            BY <3>1, <5>1 DEF PreparedInv
        <4> QED
          BY <4>1, <4>2
      <3>4. \A g \in Hosts : Elements(copy'[g]) \subseteq Prepared'
        BY <1>e, <3>1, <3>2 DEF PreparedInv
      <3>5. Elements(registry') \subseteq Prepared'
        BY <3>1, <3>2 DEF PreparedInv
      <3>6. \A t \in Tickers : Elements(list[t]) \subseteq Prepared'
        BY <3>1 DEF PreparedInv
      <3>7. \A t \in Tickers : \A i \in DOMAIN called[t] :
              called[t][i].system \in Prepared'
        BY <3>1 DEF PreparedInv, Prepared
      <3> QED
        BY <2>0, <3>3, <3>4, <3>5, <3>6, <3>7 DEF PreparedInv, Prepared
    <2>4. CASE CopyRegistry(h)
      BY <1>0, <2>1, <2>4 DEF CopyRegistry, TypeOK, PreparedInv
    <2>5. CASE StoreRegistry(h)
      <3>1. copy[h] \in Seq(System) /\ mine[h] \in System /\ mine[h] \in Prepared
        BY <1>0, <2>5 DEF StoreRegistry, TypeOK, FreshInv, Loading, System, PreparedInv
      <3>2. Elements(registry') \subseteq Prepared
        BY <2>5, <3>1, AppendElements DEF StoreRegistry, PreparedInv
      <3>3. \A g \in Hosts : copy'[g] \in {copy[g], << >>}
        BY <1>0, <2>5 DEF StoreRegistry, Return, TypeOK
      <3>4. \A g \in Hosts : hpc'[g] \in {"copy", "store"} => mine'[g] = mine[g] /\ hpc'[g] = hpc[g]
        BY <1>0, <2>5 DEF StoreRegistry, Return, TypeOK
      <3>5. UNCHANGED <<initialised, early>>
        BY <2>5 DEF StoreRegistry
      <3> QED
        BY <1>e, <2>1, <3>2, <3>3, <3>4, <3>5 DEF PreparedInv
    <2>6. CASE ReplaceImage(h)
      BY <2>1, <2>6 DEF ReplaceImage, PreparedInv
    <2>7. CASE UnloadImage(h)
      BY <1>0, <2>1, <2>7 DEF UnloadImage, TypeOK, PreparedInv
    <2>8. CASE ClearSystems(h)
      <3>1. \A g \in Hosts : copy'[g] \in {copy[g], << >>}
        BY <1>0, <2>8 DEF ClearSystems, Return, TypeOK
      <3>2. \A g \in Hosts : hpc'[g] \in {"copy", "store"} => mine'[g] = mine[g] /\ hpc'[g] = hpc[g]
        BY <1>0, <2>8 DEF ClearSystems, Return, TypeOK
      <3>3. registry' = << >> /\ UNCHANGED <<initialised, early>>
        BY <2>8 DEF ClearSystems
      <3> QED
        BY <1>e, <2>1, <3>1, <3>2, <3>3 DEF PreparedInv
    <2> QED
      BY <1>2, <2>2, <2>3, <2>4, <2>5, <2>6, <2>7, <2>8 DEF HostStep
  <1>3. ASSUME NEW t \in Tickers, TickStep(t) PROVE PreparedInv'
    <2>0. UNCHANGED <<registry, hpc, mine, copy, initialised, early>>
      BY <1>3, TickFrame
    <2>1. \A u \in Tickers : list'[u] \in {list[u], registry, << >>}
      BY <1>0, <1>3 DEF TickStep, PinImage, LoadList, SkipTainted, CheckSystem, BeginCall,
                        CallReturns, CallOffends, StoreTaint, EndTick, TypeOK
    <2>2. \A u \in Tickers : Elements(list'[u]) \subseteq Prepared
      BY <1>e, <2>1 DEF PreparedInv
    <2>3. ASSUME \A u \in Tickers : \A i \in DOMAIN called'[u] : called'[u][i].system \in Prepared
          PROVE  PreparedInv'
      BY <2>0, <2>2, <2>3 DEF PreparedInv, Prepared
    <2>4. \A u \in Tickers : \A i \in DOMAIN called[u] : called[u][i].system \in Prepared
      BY DEF PreparedInv, Prepared
    <2>5. CASE PinImage(t) \/ LoadList(t) \/ SkipTainted(t) \/ CheckSystem(t)
               \/ CallOffends(t) \/ StoreTaint(t)
      <3>1. called' = called
        BY <2>5 DEF PinImage, LoadList, SkipTainted, CheckSystem, CallOffends, StoreTaint
      <3> QED
        BY <2>3, <2>4, <3>1
    <2>6. CASE BeginCall(t)
      <3> DEFINE e == [system |-> Current(t), from |-> base[t], count |-> 0]
                 d == Append(called[t], e)
      <3>1. Current(t) \in System /\ Current(t) \in Elements(list[t])
        BY <2>6, CurrentIsSystem DEF BeginCall, TypeInv, WalkInv
      <3>2. e \in Call /\ called[t] \in Seq(Call)
        BY <1>0, <3>1, NewCall DEF TypeOK
      <3>3. /\ DOMAIN d = 1 .. Len(called[t]) + 1 /\ DOMAIN called[t] = 1 .. Len(called[t])
            /\ Len(called[t]) \in Nat
            /\ \A i \in 1 .. Len(called[t]) : d[i] = called[t][i]
            /\ d[Len(called[t]) + 1] = e
        BY <3>2, AppendElements
      <3>4. e.system \in Prepared
        BY <3>1 DEF PreparedInv
      <3>5. called' = [called EXCEPT ![t] = d]
        BY <2>6 DEF BeginCall
      <3> HIDE DEF d, e
      <3>6. \A i \in DOMAIN d : d[i].system \in Prepared
        <4> SUFFICES ASSUME NEW i \in DOMAIN d PROVE d[i].system \in Prepared
          OBVIOUS
        <4>1. i \in 1 .. Len(called[t]) \/ i = Len(called[t]) + 1
          BY <3>3
        <4> QED
          BY <2>4, <3>3, <3>4, <4>1
      <3>7. called'[t] = d /\ \A u \in Tickers \ {t} : called'[u] = called[u]
        BY <1>0, <3>5 DEF TypeOK
      <3> QED
        BY <2>3, <2>4, <3>6, <3>7
    <2>7. CASE CallReturns(t)
      <3>1. PICK n \in 0 .. Capacity - base[t] :
              /\ base' = [base EXCEPT ![t] = @ + n]
              /\ called' = [called EXCEPT ![t][Len(called[t])].count = n]
        BY <2>7 DEF CallReturns
      <3> DEFINE d == [called[t] EXCEPT ![Len(called[t])].count = n]
      <3>2. /\ called[t] \in Seq(Call) /\ called[t] # << >> /\ Sliced(called[t])
            /\ called[t][Len(called[t])].count = 0 /\ base[t] = EndOf(called[t])
            /\ base[t] \in 0 .. Capacity
        BY <1>0, <2>7 DEF CallReturns, TypeOK, WalkInv, Calling, SliceInv
      <3>3. DOMAIN d = DOMAIN called[t] /\ \A i \in DOMAIN d : d[i].system = called[t][i].system
        BY <3>2, ReturnSlice
      <3>4. called'[t] = d /\ \A u \in Tickers \ {t} : called'[u] = called[u]
        BY <1>0, <3>1 DEF TypeOK
      <3> HIDE DEF d
      <3> QED
        BY <2>3, <2>4, <3>3, <3>4
    <2>8. CASE EndTick(t)
      <3>1. called'[t] = << >> /\ \A u \in Tickers \ {t} : called'[u] = called[u]
        BY <1>0, <2>8 DEF EndTick, TypeOK
      <3> QED
        BY <2>3, <2>4, <3>1, EmptySeq
    <2> QED
      BY <1>3, <2>5, <2>6, <2>7, <2>8 DEF TickStep
  <1> QED
    BY <1>1, <1>2, <1>3 DEF Next

\* A flag, once set, stays set, and an offender's is set by whom it offended on.
LEMMA TaintStep == TypeInv /\ TaintInv /\ [Next]_vars => TaintInv'
  <1> SUFFICES ASSUME TypeInv, TaintInv, [Next]_vars PROVE TaintInv'
    OBVIOUS
  <1> USE DEF Goes, tickVars, history
  <1>0. TypeOK
    BY DEF TypeInv
  <1>1. CASE UNCHANGED vars
    BY <1>1 DEF vars, registryVars, TaintInv, Current
  <1>2. ASSUME NEW h \in Hosts, HostStep(h) PROVE TaintInv'
    <2>1. UNCHANGED <<tickVars, offenders>>
      BY <1>2, HostFrame
    <2>2. UNCHANGED tainted
      BY <1>2 DEF HostStep, OpenLibrary, InitSystem, CopyRegistry, StoreRegistry,
                  ReplaceImage, UnloadImage, ClearSystems, registryVars
    <2> QED
      BY <2>1, <2>2 DEF TaintInv, Current
  <1>3. ASSUME NEW t \in Tickers, TickStep(t) PROVE TaintInv'
    <2>1. \A u \in Tickers \ {t} : tpc'[u] = tpc[u] /\ Current(u)' = Current(u)
      BY <1>0, <1>3 DEF TickStep, PinImage, LoadList, SkipTainted, CheckSystem, BeginCall,
                        CallReturns, CallOffends, StoreTaint, EndTick, TypeOK, Current
    <2>2. CASE StoreTaint(t)
      <3>1. /\ tainted' = tainted \cup {Current(t)} /\ offenders' = offenders
        BY <2>2 DEF StoreTaint
      <3> QED
        BY <2>1, <3>1 DEF TaintInv
    <2>3. CASE CallOffends(t)
      <3>1. /\ offenders' = offenders \cup {Current(t)} /\ UNCHANGED <<tainted, list, next>>
            /\ tpc'[t] = "taint"
        BY <1>0, <2>3 DEF CallOffends, registryVars, TypeOK
      <3>2. Current(t)' = Current(t)
        BY <3>1 DEF Current
      <3>3. \A u \in Tickers : tpc[u] = "taint" => tpc'[u] = "taint" /\ Current(u)' = Current(u)
        BY <2>1, <3>1, <3>2
      <3> QED
        BY <3>1, <3>2, <3>3 DEF TaintInv
    <2>4. CASE ~StoreTaint(t) /\ ~CallOffends(t)
      <3>1. UNCHANGED <<tainted, offenders>> /\ tpc[t] # "taint"
        BY <1>3, <2>4 DEF TickStep, PinImage, LoadList, SkipTainted, CheckSystem, BeginCall,
                        CallReturns, EndTick, Walking, registryVars
      <3> QED
        BY <2>1, <3>1 DEF TaintInv
    <2> QED
      BY <2>2, <2>3, <2>4
  <1> QED
    BY <1>1, <1>2, <1>3 DEF Next

\* What a host stores differs from what is owed by systems that were exposed.
LEMMA CrossStep == TypeInv /\ CrossInv /\ [Next]_vars => CrossInv'
  <1> SUFFICES ASSUME TypeInv, CrossInv, [Next]_vars PROVE CrossInv'
    OBVIOUS
  <1> USE DEF At, registryVars, hostVars, history, loadHistory, OnlyCrossedAreLost
  <1>0. TypeOK /\ FreshInv
    BY DEF TypeInv
  <1>e. Elements(<< >>) = {}
    BY EmptySeq DEF Elements
  <1>1. CASE UNCHANGED vars
    BY <1>1 DEF vars, CrossInv
  <1>2. ASSUME NEW h \in Hosts, HostStep(h) PROVE CrossInv'
    <2>1. \A g \in Hosts \ {h} : hpc'[g] = hpc[g] /\ copy'[g] = copy[g]
      BY <1>0, <1>2 DEF HostStep, OpenLibrary, InitSystem, CopyRegistry, StoreRegistry,
                        ReplaceImage, UnloadImage, ClearSystems, Return, TypeOK
    <2>2. CASE StoreRegistry(h)
      <3>1. copy[h] \in Seq(System) /\ mine[h] \in System /\ hpc[h] = "store"
        BY <1>0, <2>2 DEF StoreRegistry, FreshInv, Loading, TypeOK, System
      <3>2. Elements(registry') = Elements(copy[h]) \cup {mine[h]}
        BY <2>2, <3>1, AppendElements DEF StoreRegistry
      <3>3. /\ owed' = owed \cup {mine[h]}
            /\ exposed' = exposed \cup {s \in {mine[h]} : Crossed(h)}
        BY <2>2 DEF StoreRegistry, RecordLoad
      <3>4. OnlyCrossedAreLost'
        BY <3>1, <3>2, <3>3 DEF CrossInv
      <3>5. hpc'[h] = "idle"
        BY <1>0, <2>2 DEF StoreRegistry, TypeOK
      <3>6. ASSUME NEW g \in Hosts, hpc'[g] = "store"
            PROVE  /\ Elements(copy'[g]) \ owed' \subseteq exposed'
                   /\ owed' \ Elements(copy'[g]) \subseteq exposed'
        <4>1. g # h /\ hpc[g] = "store" /\ copy'[g] = copy[g]
          BY <2>1, <3>5, <3>6
        <4>2. mine[h] \in exposed'
          BY <3>3, <4>1 DEF Crossed
        <4> QED
          BY <3>3, <4>1, <4>2 DEF CrossInv
      <3> QED
        BY <3>4, <3>6 DEF CrossInv
    <2>3. CASE ClearSystems(h)
      <3>1. /\ registry' = << >> /\ owed' = {}
            /\ exposed' = exposed \cup {s \in owed : Crossed(h)}
        BY <2>3 DEF ClearSystems
      <3>2. hpc'[h] = "idle"
        BY <1>0, <2>3 DEF ClearSystems, TypeOK
      <3>3. ASSUME NEW g \in Hosts, hpc'[g] = "store"
            PROVE  /\ Elements(copy'[g]) \ owed' \subseteq exposed'
                   /\ owed' \ Elements(copy'[g]) \subseteq exposed'
        <4>1. g # h /\ hpc[g] = "store" /\ copy'[g] = copy[g]
          BY <2>1, <3>2, <3>3
        <4>2. owed \subseteq exposed'
          BY <3>1, <4>1 DEF Crossed
        <4> QED
          BY <3>1, <4>1, <4>2 DEF CrossInv
      <3> QED
        BY <1>e, <3>1, <3>3 DEF CrossInv
    <2>4. CASE CopyRegistry(h)
      <3>1. UNCHANGED <<registry, owed, exposed>> /\ copy'[h] = registry
        BY <1>0, <2>4 DEF CopyRegistry, TypeOK
      <3> QED
        BY <2>1, <3>1 DEF CrossInv
    <2>5. CASE OpenLibrary(h) \/ InitSystem(h) \/ ReplaceImage(h) \/ UnloadImage(h)
      <3>1. UNCHANGED <<registry, owed, exposed>> /\ (hpc'[h] = "store" => hpc[h] = "store")
            /\ (hpc'[h] = "store" => copy'[h] = copy[h])
        BY <1>0, <2>5 DEF OpenLibrary, InitSystem, ReplaceImage, UnloadImage, TypeOK
      <3> QED
        BY <2>1, <3>1 DEF CrossInv
    <2> QED
      BY <1>2, <2>2, <2>3, <2>4, <2>5 DEF HostStep
  <1>3. ASSUME NEW t \in Tickers, TickStep(t) PROVE CrossInv'
    <2>1. UNCHANGED <<registry, hpc, copy, owed, exposed>>
      BY <1>3, TickFrame
    <2> QED
      BY <2>1 DEF CrossInv
  <1> QED
    BY <1>1, <1>2, <1>3 DEF Next

LEMMA Invariance == Spec => []IInv
  <1>1. IInv /\ [Next]_vars => IInv'
    BY TypeStep, FreshStep, WalkStep, SliceStep, RankStep, CallsStep, PreparedStep,
       TaintStep, CrossStep
    DEF IInv, TypeInv
  <1> QED
    BY InitInvariant, <1>1, PTL DEF Spec

-----------------------------------------------------------------------------
\* Every variable keeps its range; in particular, whatever the systems of a tick
\* claim, together they never get more than the buffer.
THEOREM TypeCorrect == Spec => []TypeOK
  <1>1. IInv => TypeOK
    BY DEF IInv, TypeInv
  <1> QED
    BY <1>1, Invariance, PTL

\* A tick never calls a system whose init has failed, however many threads load
\* and tick.
THEOREM CalledIsPrepared == Spec => []OnlyEarlyUninitialised
  <1>1. IInv => OnlyEarlyUninitialised
    BY DEF IInv, PreparedInv
  <1> QED
    BY <1>1, Invariance, PTL

\* A system that has panicked or claimed too much passes no check before a call,
\* on any ticker and whichever copy of the registry it walks, unless the thread
\* it offended on is about to store its flag.
THEOREM TaintedForever == Spec => TaintIsForever
  <1> DEFINE P == \A t \in Tickers :
       tpc[t] = "walk" /\ tpc'[t] = "checked" /\ Current(t) \in offenders =>
         \E u \in Tickers : tpc[u] = "taint" /\ Current(u) = Current(t)
  <1>1. IInv /\ [Next]_vars => [P]_vars
    <2> SUFFICES ASSUME IInv, Next, NEW t \in Tickers, tpc[t] = "walk", tpc'[t] = "checked",
                        Current(t) \in offenders
                 PROVE  \E u \in Tickers : tpc[u] = "taint" /\ Current(u) = Current(t)
      BY DEF P
    <2>1. TypeOK /\ TaintInv
      BY DEF IInv, TypeInv
    <2>2. PICK u \in Tickers : TickStep(u)
      <3>1. \A h \in Hosts : ~HostStep(h)
        BY HostFrame DEF tickVars
      <3> QED
        BY <3>1 DEF Next
    <2>3. u = t /\ CheckSystem(t)
      BY <2>1, <2>2 DEF TickStep, PinImage, LoadList, SkipTainted, CheckSystem, BeginCall,
                        CallReturns, CallOffends, StoreTaint, EndTick, Goes, Walking, TypeOK
    <2>4. Current(t) \notin tainted
      BY <2>3 DEF CheckSystem
    <2> QED
      BY <2>1, <2>4 DEF TaintInv
  <1> QED
    BY <1>1, Invariance, PTL DEF Spec, TaintIsForever

\* However many threads load, clear and tick, a load that is lost, or a cleared
\* system that is back, was stored or cleared between another host's copy of the
\* registry and its store.
THEOREM LoadsAreKept == Spec => []OnlyCrossedAreLost
  <1>1. IInv => OnlyCrossedAreLost
    BY DEF IInv, CrossInv
  <1> QED
    BY <1>1, Invariance, PTL

\* Every tick calls systems once and in the order of their stores, in slices that
\* follow each other and end within the buffer, also while other threads clear
\* the registry and fill it again.
THEOREM CalledInOrder == Spec => []CalledInLoadOrder
  <1>1. IInv => CalledInLoadOrder
    BY DEF IInv, CallsInv, CallsRanked, SliceInv, Sliced, CalledInLoadOrder
  <1> QED
    BY <1>1, Invariance, PTL
=============================================================================
