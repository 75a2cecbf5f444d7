--------------------------- MODULE AllocatorProofs ---------------------------
(***************************************************************************)
(* Proofs about Allocator, for any threads, addresses and sizes: no        *)
(* sequence of calls, rightful or not, makes the engine give a block back  *)
(* twice or with a wrong layout, and callers that keep to what they hold   *)
(* lose nothing.                                                           *)
(***************************************************************************)
EXTENDS Allocator, SequenceTheorems, TLAPS

(***************************************************************************)
(* The inductive invariant.  A thread between the halves of a call has a   *)
(* block of its own that the registry does not list: MemInv.  What the     *)
(* engine is doing decides which of parts and bridge it has: PhaseInv.     *)
(* Without misuse every pointer has one owner - a caller, the engine, or   *)
(* the thread that is about to free it - and is registered: OwnInv.  The   *)
(* other way round, without misuse and as long as nobody has panicked in   *)
(* the registry, every allocated block is registered or some thread's, and *)
(* every registered pointer has an owner: KeepInv.                         *)
(***************************************************************************)
Busy(t) == pc[t] \in {"insert", "dealloc"}

MemInv ==
  /\ RegisteredIsLive
  /\ \A t \in Thread : pc[t] = "remove" => ptr[t] \in Address
  /\ \A t \in Thread : Busy(t) =>
       /\ ptr[t] \in Address /\ layout[t] \in Layout
       /\ heap[ptr[t]] = layout[t] /\ registry[ptr[t]] = None
  /\ \A t, u \in Thread : Busy(t) /\ Busy(u) /\ t # u => ptr[t] # ptr[u]

PhaseInv ==
  /\ phase = "idle" => parts = << >> /\ pc[Engine] = "idle"
  /\ phase # "idle" => bridge = << >>
  /\ phase # "build" => pc[Engine] # "insert"
  /\ bridge = << >> \/ Len(bridge) = 3
  /\ phase = "build" => Len(parts) <= 3
  /\ phase = "build" /\ pc[Engine] # "idle" =>
       Len(parts) < 3 /\ pc[Engine] = "insert"

OwnInv ==
  ~misuse =>
    /\ \A a \in held : registry[a] # None
    /\ \A k \in DOMAIN bridge : registry[bridge[k]] # None /\ bridge[k] \notin held
    /\ \A k \in DOMAIN parts : parts[k] # Null =>
         registry[parts[k]] # None /\ parts[k] \notin held
    /\ \A k, l \in DOMAIN bridge : k # l => bridge[k] # bridge[l]
    /\ \A k, l \in DOMAIN parts : k # l /\ parts[k] # Null => parts[k] # parts[l]
    /\ \A t \in Thread : pc[t] = "remove" =>
         /\ registry[ptr[t]] # None /\ ptr[t] \notin held
         /\ \A k \in DOMAIN bridge : bridge[k] # ptr[t]
         /\ \A k \in DOMAIN parts : parts[k] # ptr[t]
    /\ \A t, u \in Thread : pc[t] = "remove" /\ pc[u] = "remove" /\ t # u =>
         ptr[t] # ptr[u]

\* Someone holds the pointer, or is about to free it.
Owned(a) ==
  \/ a \in held
  \/ \E k \in DOMAIN bridge : bridge[k] = a
  \/ \E k \in DOMAIN parts : parts[k] = a
  \/ \E t \in Thread : pc[t] = "remove" /\ ptr[t] = a

KeepInv ==
  ~misuse /\ ~poisoned =>
    \A a \in Address :
      /\ heap[a] # None =>
           registry[a] # None \/ \E t \in Thread : Busy(t) /\ ptr[t] = a
      /\ registry[a] # None => Owned(a)

IInv == TypeOK /\ MemInv /\ PhaseInv /\ OwnInv /\ KeepInv

-----------------------------------------------------------------------------
\* What a call returns is filed with its caller.
LEMMA ReturnFiles ==
  ASSUME TypeOK, NEW t \in Thread, NEW a \in Address \cup {Null}, Return(t, a)
  PROVE  held' \subseteq Address /\ parts' \in Seq(Address \cup {Null})
  <1>1. CASE t = Engine
    <2>1. parts \in Seq(Address \cup {Null})
      BY DEF TypeOK
    <2>2. Append(parts, a) \in Seq(Address \cup {Null})
      BY <2>1
    <2> QED
      BY <1>1, <2>2 DEF Return, TypeOK
  <1>2. CASE t # Engine
    BY <1>2 DEF Return, TypeOK
  <1> QED
    BY <1>1, <1>2

\* A call that ends leaves its thread idle.
LEMMA LeaveIdles ==
  ASSUME TypeOK, NEW t \in Thread, NEW from, Leave(t, from)
  PROVE  /\ pc' \in [Thread -> {"idle", "insert", "remove", "dealloc"}]
         /\ ptr' \in [Thread -> Address \cup {Null}]
         /\ layout' \in [Thread -> Layout \cup {None}]
  BY DEF Leave, At, TypeOK

\* The initial state is in the invariant.
LEMMA InitInvariant == Init => IInv
  <1> SUFFICES ASSUME Init PROVE IInv
    OBVIOUS
  <1> USE DEF Init
  <1>1. TypeOK
    <2>1. parts \in Seq(Address \cup {Null}) /\ bridge \in Seq(Address)
      BY EmptySeq
    <2> QED
      BY <2>1 DEF TypeOK
  <1>2. MemInv
    BY DEF MemInv, Busy, RegisteredIsLive
  <1>3. PhaseInv
    BY DEF PhaseInv, Thread
  <1>4. OwnInv
    BY DEF OwnInv
  <1>5. KeepInv
    BY DEF KeepInv
  <1> QED
    BY <1>1, <1>2, <1>3, <1>4, <1>5 DEF IInv

\* Type correctness is kept by every step.
LEMMA TypeStep == TypeOK /\ PhaseInv /\ MemInv /\ [Next]_vars => TypeOK'
  <1> SUFFICES ASSUME TypeOK, PhaseInv, MemInv, [Next]_vars PROVE TypeOK'
    OBVIOUS
  <1> USE AllocatorAssumption DEF TypeOK, memoryVars, callVars, engineVars
  <1>1. CASE UNCHANGED vars
    BY <1>1 DEF vars
  <1>2. ASSUME NEW t \in Thread, Memory(t) PROVE TypeOK'
    <2>1. CASE Insert(t)
      <3>1. ptr[t] \in Address /\ layout[t] \in Layout
        BY <2>1 DEF Insert, Leave, At, MemInv, Busy
      <3>2. held' \subseteq Address /\ parts' \in Seq(Address \cup {Null})
        BY <2>1, <3>1, ReturnFiles DEF Insert
      <3> QED
        BY <2>1, <3>1, <3>2, LeaveIdles DEF Insert
    <2>2. CASE GiveBack(t)
      <3>1. held' \subseteq Address /\ parts' \in Seq(Address \cup {Null})
        BY <2>2, ReturnFiles DEF GiveBack
      <3> QED
        BY <2>2, <3>1, LeaveIdles DEF GiveBack
    <2>3. CASE Panic(t)
      BY <2>3, LeaveIdles DEF Panic
    <2>4. CASE Remove(t)
      BY <2>4 DEF Remove, At, MemInv
    <2>5. CASE Refuse(t)
      BY <2>5, LeaveIdles DEF Refuse
    <2>6. CASE Dealloc(t)
      BY <2>6, LeaveIdles DEF Dealloc
    <2> QED
      BY <1>2, <2>1, <2>2, <2>3, <2>4, <2>5, <2>6 DEF Memory
  <1>3. ASSUME NEW t \in Thread, NEW size \in Layout, Obtain(t, size) PROVE TypeOK'
    BY <1>3 DEF Obtain, At
  <1>4. ASSUME NEW t \in Thread, OutOfMemory(t) PROVE TypeOK'
    BY <1>4, ReturnFiles DEF OutOfMemory
  <1>5. ASSUME NEW t \in Thread, CallAlloc(t) PROVE TypeOK'
    <2>1. ASSUME NEW size \in Size, Obtain(t, size) PROVE TypeOK'
      BY <1>3, <2>1 DEF Layout
    <2> QED
      BY <1>4, <1>5, <2>1 DEF CallAlloc
  <1>6. ASSUME NEW t \in Thread, CallFree(t) PROVE TypeOK'
    BY <1>6 DEF CallFree, Begin, At
  <1>7. CASE AllocateBridge
    BY <1>7 DEF AllocateBridge
  <1>8. CASE AllocatePart
    BY <1>3, <1>4, <1>8 DEF AllocatePart, Layout, Thread
  <1>9. CASE FinishBuild
    <2>1. CASE Complete
      <3>1. parts \in Seq(Address)
        <4> DEFINE S == Address \cup {Null}
        <4>3. parts \in Seq(S)
          OBVIOUS
        <4> HIDE DEF S
        <4>4. parts \in [1 .. Len(parts) -> S]
          BY <4>3, LenProperties
        <4>1. parts \in [1 .. 3 -> Address \cup {Null}]
          BY <2>1, <4>4 DEF Complete, S
        <4>2. parts \in [1 .. 3 -> Address]
          BY <2>1, <4>1 DEF Complete
        <4>5. parts \in UNION {[1 .. n -> Address] : n \in Nat}
          BY <4>2
        <4> QED
          BY <4>5, SeqDef, Zenon
      <3> QED
        BY <1>9, <2>1, <3>1 DEF FinishBuild
    <2>2. CASE ~Complete
      BY <1>9, <2>2 DEF FinishBuild
    <2> QED
      BY <2>1, <2>2
  <1>10. CASE FreeBridge
    BY <1>10 DEF FreeBridge, PhaseInv
  <1>11. CASE FreePart
    BY <1>11 DEF FreePart, Begin, At
  <1>12. CASE EndRelease
    BY <1>12 DEF EndRelease
  <1> QED
    BY <1>1, <1>2, <1>5, <1>6, <1>7, <1>8, <1>9, <1>10, <1>11, <1>12
    DEF Next, Bridge

\* The registry and the blocks in between are kept by every step.
LEMMA MemStep == TypeOK /\ MemInv /\ [Next]_vars => MemInv'
  <1> SUFFICES ASSUME TypeOK, MemInv, [Next]_vars PROVE MemInv'
    OBVIOUS
  <1> USE AllocatorAssumption
      DEF TypeOK, MemInv, Busy, RegisteredIsLive, memoryVars, callVars, engineVars
  <1>1. CASE UNCHANGED vars
    BY <1>1 DEF vars
  <1>2. ASSUME NEW t \in Thread, Memory(t) PROVE MemInv'
    <2>1. CASE Insert(t)
      BY <2>1 DEF Insert, Leave, At
    <2>2. CASE GiveBack(t)
      BY <2>2 DEF GiveBack, Leave, At
    <2>3. CASE Panic(t)
      BY <2>3 DEF Panic, Leave, At
    <2>4. CASE Remove(t)
      BY <2>4 DEF Remove, At
    <2>5. CASE Refuse(t)
      BY <2>5 DEF Refuse, Leave, At
    <2>6. CASE Dealloc(t)
      BY <2>6 DEF Dealloc, Leave, At
    <2> QED
      BY <1>2, <2>1, <2>2, <2>3, <2>4, <2>5, <2>6 DEF Memory
  <1>3. ASSUME NEW t \in Thread, NEW size \in Layout, Obtain(t, size) PROVE MemInv'
    BY <1>3 DEF Obtain, At
  <1>4. ASSUME NEW t \in Thread, OutOfMemory(t) PROVE MemInv'
    BY <1>4 DEF OutOfMemory
  <1>5. ASSUME NEW t \in Thread, CallAlloc(t) PROVE MemInv'
    <2>1. ASSUME NEW size \in Size, Obtain(t, size) PROVE MemInv'
      BY <1>3, <2>1 DEF Layout
    <2> QED
      BY <1>4, <1>5, <2>1 DEF CallAlloc
  <1>6. ASSUME NEW t \in Thread, CallFree(t) PROVE MemInv'
    BY <1>6 DEF CallFree, Begin, At
  <1>7. CASE AllocateBridge
    BY <1>7 DEF AllocateBridge
  <1>8. CASE AllocatePart
    BY <1>3, <1>4, <1>8 DEF AllocatePart, Layout, Thread
  <1>9. CASE FinishBuild
    BY <1>9 DEF FinishBuild
  <1>10. CASE FreeBridge
    BY <1>10 DEF FreeBridge
  <1>11. CASE FreePart
    <2>1. parts # << >> => Head(parts) \in Address \cup {Null}
      OBVIOUS
    <2> QED
      BY <1>11, <2>1 DEF FreePart, Begin, At
  <1>12. CASE EndRelease
    BY <1>12 DEF EndRelease
  <1> QED
    BY <1>1, <1>2, <1>5, <1>6, <1>7, <1>8, <1>9, <1>10, <1>11, <1>12
    DEF Next, Bridge

\* What the engine does next, and with what, is kept by every step.
LEMMA PhaseStep == TypeOK /\ PhaseInv /\ [Next]_vars => PhaseInv'
  <1> SUFFICES ASSUME TypeOK, PhaseInv, [Next]_vars PROVE PhaseInv'
    OBVIOUS
  <1> USE AllocatorAssumption DEF PhaseInv, memoryVars, callVars, engineVars
  <1>0. pc[Engine] \in {"idle", "insert", "remove", "dealloc"}
    BY DEF TypeOK, Thread
  <1>1. CASE UNCHANGED vars
    BY <1>1 DEF vars
  <1>2. ASSUME NEW t \in Thread, Memory(t) PROVE PhaseInv'
    <2> USE <1>0 DEF TypeOK, Thread
    <2>1. ASSUME NEW a \in Address \cup {Null}, Return(t, a), Leave(t, "insert"),
                 UNCHANGED <<phase, bridge>>
          PROVE  PhaseInv'
      <3>1. CASE t = Engine
        <4>1. phase = "build" /\ Len(parts) < 3
          BY <2>1, <3>1 DEF Leave, At
        <4>2. Len(parts') = Len(parts) + 1
          BY <2>1, <3>1, AppendProperties DEF Return
        <4>3. Len(parts) \in Nat
          BY LenProperties
        <4> QED
          BY <2>1, <3>1, <4>1, <4>2, <4>3 DEF Leave, At
      <3>2. CASE t # Engine
        BY <2>1, <3>2 DEF Leave, At, Return
      <3> QED
        BY <3>1, <3>2
    <2>2. CASE Insert(t)
      BY <2>1, <2>2 DEF Insert
    <2>3. CASE GiveBack(t)
      BY <2>1, <2>3 DEF GiveBack
    <2>4. CASE Panic(t)
      BY <2>4 DEF Panic, Leave, At
    <2>5. CASE Remove(t)
      BY <2>5 DEF Remove, At
    <2>6. CASE Refuse(t)
      BY <2>6 DEF Refuse, Leave, At
    <2>7. CASE Dealloc(t)
      BY <2>7 DEF Dealloc, Leave, At
    <2> QED
      BY <1>2, <2>2, <2>3, <2>4, <2>5, <2>6, <2>7 DEF Memory
  <1>3. ASSUME NEW t \in Callers, CallAlloc(t) PROVE PhaseInv'
    BY <1>3 DEF CallAlloc, Obtain, OutOfMemory, Return, At, TypeOK, Thread
  <1>4. ASSUME NEW t \in Callers, CallFree(t) PROVE PhaseInv'
    BY <1>4 DEF CallFree, Begin, At, TypeOK, Thread
  <1>5. CASE AllocateBridge
    <2>1. parts = << >> /\ Len(parts) = 0
      BY <1>5, EmptySeq DEF AllocateBridge
    <2> QED
      BY <1>5, <2>1 DEF AllocateBridge
  <1>6. CASE AllocatePart
    <2>1. CASE OutOfMemory(Engine)
      <3>1. Len(parts') = Len(parts) + 1
        BY <2>1, AppendProperties DEF OutOfMemory, Return, TypeOK
      <3>2. Len(parts) \in Nat
        BY LenProperties DEF TypeOK
      <3> QED
        BY <1>6, <2>1, <3>1, <3>2 DEF AllocatePart, OutOfMemory
    <2>2. CASE ~OutOfMemory(Engine)
      BY <1>6, <2>2 DEF AllocatePart, Obtain, At, TypeOK, Thread
    <2> QED
      BY <2>1, <2>2
  <1>7. CASE FinishBuild
    BY <1>7 DEF FinishBuild, Complete
  <1>8. CASE FreeBridge
    BY <1>8 DEF FreeBridge
  <1>9. CASE FreePart
    BY <1>9 DEF FreePart, Begin, At, TypeOK, Thread
  <1>10. CASE EndRelease
    BY <1>10 DEF EndRelease
  <1> QED
    BY <1>1, <1>2, <1>3, <1>4, <1>5, <1>6, <1>7, <1>8, <1>9, <1>10
    DEF Next, Bridge, CallAlloc, CallFree

\* A part that is got comes after those that are there.
LEMMA PartsAppended ==
  ASSUME TypeOK, NEW a \in Address \cup {Null}, parts' = Append(parts, a)
  PROVE  /\ Len(parts) \in Nat /\ DOMAIN parts = 1 .. Len(parts)
         /\ DOMAIN parts' = 1 .. Len(parts) + 1
         /\ \A k \in DOMAIN parts : parts'[k] = parts[k]
         /\ parts'[Len(parts) + 1] = a
  <1> DEFINE S == Address \cup {Null}
  <1>1. parts \in Seq(S) /\ a \in S
    BY DEF TypeOK
  <1> HIDE DEF S
  <1> QED
    BY <1>1, AppendProperties, LenProperties

\* A null that is filed is nobody's.
LEMMA NullAppended ==
  ASSUME TypeOK, parts' = Append(parts, Null)
  PROVE  \A k \in DOMAIN parts' : parts'[k] # Null =>
           k \in DOMAIN parts /\ parts'[k] = parts[k]
  <1>1. /\ Len(parts) \in Nat /\ DOMAIN parts = 1 .. Len(parts)
        /\ DOMAIN parts' = 1 .. Len(parts) + 1
        /\ \A k \in DOMAIN parts : parts'[k] = parts[k]
        /\ parts'[Len(parts) + 1] = Null
    BY PartsAppended
  <1> QED
    BY <1>1

\* That every pointer has one owner and is registered is kept by every step.
LEMMA OwnStep == TypeOK /\ MemInv /\ PhaseInv /\ OwnInv /\ [Next]_vars => OwnInv'
  <1> SUFFICES ASSUME TypeOK, MemInv, PhaseInv, OwnInv, [Next]_vars, ~misuse'
               PROVE  OwnInv'
    BY DEF OwnInv
  <1> USE AllocatorAssumption
      DEF TypeOK, OwnInv, memoryVars, callVars, engineVars
  <1>1. CASE UNCHANGED vars
    BY <1>1 DEF vars
  <1>2. ASSUME NEW t \in Thread, Memory(t) PROVE OwnInv'
    <2>1. CASE Insert(t)
      <3>1. ptr[t] \in Address /\ layout[t] # None /\ registry[ptr[t]] = None
        BY <2>1 DEF Insert, Leave, At, MemInv, Busy
      <3>2. CASE t = Engine
        <4>1. parts' = Append(parts, ptr[t]) /\ held' = held
          BY <2>1, <3>2 DEF Insert, Return
        <4>2. /\ Len(parts) \in Nat /\ DOMAIN parts = 1 .. Len(parts)
              /\ DOMAIN parts' = 1 .. Len(parts) + 1
              /\ \A k \in DOMAIN parts : parts'[k] = parts[k]
              /\ parts'[Len(parts) + 1] = ptr[t]
          BY <3>1, <4>1, PartsAppended
        <4> QED
          BY <2>1, <3>1, <3>2, <4>1, <4>2 DEF Insert, Leave, At
      <3>3. CASE t # Engine
        BY <2>1, <3>1, <3>3, LenProperties DEF Insert, Leave, At, Return
      <3> QED
        BY <3>2, <3>3
    <2>2. CASE GiveBack(t)
      <3>1. CASE t = Engine
        <4>1. parts' = Append(parts, Null) /\ held' = held
          BY <2>2, <3>1 DEF GiveBack, Return
        <4>2. \A k \in DOMAIN parts' : parts'[k] # Null =>
                k \in DOMAIN parts /\ parts'[k] = parts[k]
          BY <4>1, NullAppended
        <4>3. /\ ~misuse /\ registry' = registry /\ bridge' = bridge
              /\ \A u \in Thread : pc'[u] = "remove" =>
                   pc[u] = "remove" /\ ptr'[u] = ptr[u]
          BY <2>2 DEF GiveBack, Leave, At
        <4> HIDE DEF TypeOK
        <4>4. /\ \A k \in DOMAIN parts' : parts'[k] # Null =>
                   registry'[parts'[k]] # None /\ parts'[k] \notin held'
              /\ \A k, l \in DOMAIN parts' : k # l /\ parts'[k] # Null =>
                   parts'[k] # parts'[l]
          BY <4>1, <4>2, <4>3
        <4>5. \A u \in Thread : pc'[u] = "remove" =>
                \A k \in DOMAIN parts' : parts'[k] # ptr'[u]
          <5>1. \A u \in Thread : pc[u] = "remove" => ptr[u] # Null
            BY DEF MemInv
          <5> QED
            BY <4>1, <4>2, <4>3, <5>1
        <4> QED
          BY <4>1, <4>3, <4>4, <4>5
      <3>2. CASE t # Engine
        BY <2>2, <3>2 DEF GiveBack, Leave, At, Return
      <3> QED
        BY <3>1, <3>2
    <2>3. CASE Panic(t)
      BY <2>3 DEF Panic, Leave, At
    <2>4. CASE Remove(t)
      BY <2>4, LenProperties DEF Remove, At
    <2>5. CASE Refuse(t)
      BY <2>5 DEF Refuse, Leave, At
    <2>6. CASE Dealloc(t)
      BY <2>6 DEF Dealloc, Leave, At
    <2> QED
      BY <1>2, <2>1, <2>2, <2>3, <2>4, <2>5, <2>6 DEF Memory
  <1>3. ASSUME NEW t \in Thread, NEW size, Obtain(t, size) PROVE OwnInv'
    BY <1>3 DEF Obtain, At
  <1>4. ASSUME NEW t \in Thread, OutOfMemory(t) PROVE OwnInv'
    <2>1. CASE t = Engine
      <3>1. parts' = Append(parts, Null) /\ held' = held
        BY <1>4, <2>1 DEF OutOfMemory, Return
      <3>2. \A k \in DOMAIN parts' : parts'[k] # Null =>
              k \in DOMAIN parts /\ parts'[k] = parts[k]
        BY <3>1, NullAppended
      <3>3. /\ ~misuse /\ registry' = registry /\ bridge' = bridge
            /\ pc' = pc /\ ptr' = ptr
        BY <1>4 DEF OutOfMemory
      <3> HIDE DEF TypeOK
      <3>4. /\ \A k \in DOMAIN parts' : parts'[k] # Null =>
                 registry'[parts'[k]] # None /\ parts'[k] \notin held'
            /\ \A k, l \in DOMAIN parts' : k # l /\ parts'[k] # Null =>
                 parts'[k] # parts'[l]
        BY <3>1, <3>2, <3>3
      <3>5. \A u \in Thread : pc'[u] = "remove" =>
              \A k \in DOMAIN parts' : parts'[k] # ptr'[u]
        <4>1. \A u \in Thread : pc[u] = "remove" => ptr[u] # Null
          BY DEF MemInv
        <4> QED
          BY <3>1, <3>2, <3>3, <4>1
      <3> QED
        BY <3>1, <3>3, <3>4, <3>5
    <2>2. CASE t # Engine
      BY <1>4, <2>2 DEF OutOfMemory, Return
    <2> QED
      BY <2>1, <2>2
  <1>5. ASSUME NEW t \in Thread, CallAlloc(t) PROVE OwnInv'
    <2>1. ASSUME NEW size \in Size, Obtain(t, size) PROVE OwnInv'
      BY <1>3, <2>1
    <2> QED
      BY <1>4, <1>5, <2>1 DEF CallAlloc
  <1>6. ASSUME NEW t \in Thread, CallFree(t) PROVE OwnInv'
    <2>1. PICK a \in Address : Begin(t, a) /\ held' = held \ {a} /\ a \in held
      BY <1>6 DEF CallFree
    <2>2. /\ ~misuse /\ registry' = registry /\ bridge' = bridge /\ parts' = parts
          /\ pc' = [pc EXCEPT ![t] = "remove"] /\ ptr' = [ptr EXCEPT ![t] = a]
      BY <1>6, <2>1 DEF CallFree, Begin, At
    <2>3. \A u \in Thread : pc'[u] = "remove" =>
            \/ u = t /\ ptr'[u] = a
            \/ u # t /\ pc[u] = "remove" /\ ptr'[u] = ptr[u]
      BY <2>2
    <2> HIDE DEF TypeOK
    <2>4. /\ \A b \in held' : registry'[b] # None
          /\ \A k \in DOMAIN bridge' :
               registry'[bridge'[k]] # None /\ bridge'[k] \notin held'
          /\ \A k \in DOMAIN parts' : parts'[k] # Null =>
               registry'[parts'[k]] # None /\ parts'[k] \notin held'
      BY <2>1, <2>2
    <2>5. \A u \in Thread : pc'[u] = "remove" =>
            /\ registry'[ptr'[u]] # None /\ ptr'[u] \notin held'
            /\ \A k \in DOMAIN bridge' : bridge'[k] # ptr'[u]
            /\ \A k \in DOMAIN parts' : parts'[k] # ptr'[u]
      <3> SUFFICES ASSUME NEW u \in Thread, pc'[u] = "remove"
                   PROVE  /\ registry'[ptr'[u]] # None /\ ptr'[u] \notin held'
                          /\ \A k \in DOMAIN bridge' : bridge'[k] # ptr'[u]
                          /\ \A k \in DOMAIN parts' : parts'[k] # ptr'[u]
        OBVIOUS
      <3>1. CASE u = t /\ ptr'[u] = a
        <4>1. a # Null
          BY <2>1
        <4> QED
          BY <2>1, <2>2, <3>1, <4>1
      <3>2. CASE u # t /\ pc[u] = "remove" /\ ptr'[u] = ptr[u]
        BY <2>1, <2>2, <3>2
      <3> QED
        BY <2>3, <3>1, <3>2
    <2>6. \A u, v \in Thread : pc'[u] = "remove" /\ pc'[v] = "remove" /\ u # v =>
            ptr'[u] # ptr'[v]
      BY <2>1, <2>2, <2>3
    <2> QED
      BY <2>2, <2>4, <2>5, <2>6
  <1>7. CASE AllocateBridge
    BY <1>7 DEF AllocateBridge
  <1>8. CASE AllocatePart
    BY <1>3, <1>4, <1>8 DEF AllocatePart, Thread
  <1>9. CASE FinishBuild
    BY SMTT(20), <1>9, EmptySeq DEF FinishBuild, Complete
  <1>10. CASE FreeBridge
    <2>1. Len(bridge) = 3 /\ parts = << >> /\ DOMAIN bridge = 1 .. 3
      BY <1>10, LenProperties DEF FreeBridge, PhaseInv
    <2>2. DOMAIN parts' = 1 .. 3 /\ DOMAIN bridge' = {}
      BY <1>10 DEF FreeBridge
    <2> QED
      BY <1>10, <2>1, <2>2 DEF FreeBridge
  <1>11. CASE FreePart
    <2>1. /\ Head(parts) = parts[1] /\ 1 \in DOMAIN parts
          /\ DOMAIN parts = 1 .. Len(parts) /\ Len(parts) \in Nat
          /\ DOMAIN Tail(parts) = 1 .. Len(parts) - 1
          /\ \A k \in DOMAIN Tail(parts) : Tail(parts)[k] = parts[k + 1]
      BY <1>11, LenProperties, HeadTailProperties, EmptySeq DEF FreePart
    <2>2. CASE Head(parts) = Null
      BY SMTT(20), <1>11, <2>1, <2>2 DEF FreePart
    <2>3. CASE Head(parts) # Null
      <3>1. /\ ~misuse /\ registry' = registry /\ bridge' = bridge /\ held' = held
            /\ parts' = Tail(parts) /\ pc[Engine] = "idle"
            /\ pc' = [pc EXCEPT ![Engine] = "remove"]
            /\ ptr' = [ptr EXCEPT ![Engine] = parts[1]]
        BY <1>11, <2>1, <2>3 DEF FreePart, Begin, At
      <3>2. bridge = << >> /\ DOMAIN bridge = {}
        BY <1>11 DEF FreePart, PhaseInv
      <3>3. \A u \in Thread : pc'[u] = "remove" =>
              \/ u = Engine /\ ptr'[u] = parts[1]
              \/ u # Engine /\ pc[u] = "remove" /\ ptr'[u] = ptr[u]
        BY <3>1
      <3>4. \A k \in DOMAIN parts' :
              k + 1 \in DOMAIN parts /\ k + 1 # 1 /\ parts'[k] = parts[k + 1]
        BY <2>1, <3>1
      <3>5. \A k, l \in DOMAIN parts' : k # l => k + 1 # l + 1
        BY <2>1, <3>1
      <3> HIDE DEF TypeOK
      <3>6. \A k \in DOMAIN parts' : parts'[k] # Null =>
              registry'[parts'[k]] # None /\ parts'[k] \notin held'
        BY <3>1, <3>4
      <3>7. \A k, l \in DOMAIN parts' : k # l /\ parts'[k] # Null =>
              parts'[k] # parts'[l]
        BY <3>1, <3>4, <3>5
      <3>8. \A u \in Thread : pc'[u] = "remove" =>
              /\ registry'[ptr'[u]] # None /\ ptr'[u] \notin held'
              /\ \A k \in DOMAIN bridge' : bridge'[k] # ptr'[u]
              /\ \A k \in DOMAIN parts' : parts'[k] # ptr'[u]
        <4> SUFFICES ASSUME NEW u \in Thread, pc'[u] = "remove"
                     PROVE  /\ registry'[ptr'[u]] # None /\ ptr'[u] \notin held'
                            /\ \A k \in DOMAIN parts' : parts'[k] # ptr'[u]
          BY <3>1, <3>2
        <4>1. CASE u = Engine /\ ptr'[u] = parts[1]
          BY <2>1, <2>3, <3>1, <3>4, <4>1
        <4>2. CASE u # Engine /\ pc[u] = "remove" /\ ptr'[u] = ptr[u]
          BY <3>1, <3>4, <4>2
        <4> QED
          BY <3>3, <4>1, <4>2
      <3>9. \A u, v \in Thread : pc'[u] = "remove" /\ pc'[v] = "remove" /\ u # v =>
              ptr'[u] # ptr'[v]
        BY <2>1, <3>1, <3>3
      <3> QED
        BY <3>1, <3>2, <3>6, <3>7, <3>8, <3>9
    <2> QED
      BY <2>2, <2>3
  <1>12. CASE EndRelease
    BY <1>12 DEF EndRelease
  <1> QED
    BY <1>1, <1>2, <1>5, <1>6, <1>7, <1>8, <1>9, <1>10, <1>11, <1>12
    DEF Next, Bridge

\* A step that takes no pointer away from anyone takes no owner away.
LEMMA OwnedKept ==
  ASSUME held \subseteq held', bridge' = bridge,
         \A k \in DOMAIN parts : k \in DOMAIN parts' /\ parts'[k] = parts[k],
         \A t \in Thread : pc[t] = "remove" => pc'[t] = "remove" /\ ptr'[t] = ptr[t],
         NEW a, Owned(a)
  PROVE  Owned(a)'
  BY DEF Owned

\* That no block and no registered pointer is without an owner is kept by
\* every step.
LEMMA KeepStep ==
  TypeOK /\ MemInv /\ PhaseInv /\ OwnInv /\ KeepInv /\ [Next]_vars => KeepInv'
  <1> SUFFICES ASSUME TypeOK, MemInv, PhaseInv, OwnInv, KeepInv, [Next]_vars,
                      ~misuse', ~poisoned'
               PROVE  KeepInv'
    BY DEF KeepInv
  <1> USE AllocatorAssumption
      DEF TypeOK, KeepInv, Owned, Busy, memoryVars, callVars, engineVars
  <1>1. CASE UNCHANGED vars
    BY <1>1 DEF vars
  <1>2. ASSUME NEW t \in Thread, Memory(t) PROVE KeepInv'
    <2>1. CASE Insert(t)
      <3>1. ptr[t] \in Address /\ layout[t] # None
        BY <2>1 DEF Insert, Leave, At, MemInv
      <3>2. CASE t = Engine
        <4>1. parts' = Append(parts, ptr[t]) /\ held' = held
          BY <2>1, <3>2 DEF Insert, Return
        <4>2. /\ Len(parts) \in Nat /\ DOMAIN parts = 1 .. Len(parts)
              /\ DOMAIN parts' = 1 .. Len(parts) + 1
              /\ \A k \in DOMAIN parts : parts'[k] = parts[k]
              /\ parts'[Len(parts) + 1] = ptr[t]
          BY <3>1, <4>1, PartsAppended
        <4>3. /\ heap' = heap /\ bridge' = bridge /\ ~misuse /\ ~poisoned
              /\ registry' = [registry EXCEPT ![ptr[t]] = layout[t]]
              /\ \A u \in Thread : pc[u] = "remove" =>
                   pc'[u] = "remove" /\ ptr'[u] = ptr[u]
              /\ \A u \in Thread : u # t /\ Busy(u) =>
                   Busy(u)' /\ ptr'[u] = ptr[u]
          BY <2>1 DEF Insert, Leave, At
        <4>4. \A a \in Address : Owned(a) => Owned(a)'
          <5>1. \A k \in DOMAIN parts : k \in DOMAIN parts' /\ parts'[k] = parts[k]
            BY <4>2
          <5> HIDE DEF Owned, TypeOK
          <5> QED
            BY <4>1, <4>3, <5>1, OwnedKept
        <4>5. \A a \in Address : a = ptr[t] => Owned(a)'
          <5>1. Len(parts) + 1 \in DOMAIN parts'
            BY <4>2
          <5> HIDE DEF TypeOK
          <5> QED
            BY <4>2, <5>1
        <4> HIDE DEF TypeOK, Owned
        <4>6. \A a \in Address : registry'[a] # None => a = ptr[t] \/ registry[a] # None
          BY <4>3 DEF TypeOK
        <4>7. \A a \in Address : registry[a] # None => registry'[a] # None
          BY <3>1, <4>3 DEF TypeOK
        <4>8. registry'[ptr[t]] # None
          BY <3>1, <4>3 DEF TypeOK
        <4> QED
          BY <4>3, <4>4, <4>5, <4>6, <4>7, <4>8
      <3>3. CASE t # Engine
        BY <2>1, <3>1, <3>3 DEF Insert, Leave, At, Return
      <3> QED
        BY <3>2, <3>3
    <2>2. CASE GiveBack(t)
      BY <2>2 DEF GiveBack
    <2>3. CASE Panic(t)
      BY <2>3 DEF Panic
    <2>4. CASE Remove(t)
      BY <2>4 DEF Remove, At
    <2>5. CASE Refuse(t)
      BY <2>5 DEF Refuse, Leave, At, OwnInv
    <2>6. CASE Dealloc(t)
      BY <2>6 DEF Dealloc, Leave, At
    <2> QED
      BY <1>2, <2>1, <2>2, <2>3, <2>4, <2>5, <2>6 DEF Memory
  <1>3. ASSUME NEW t \in Thread, NEW size, Obtain(t, size) PROVE KeepInv'
    <2>1. PICK b \in Address : /\ heap' = [heap EXCEPT ![b] = size]
                               /\ ptr' = [ptr EXCEPT ![t] = b]
      BY <1>3 DEF Obtain
    <2>2. /\ registry' = registry /\ held' = held /\ parts' = parts
          /\ bridge' = bridge /\ ~misuse /\ ~poisoned
          /\ Busy(t)' /\ ptr'[t] = b
          /\ \A u \in Thread : u # t => pc'[u] = pc[u] /\ ptr'[u] = ptr[u]
          /\ pc[t] = "idle"
      BY <1>3, <2>1 DEF Obtain, At
    <2>3. \A a \in Address : Owned(a) => Owned(a)'
      BY <2>2, OwnedKept
    <2>4. \A a \in Address : a # b => heap'[a] = heap[a]
      BY <2>1
    <2> HIDE DEF TypeOK, Owned
    <2> QED
      BY <2>2, <2>3, <2>4
  <1>4. ASSUME NEW t \in Thread, OutOfMemory(t) PROVE KeepInv'
    <2>1. CASE t = Engine
      <3>1. parts' = Append(parts, Null) /\ held' = held
        BY <1>4, <2>1 DEF OutOfMemory, Return
      <3>2. /\ Len(parts) \in Nat /\ DOMAIN parts = 1 .. Len(parts)
            /\ DOMAIN parts' = 1 .. Len(parts) + 1
            /\ \A k \in DOMAIN parts : parts'[k] = parts[k]
        BY <3>1, PartsAppended
      <3> QED
        BY <1>4, <3>1, <3>2 DEF OutOfMemory
    <2>2. CASE t # Engine
      BY <1>4, <2>2 DEF OutOfMemory, Return
    <2> QED
      BY <2>1, <2>2
  <1>5. ASSUME NEW t \in Thread, CallAlloc(t) PROVE KeepInv'
    <2>1. ASSUME NEW size \in Size, Obtain(t, size) PROVE KeepInv'
      BY <1>3, <2>1
    <2> QED
      BY <1>4, <1>5, <2>1 DEF CallAlloc
  <1>6. ASSUME NEW t \in Thread, CallFree(t) PROVE KeepInv'
    BY <1>6 DEF CallFree, Begin, At
  <1>7. CASE AllocateBridge
    BY <1>7 DEF AllocateBridge
  <1>8. CASE AllocatePart
    BY <1>3, <1>4, <1>8 DEF AllocatePart, Thread
  <1>9. CASE FinishBuild
    <2>1. CASE Complete
      <3>1. bridge = << >> /\ DOMAIN bridge = {}
        BY <1>9 DEF FinishBuild, PhaseInv
      <3> QED
        BY <1>9, <2>1, <3>1 DEF FinishBuild
    <2>2. CASE ~Complete
      BY <1>9, <2>2 DEF FinishBuild
    <2> QED
      BY <2>1, <2>2
  <1>10. CASE FreeBridge
    <2>1. Len(bridge) = 3 /\ parts = << >> /\ DOMAIN bridge = 1 .. 3
      BY <1>10, LenProperties DEF FreeBridge, PhaseInv
    <2>2. /\ DOMAIN parts' = 1 .. 3
          /\ parts'[1] = bridge[2] /\ parts'[2] = bridge[3] /\ parts'[3] = bridge[1]
      BY <1>10 DEF FreeBridge
    <2> QED
      BY <1>10, <2>1, <2>2 DEF FreeBridge
  <1>11. CASE FreePart
    <2>1. /\ Head(parts) = parts[1] /\ DOMAIN parts = 1 .. Len(parts)
          /\ Len(parts) \in Nat
          /\ \A k \in DOMAIN parts : k # 1 =>
               k - 1 \in DOMAIN Tail(parts) /\ Tail(parts)[k - 1] = parts[k]
      BY SMTT(20), <1>11, LenProperties, HeadTailProperties, EmptySeq DEF FreePart
    <2>2. /\ parts' = Tail(parts) /\ held' = held /\ bridge' = bridge
          /\ heap' = heap /\ registry' = registry /\ ~misuse /\ ~poisoned
          /\ \A u \in Thread : pc[u] # "idle" => pc'[u] = pc[u] /\ ptr'[u] = ptr[u]
      BY <1>11 DEF FreePart, Begin, At
    <2>3. \A a \in Address : Owned(a) => a = Head(parts) \/ Owned(a)'
      <3> SUFFICES ASSUME NEW a \in Address, Owned(a), a # Head(parts)
                   PROVE  Owned(a)'
        OBVIOUS
      <3>1. CASE a \in held \/ \E k \in DOMAIN bridge : bridge[k] = a
        BY <2>2, <3>1
      <3>2. ASSUME NEW k \in DOMAIN parts, parts[k] = a PROVE Owned(a)'
        <4>1. k - 1 \in DOMAIN parts' /\ parts'[k - 1] = a
          BY <2>1, <2>2, <3>2
        <4> QED
          BY <4>1
      <3>3. ASSUME NEW t \in Thread, pc[t] = "remove", ptr[t] = a PROVE Owned(a)'
        BY <2>2, <3>3
      <3> QED
        BY <3>1, <3>2, <3>3
    <2>4. \A a \in Address : a = Head(parts) => Owned(a)'
      BY <1>11, <2>1 DEF FreePart, Begin, At, Thread
    <2>5. \A u \in Thread : Busy(u) => Busy(u)' /\ ptr'[u] = ptr[u]
      BY <2>2
    <2> HIDE DEF TypeOK, Owned
    <2> QED
      BY <2>2, <2>3, <2>4, <2>5
  <1>12. CASE EndRelease
    BY <1>12 DEF EndRelease
  <1> QED
    BY <1>1, <1>2, <1>5, <1>6, <1>7, <1>8, <1>9, <1>10, <1>11, <1>12
    DEF Next, Bridge

\* Every state the threads can reach is in the invariant.
LEMMA Invariant == Spec => []IInv
  <1>1. IInv /\ [Next]_vars => IInv'
    BY TypeStep, MemStep, PhaseStep, OwnStep, KeepStep DEF IInv
  <1> QED
    BY InitInvariant, <1>1, PTL DEF Spec

-----------------------------------------------------------------------------
\* Every variable of the allocator, and of its callers, stays in its range.
THEOREM TypeCorrect == Spec => []TypeOK
  <1>1. IInv => TypeOK
    BY DEF IInv
  <1> QED
    BY Invariant, <1>1, PTL

\* LAYOUT_REGISTRY tells the truth (bridge.rs:363-413): however the threads
\* interleave between the mutex and the system allocator, a pointer that is
\* listed is allocated, with the layout that is listed.
THEOREM RegistryIsTrue == Spec => []RegisteredIsLive
  <1>1. IInv => RegisteredIsLive
    BY DEF IInv, MemInv
  <1> QED
    BY Invariant, <1>1, PTL

\* malphas_free gives a block back once, by one thread, with the layout it was
\* allocated with, also when callers free twice or what was never theirs.
THEOREM DeallocIsMatched == Spec => []DeallocMatches
  <1>1. IInv => DeallocMatches
    BY AllocatorAssumption DEF IInv, MemInv, Busy, DeallocMatches
  <1> QED
    BY Invariant, <1>1, PTL

\* While callers free only what they hold, what they and the bridge hold stays
\* registered: no other thread's call can take it away.
THEOREM HeldIsKept == Spec => []HeldIsRegistered
  <1>1. IInv => HeldIsRegistered
    BY DEF IInv, OwnInv, HeldIsRegistered
  <1> QED
    BY Invariant, <1>1, PTL

\* Whenever nobody is inside a call, the blocks of the system's allocator are
\* those the callers hold and those of the bridge: an allocation that fails half
\* way, or a bridge built and freed any number of times, leaves nothing behind.
THEOREM NothingIsLost == Spec => []NothingLost
  <1>1. IInv => NothingLost
    <2> SUFFICES ASSUME IInv, ~misuse, ~poisoned, phase = "idle",
                        \A t \in Thread : pc[t] = "idle"
                 PROVE  {a \in Address : heap[a] # None}
                          = held \cup {bridge[k] : k \in DOMAIN bridge}
      BY DEF NothingLost
    <2>1. /\ held \subseteq Address
          /\ \A k \in DOMAIN bridge : bridge[k] \in Address
      BY LenProperties DEF IInv, TypeOK
    <2>2. DOMAIN parts = {}
      BY DEF IInv, PhaseInv
    <2>3. \A a \in Address : heap[a] # None => registry[a] # None /\ Owned(a)
      BY DEF IInv, KeepInv, Busy
    <2>4. \A a \in Address : registry[a] # None => heap[a] # None
      BY DEF IInv, MemInv, RegisteredIsLive
    <2>5. /\ \A a \in held : registry[a] # None
          /\ \A k \in DOMAIN bridge : registry[bridge[k]] # None
      BY DEF IInv, OwnInv
    <2> QED
      BY <2>1, <2>2, <2>3, <2>4, <2>5 DEF Owned
  <1> QED
    BY Invariant, <1>1, PTL
=============================================================================
