------------------------- MODULE TickPipelineProofs -------------------------
(***************************************************************************)
(* Proofs about TickPipeline, for any tickers, images, events and sizes:   *)
(* what is on display was drawn, inside its bounds, the demo reads inside  *)
(* the table it is given, and the queue holds the newest of the coalesced  *)
(* input.                                                                  *)
(***************************************************************************)
EXTENDS TickPipeline, SequenceTheorems, TLAPS

(***************************************************************************)
(* The inductive invariant.  A slot that was drawn stays drawn, so that    *)
(* the base of every tick, and the count of every buffer, is never above   *)
(* the drawn slots: DrawnInv.  Ticks that do not overlap are alone with    *)
(* their buffer: AloneInv.  A tick only gets to its systems with an image  *)
(* that has entities, and between ticks it has drawn nothing: PlaceInv.    *)
(***************************************************************************)
PlaceInv ==
  \A t \in Tickers :
    /\ pc[t] \in {"list", "systems"} => image[t] \in Images
    /\ pc[t] \in {"idle", "drain", "pin", "list"} => base[t] = 0

DrawnInv ==
  /\ \A b \in Buffer, i \in 1 .. RenderCapacity :
       slots[b][i] # None => Inside(slots[b][i].entity)
  /\ \A t \in Tickers, i \in 1 .. RenderCapacity :
       i <= base[t] => slots[target[t]][i] # None
  /\ \A b \in Buffer, i \in 1 .. RenderCapacity :
       i <= count[b] => slots[b][i] # None

AloneInv ==
  ~overlap => \A t, u \in Tickers : pc[t] # "idle" /\ pc[u] # "idle" => t = u

IInv == TypeOK /\ PlaceInv /\ DrawnInv /\ AloneInv /\ WithinTable

-----------------------------------------------------------------------------
\* Smaller is the minimum.
LEMMA SmallerIsMin ==
  ASSUME NEW a \in Nat, NEW b \in Nat
  PROVE  Smaller(a, b) \in Nat /\ Smaller(a, b) <= a /\ Smaller(a, b) <= b
  BY DEF Smaller

\* A tap on an entity changes nothing but its direction.
LEMMA TouchedKeeps ==
  ASSUME NEW e \in Entity, NEW events
  PROVE  Touched(e, events) \in Entity
  <1>1. [e EXCEPT !.speed = -@] \in Entity
    BY DEF Entity
  <1> QED
    BY <1>1 DEF Touched

\* However fast an entity is and wherever it stood, after a step it is inside
\* its bounds if it fits between them.
LEMMA MovedInside ==
  ASSUME NEW e \in Entity PROVE Moved(e) \in Entity /\ Inside(Moved(e))
  <1> DEFINE pos == e.pos + e.speed
  <1>0. /\ pos \in Int /\ e.speed \in Int /\ -e.speed \in Int
        /\ e.width \in Int /\ e.min \in Int /\ e.max \in Int
    BY DEF Entity
  <1>1. ASSUME NEW at \in Int
        PROVE  /\ Turned(e, at) \in Entity /\ Turned(e, at).pos = at
               /\ Turned(e, at).width = e.width
               /\ Turned(e, at).min = e.min /\ Turned(e, at).max = e.max
    BY <1>0 DEF Turned, Entity
  <1>2. CASE pos < e.min
    BY <1>0, <1>1, <1>2 DEF Moved, Inside
  <1>3. CASE ~(pos < e.min) /\ pos + e.width > e.max
    <2>1. e.max - e.width \in Int
      BY <1>0
    <2>2. Moved(e) = Turned(e, e.max - e.width)
      BY <1>0, <1>3 DEF Moved
    <2> QED
      BY <1>0, <1>1, <2>1, <2>2 DEF Inside
  <1>4. CASE ~(pos < e.min) /\ ~(pos + e.width > e.max)
    <2>1. Moved(e) = [e EXCEPT !.pos = pos]
      BY <1>0, <1>4 DEF Moved
    <2> QED
      BY <1>0, <1>4, <2>1 DEF Entity, Inside
  <1> QED
    BY <1>0, <1>2, <1>3, <1>4

\* One call of the demo: the state keeps its entities, as many as are drawn are
\* inside their bounds, and no more are drawn than the table has and find room.
LEMMA DemoDraws ==
  ASSUME NEW table \in Seq(Entity), NEW room \in Nat, NEW events,
         state \in Seq(Entity)
  PROVE  LET drawn == Smaller(Live(table), room)
             after == Simulated(table, room, events)
         IN  /\ after \in Seq(Entity)
             /\ drawn \in Nat /\ drawn <= room /\ drawn <= Len(table)
             /\ \A id \in 1 .. drawn : after[id] \in Entity /\ Inside(after[id])
  <1> DEFINE drawn == Smaller(Live(table), room)
             after == Simulated(table, room, events)
  <1>1. Len(table) \in Nat /\ Len(state) \in Nat /\ DOMAIN state = 1 .. Len(state)
    BY LenProperties
  <1>2. Live(table) \in Nat /\ Live(table) <= Len(table) /\ Live(table) <= Len(state)
    BY <1>1, SmallerIsMin DEF Live
  <1>3. drawn \in Nat /\ drawn <= room /\ drawn <= Live(table)
    BY <1>2, SmallerIsMin
  <1>4. DOMAIN after = DOMAIN state
    BY DEF Simulated
  <1>5. \A id \in DOMAIN state : state[id] \in Entity
    BY <1>1
  <1>6. ASSUME NEW id \in DOMAIN state, id <= drawn
        PROVE  after[id] \in Entity /\ Inside(after[id])
    <2>0. ~(id > Live(table)) /\ ~(id > room)
      <3> HIDE DEF drawn
      <3> QED
        BY <1>1, <1>2, <1>3, <1>6
    <2>1. after[id] = Moved(Touched(state[id], events))
      BY <2>0 DEF Simulated
    <2> QED
      BY <1>5, <2>1, TouchedKeeps, MovedInside
  <1>7. ASSUME NEW id \in DOMAIN state PROVE after[id] \in Entity
    <2>1. \/ after[id] = state[id]
          \/ after[id] = Touched(state[id], events)
          \/ after[id] = Moved(Touched(state[id], events))
      BY DEF Simulated
    <2> QED
      BY <1>5, <2>1, TouchedKeeps, MovedInside
  <1>8. after \in [1 .. Len(state) -> Entity]
    <2>1. after = [id \in DOMAIN state |-> after[id]]
      BY DEF Simulated
    <2>2. \A id \in DOMAIN state : after[id] \in Entity
      BY <1>7
    <2> HIDE DEF after
    <2> QED
      BY <1>1, <2>1, <2>2
  <1>9. after \in Seq(Entity)
    <2> HIDE DEF after
    <2> QED
      BY <1>1, <1>8, SeqDef
  <1>10. \A id \in 1 .. drawn : after[id] \in Entity /\ Inside(after[id])
    <2> HIDE DEF after, drawn
    <2>1. \A id \in 1 .. drawn : id \in DOMAIN state
      BY <1>1, <1>2, <1>3
    <2> QED
      BY <1>6, <2>1, <1>3
  <1> QED
    BY <1>2, <1>3, <1>9, <1>10, <1>1

\* The initial state is in the invariant.
LEMMA InitInvariant == Init => IInv
  <1> SUFFICES ASSUME Init PROVE IInv
    OBVIOUS
  <1> USE PipelineAssumption, CapacityAssumption, BoundAssumption DEF Init, QueueInit
  <1>1. << >> \in Seq(Event) /\ Len(<< >>) = 0
    BY EmptySeq
  <1>2. TypeOK
    <2>1. QueueTypeOK
      BY <1>1 DEF QueueTypeOK
    <2>2. /\ batch \in [Tickers -> Seq(Event)] /\ todo \in [Tickers -> Nat]
          /\ base \in [Tickers -> 0 .. RenderCapacity]
          /\ image \in [Tickers -> Images \cup {None}]
      BY <1>1
    <2>3. /\ count \in [Buffer -> 0 .. RenderCapacity]
          /\ slots \in [Buffer -> [1 .. RenderCapacity -> Command \cup {None}]]
          /\ target \in [Tickers -> Buffer] /\ back \in Buffer
      BY DEF Buffer
    <2> QED
      BY <2>1, <2>2, <2>3 DEF TypeOK
  <1>3. PlaceInv /\ DrawnInv /\ AloneInv
    BY DEF PlaceInv, DrawnInv, AloneInv, Buffer
  <1>4. WithinTable
    BY DEF WithinTable
  <1> QED
    BY <1>2, <1>3, <1>4 DEF IInv

\* The queue keeps its bound: an event only enters it behind the eviction.
LEMMA PushKeeps ==
  ASSUME QueueTypeOK, NEW e \in Event, Push(e)
  PROVE  QueueTypeOK'
  <1> USE CapacityAssumption, BoundAssumption
  <1>1. queue \in Seq(Event) /\ Len(queue) \in Nat /\ Len(queue) <= Capacity
    BY LenProperties DEF QueueTypeOK
  <1>2. /\ pushed' \in Seq(Event) /\ Len(pushed') = Len(pushed) + 1
        /\ Len(pushed) \in Nat
    BY AppendProperties, LenProperties DEF Push, QueueTypeOK
  <1>3. /\ MakeRoom \in Seq(Event) /\ Len(MakeRoom) \in Nat
        /\ Len(MakeRoom) < Capacity
    <2>1. CASE Len(queue) >= Capacity
      <3>1. queue # << >>
        BY <1>1, <2>1, EmptySeq
      <3>2. Tail(queue) \in Seq(Event) /\ Len(Tail(queue)) = Len(queue) - 1
        BY <1>1, <3>1, HeadTailProperties
      <3> QED
        BY <1>1, <2>1, <3>2 DEF MakeRoom
    <2>2. CASE ~(Len(queue) >= Capacity)
      BY <1>1, <2>2 DEF MakeRoom
    <2> QED
      BY <2>1, <2>2
  <1>4. queue' \in Seq(Event) /\ Len(queue') <= Capacity
    <2>1. CASE Repeats(e)
      BY <1>1, <2>1 DEF Push
    <2>2. CASE ~Repeats(e)
      <3>1. /\ Append(MakeRoom, e) \in Seq(Event)
            /\ Len(Append(MakeRoom, e)) = Len(MakeRoom) + 1
        BY <1>3, AppendProperties
      <3> QED
        BY <1>3, <2>2, <3>1 DEF Push
    <2> QED
      BY <2>1, <2>2
  <1> QED
    BY <1>2, <1>4 DEF Push, QueueTypeOK

\* What the demo has drawn into a tick's buffer.
LEMMA CallDemoDraws ==
  ASSUME TypeOK, PlaceInv, NEW t \in Tickers, CallDemo(t), state # None
  PROVE  \E drawn \in Nat :
           /\ base[t] + drawn <= RenderCapacity /\ drawn <= Len(image[t])
           /\ image[t] \in Seq(Entity) /\ state' \in Seq(Entity)
           /\ base' = [base EXCEPT ![t] = @ + drawn]
           /\ slots' = [slots EXCEPT ![target[t]] =
                [i \in 1 .. RenderCapacity |->
                   IF i - base[t] \in 1 .. drawn
                     THEN [id |-> i - base[t], entity |-> state'[i - base[t]]]
                     ELSE @[i]]]
           /\ \A id \in 1 .. drawn : state'[id] \in Entity /\ Inside(state'[id])
  <1> DEFINE room  == RenderCapacity - base[t]
             drawn == Smaller(Live(image[t]), room)
  <1>1. room \in Nat /\ base[t] \in Nat /\ RenderCapacity \in Nat
    BY PipelineAssumption DEF CallDemo, TypeOK
  <1>2. state \in Seq(Entity) /\ image[t] \in Seq(Entity)
    BY ImagesAssumption DEF CallDemo, TypeOK, PlaceInv
  <1>3. state' = Simulated(image[t], room, batch[t])
    BY DEF CallDemo
  <1>4. /\ state' \in Seq(Entity)
        /\ drawn \in Nat /\ drawn <= room /\ drawn <= Len(image[t])
        /\ \A id \in 1 .. drawn : state'[id] \in Entity /\ Inside(state'[id])
    BY <1>1, <1>2, <1>3, DemoDraws
  <1>5. base[t] + drawn <= RenderCapacity
    <2> HIDE DEF drawn
    <2> QED
      BY <1>1, <1>4
  <1>6. /\ base' = [base EXCEPT ![t] = @ + drawn]
        /\ slots' = [slots EXCEPT ![target[t]] =
             [i \in 1 .. RenderCapacity |->
                IF i - base[t] \in 1 .. drawn
                  THEN [id |-> i - base[t], entity |-> state'[i - base[t]]]
                  ELSE @[i]]]
    BY DEF CallDemo
  <1> HIDE DEF drawn, room
  <1> QED
    BY <1>2, <1>4, <1>5, <1>6

\* What a call of the demo leaves of the rest of the state.
LEMMA CallDemoKeeps ==
  ASSUME NEW t \in Tickers, CallDemo(t)
  PROVE  /\ UNCHANGED <<queueVars, hostVars, back, count, ticks, pc, target, batch,
                        image, overlap>>
         /\ todo' = [todo EXCEPT ![t] = @ - 1] /\ todo[t] > 0 /\ pc[t] = "systems"
         /\ state = None => UNCHANGED <<state, slots, base>>
  BY DEF CallDemo

\* Every variable keeps its range, in every step.
LEMMA TypeStep == TypeOK /\ PlaceInv /\ [Next]_vars => TypeOK'
  <1> SUFFICES ASSUME TypeOK, PlaceInv, [Next]_vars PROVE TypeOK'
    OBVIOUS
  <1> USE PipelineAssumption
          DEF TypeOK, At, queueVars, hostVars, bufferVars, tickVars
  <1>0. UNCHANGED queueVars => QueueTypeOK'
    BY DEF QueueTypeOK
  <1>1. CASE UNCHANGED vars
    BY <1>0, <1>1 DEF vars
  <1>2. ASSUME NEW e \in Event, PushEvent(e) PROVE TypeOK'
    BY <1>2, PushKeeps DEF PushEvent
  <1>3. CASE MapImage
    BY <1>0, <1>3 DEF MapImage
  <1>4. CASE InitDemo
    <2>1. state' \in Seq(Entity) \cup {None}
      BY <1>4, ImagesAssumption DEF InitDemo
    <2> QED
      BY <1>0, <1>4, <2>1 DEF InitDemo
  <1>5. CASE RegisterDemo
    BY <1>0, <1>5 DEF RegisterDemo
  <1>6. ASSUME NEW t \in Tickers, TickStep(t) PROVE TypeOK'
    <2>1. CASE BeginTick(t)
      BY <1>0, <2>1 DEF BeginTick
    <2>2. CASE DrainInput(t)
      <3>1. QueueTypeOK'
        <4>1. << >> \in Seq(Event) /\ Len(<< >>) = 0 /\ Len(pushed) \in Nat
          BY EmptySeq, LenProperties DEF QueueTypeOK
        <4> QED
          BY <2>2, <4>1, CapacityAssumption DEF DrainInput, Drain, QueueTypeOK
      <3>2. batch' \in [Tickers -> Seq(Event)]
        BY <2>2 DEF DrainInput, QueueTypeOK
      <3> QED
        BY <2>2, <3>1, <3>2 DEF DrainInput
    <2>3. CASE PinImage(t)
      BY <1>0, <2>3 DEF PinImage
    <2>4. CASE PinSystems(t)
      BY <1>0, <2>4 DEF PinSystems
    <2>5. CASE CallDemo(t)
      <3>0. todo' \in [Tickers -> Nat]
        <4>1. todo[t] \in Nat /\ todo[t] > 0 /\ todo' = [todo EXCEPT ![t] = todo[t] - 1]
          BY <2>5, CallDemoKeeps
        <4>2. todo[t] - 1 \in Nat
          BY <4>1
        <4> HIDE DEF At
        <4> QED
          BY <4>1, <4>2
      <3>1. CASE state = None
        BY <1>0, <2>5, <3>0, <3>1, CallDemoKeeps
      <3>2. CASE state # None
        <4>1. PICK drawn \in Nat :
                /\ base[t] + drawn <= RenderCapacity
                /\ state' \in Seq(Entity)
                /\ base' = [base EXCEPT ![t] = @ + drawn]
                /\ slots' = [slots EXCEPT ![target[t]] =
                     [i \in 1 .. RenderCapacity |->
                        IF i - base[t] \in 1 .. drawn
                          THEN [id |-> i - base[t], entity |-> state'[i - base[t]]]
                          ELSE @[i]]]
                /\ \A id \in 1 .. drawn : state'[id] \in Entity
          BY <2>5, <3>2, CallDemoDraws
        <4>2. base' \in [Tickers -> 0 .. RenderCapacity]
          BY <4>1
        <4>4. slots' \in [Buffer -> [1 .. RenderCapacity -> Command \cup {None}]]
          <5> DEFINE row == [i \in 1 .. RenderCapacity |->
                               IF i - base[t] \in 1 .. drawn
                                 THEN [id |-> i - base[t], entity |-> state'[i - base[t]]]
                                 ELSE slots[target[t]][i]]
          <5>1. ASSUME NEW i \in 1 .. RenderCapacity
                PROVE  row[i] \in Command \cup {None}
            <6>1. CASE i - base[t] \in 1 .. drawn
              BY <4>1, <6>1 DEF Command
            <6>2. CASE ~(i - base[t] \in 1 .. drawn)
              BY <6>2
            <6> QED
              BY <6>1, <6>2
          <5>2. row \in [1 .. RenderCapacity -> Command \cup {None}]
            BY <5>1
          <5>3. slots' = [slots EXCEPT ![target[t]] = row]
            BY <4>1
          <5> HIDE DEF row
          <5> QED
            BY <5>2, <5>3
        <4> QED
          BY <1>0, <2>5, <3>0, <4>1, <4>2, <4>4, CallDemoKeeps
      <3> QED
        BY <3>1, <3>2
    <2>6. CASE EndSystems(t)
      BY <1>0, <2>6 DEF EndSystems
    <2>7. CASE StoreCount(t)
      BY <1>0, <2>7 DEF StoreCount
    <2>8. CASE Flip(t)
      <3>1. batch' \in [Tickers -> Seq(Event)]
        BY <2>8, EmptySeq DEF Flip
      <3>2. back' \in Buffer /\ target' \in [Tickers -> Buffer]
        <4>1. target[t] \in {0, 1} /\ back' = 1 - target[t]
          BY <2>8 DEF Flip, Buffer
        <4>2. 1 - target[t] \in {0, 1}
          BY <4>1
        <4> QED
          BY <2>8, <4>1, <4>2 DEF Flip, Buffer
      <3> QED
        BY SMTT(20), <1>0, <2>8, <3>1, <3>2 DEF Flip
    <2> QED
      BY <1>6, <2>1, <2>2, <2>3, <2>4, <2>5, <2>6, <2>7, <2>8 DEF TickStep
  <1> QED
    BY <1>1, <1>2, <1>3, <1>4, <1>5, <1>6 DEF Next

\* A slot that was drawn stays drawn and inside its bounds; and what a tick has
\* drawn is what it counts, in its own part of the state.
LEMMA CallDemoSlots ==
  ASSUME TypeOK, PlaceInv, NEW t \in Tickers, CallDemo(t), state # None
  PROVE  /\ \A b \in Buffer, i \in 1 .. RenderCapacity :
              \/ slots'[b][i] = slots[b][i]
              \/ /\ b = target[t] /\ base[t] < i /\ i <= base'[t]
                 /\ slots'[b][i] \in Command /\ slots'[b][i] # None
                 /\ Inside(slots'[b][i].entity)
                 /\ slots'[b][i].id <= Len(image[t])
         /\ \A i \in 1 .. RenderCapacity : base[t] < i /\ i <= base'[t] =>
              slots'[target[t]][i] # None /\ slots'[target[t]][i].id <= Len(image[t])
         /\ \A u \in Tickers : u # t => base'[u] = base[u]
         /\ base[t] \in Nat /\ base'[t] \in Nat
  <1>1. PICK drawn \in Nat :
          /\ base[t] + drawn <= RenderCapacity /\ drawn <= Len(image[t])
          /\ image[t] \in Seq(Entity)
          /\ base' = [base EXCEPT ![t] = @ + drawn]
          /\ slots' = [slots EXCEPT ![target[t]] =
               [i \in 1 .. RenderCapacity |->
                  IF i - base[t] \in 1 .. drawn
                    THEN [id |-> i - base[t], entity |-> state'[i - base[t]]]
                    ELSE @[i]]]
          /\ \A id \in 1 .. drawn : state'[id] \in Entity /\ Inside(state'[id])
    BY CallDemoDraws
  <1>2. /\ base[t] \in Nat /\ base'[t] = base[t] + drawn
        /\ \A u \in Tickers : u # t => base'[u] = base[u]
        /\ target[t] \in Buffer /\ Len(image[t]) \in Nat /\ RenderCapacity \in Nat
    BY <1>1, LenProperties, PipelineAssumption DEF TypeOK
  <1> DEFINE row == [i \in 1 .. RenderCapacity |->
                       IF i - base[t] \in 1 .. drawn
                         THEN [id |-> i - base[t], entity |-> state'[i - base[t]]]
                         ELSE slots[target[t]][i]]
  <1>3. /\ slots'[target[t]] = row
        /\ \A b \in Buffer : b # target[t] => slots'[b] = slots[b]
    BY <1>1, <1>2 DEF TypeOK
  <1>4. ASSUME NEW i \in 1 .. RenderCapacity, base[t] < i, i <= base'[t]
        PROVE  /\ row[i] \in Command /\ row[i] # None /\ Inside(row[i].entity)
               /\ row[i].id <= Len(image[t])
    <2>1. i - base[t] \in 1 .. drawn /\ i - base[t] \in Nat
      BY <1>2, <1>4
    <2>2. row[i] = [id |-> i - base[t], entity |-> state'[i - base[t]]]
      BY <2>1
    <2>3. state'[i - base[t]] \in Entity /\ Inside(state'[i - base[t]])
      BY <1>1, <2>1
    <2>4. i - base[t] <= Len(image[t])
      BY <1>1, <1>2, <2>1
    <2> HIDE DEF row
    <2>5. row[i] \in Command
      BY <2>1, <2>2, <2>3 DEF Command
    <2> QED
      BY <2>2, <2>3, <2>4, <2>5, PipelineAssumption
  <1>5. ASSUME NEW i \in 1 .. RenderCapacity, ~(base[t] < i /\ i <= base'[t])
        PROVE  row[i] = slots[target[t]][i]
    <2>1. ~(i - base[t] \in 1 .. drawn)
      BY <1>2, <1>5
    <2> QED
      BY <2>1
  <1> HIDE DEF row
  <1>6. ASSUME NEW b \in Buffer, NEW i \in 1 .. RenderCapacity
        PROVE  \/ slots'[b][i] = slots[b][i]
               \/ /\ b = target[t] /\ base[t] < i /\ i <= base'[t]
                  /\ slots'[b][i] \in Command /\ slots'[b][i] # None
                  /\ Inside(slots'[b][i].entity)
                  /\ slots'[b][i].id <= Len(image[t])
    <2>1. CASE b # target[t]
      BY <1>3, <2>1
    <2>2. CASE b = target[t] /\ base[t] < i /\ i <= base'[t]
      BY <1>3, <1>4, <2>2
    <2>3. CASE b = target[t] /\ ~(base[t] < i /\ i <= base'[t])
      BY <1>3, <1>5, <2>3
    <2> QED
      BY <2>1, <2>2, <2>3
  <1> QED
    BY <1>2, <1>3, <1>4, <1>6

\* Where a tick is says what it has, and a tick that begins beside another one
\* is an overlap.
LEMMA PlaceStep ==
  TypeOK /\ PlaceInv /\ AloneInv /\ [Next]_vars => PlaceInv' /\ AloneInv'
  <1> SUFFICES ASSUME TypeOK, PlaceInv, AloneInv, [Next]_vars
               PROVE  PlaceInv' /\ AloneInv'
    OBVIOUS
  <1> USE DEF PlaceInv, AloneInv, At, queueVars, hostVars, bufferVars, tickVars
  <1>1. CASE UNCHANGED vars
    BY <1>1 DEF vars
  <1>2. ASSUME NEW e \in Event, PushEvent(e) PROVE PlaceInv' /\ AloneInv'
    BY <1>2 DEF PushEvent
  <1>3. CASE MapImage \/ InitDemo \/ RegisterDemo
    BY <1>3 DEF MapImage, InitDemo, RegisterDemo
  <1>4. ASSUME NEW t \in Tickers, TickStep(t) PROVE PlaceInv' /\ AloneInv'
    <2> USE DEF TypeOK
    <2>1. CASE BeginTick(t)
      <3>1. PlaceInv'
        BY <2>1 DEF BeginTick
      <3>2. AloneInv'
        BY <2>1 DEF BeginTick
      <3> QED
        BY <3>1, <3>2
    <2>2. CASE DrainInput(t)
      BY <2>2 DEF DrainInput
    <2>3. CASE PinImage(t)
      BY <2>3 DEF PinImage
    <2>4. CASE PinSystems(t)
      BY <2>4 DEF PinSystems
    <2>5. CASE CallDemo(t)
      <3>1. \A u \in Tickers : pc[u] # "systems" => base'[u] = base[u]
        <4>1. CASE state = None
          BY <2>5, <4>1, CallDemoKeeps
        <4>2. CASE state # None
          <5>1. pc[t] = "systems"
            BY <2>5, CallDemoKeeps
          <5>2. \A u \in Tickers : u # t => base'[u] = base[u]
            BY <2>5, <4>2, CallDemoSlots
          <5> QED
            BY <5>1, <5>2
        <4> QED
          BY <4>1, <4>2
      <3> QED
        BY <2>5, <3>1, CallDemoKeeps
    <2>6. CASE EndSystems(t)
      BY <2>6 DEF EndSystems
    <2>7. CASE StoreCount(t)
      BY <2>7 DEF StoreCount
    <2>8. CASE Flip(t)
      BY <2>8 DEF Flip
    <2> QED
      BY <1>4, <2>1, <2>2, <2>3, <2>4, <2>5, <2>6, <2>7, <2>8 DEF TickStep
  <1> QED
    BY <1>1, <1>2, <1>3, <1>4 DEF Next

\* What was drawn stays drawn: a tick counts what it has drawn, and the count of
\* a buffer is what some tick has drawn into it.
LEMMA DrawnStep ==
  TypeOK /\ TypeOK' /\ PlaceInv /\ DrawnInv /\ [Next]_vars => DrawnInv'
  <1> SUFFICES ASSUME TypeOK, TypeOK', PlaceInv, DrawnInv, [Next]_vars
               PROVE  DrawnInv'
    OBVIOUS
  <1> USE PipelineAssumption
          DEF At, queueVars, hostVars, bufferVars, tickVars
  <1>0. ASSUME UNCHANGED <<slots, count, base, target>> PROVE DrawnInv'
    BY <1>0 DEF DrawnInv
  <1>1. CASE UNCHANGED vars
    BY <1>0, <1>1 DEF vars
  <1>2. ASSUME NEW e \in Event, PushEvent(e) PROVE DrawnInv'
    BY <1>0, <1>2 DEF PushEvent
  <1>3. CASE MapImage \/ InitDemo \/ RegisterDemo
    BY <1>0, <1>3 DEF MapImage, InitDemo, RegisterDemo
  <1>4. ASSUME NEW t \in Tickers, TickStep(t) PROVE DrawnInv'
    <2>1. CASE BeginTick(t)
      <3>1. base[t] = 0 /\ UNCHANGED <<slots, count, base>>
        BY <2>1 DEF BeginTick, PlaceInv
      <3>2. \A u \in Tickers : u # t => target'[u] = target[u]
        BY <2>1 DEF BeginTick, TypeOK
      <3>3. \A u \in Tickers, i \in 1 .. RenderCapacity :
              i <= base'[u] => slots'[target'[u]][i] # None
        BY <3>1, <3>2 DEF DrawnInv
      <3> QED
        BY <3>1, <3>3 DEF DrawnInv
    <2>2. CASE DrainInput(t) \/ PinImage(t) \/ PinSystems(t) \/ EndSystems(t)
      BY <1>0, <2>2 DEF DrainInput, PinImage, PinSystems, EndSystems
    <2>3. CASE CallDemo(t)
      <3>0. UNCHANGED <<count, target>>
        BY <2>3, CallDemoKeeps
      <3>1. CASE state = None
        BY <1>0, <2>3, <3>0, <3>1, CallDemoKeeps
      <3>2. CASE state # None
        <4>1. \A b \in Buffer, i \in 1 .. RenderCapacity :
                \/ slots'[b][i] = slots[b][i]
                \/ slots'[b][i] # None /\ Inside(slots'[b][i].entity)
          BY <2>3, <3>2, CallDemoSlots
        <4>2. \A b \in Buffer, i \in 1 .. RenderCapacity :
                slots[b][i] # None => slots'[b][i] # None
          BY <4>1
        <4>3. \A b \in Buffer, i \in 1 .. RenderCapacity :
                slots'[b][i] # None => Inside(slots'[b][i].entity)
          BY <4>1 DEF DrawnInv
        <4>4. ASSUME NEW u \in Tickers, NEW i \in 1 .. RenderCapacity, i <= base'[u]
              PROVE  slots'[target'[u]][i] # None
          <5>0. target[u] \in Buffer /\ target'[u] = target[u]
            BY <3>0 DEF TypeOK
          <5>1. CASE i <= base[u]
            BY <4>2, <5>0, <5>1 DEF DrawnInv
          <5>2. CASE ~(i <= base[u])
            <6>1. u = t /\ base[t] \in Nat
              BY <2>3, <3>2, <4>4, <5>2, CallDemoSlots
            <6>2. base[t] < i
              BY <5>2, <6>1
            <6> QED
              BY <2>3, <3>2, <4>4, <5>0, <6>1, <6>2, CallDemoSlots
          <5> QED
            BY <5>1, <5>2
        <4>5. \A b \in Buffer, i \in 1 .. RenderCapacity :
                i <= count'[b] => slots'[b][i] # None
          BY <3>0, <4>2 DEF DrawnInv
        <4> QED
          BY <4>3, <4>4, <4>5 DEF DrawnInv
      <3> QED
        BY <3>1, <3>2
    <2>4. CASE StoreCount(t)
      <3>1. /\ UNCHANGED <<slots, base, target>> /\ target[t] \in Buffer
            /\ count' = [count EXCEPT ![target[t]] = base[t]]
        BY <2>4 DEF StoreCount, TypeOK
      <3>2. ASSUME NEW b \in Buffer, NEW i \in 1 .. RenderCapacity, i <= count'[b]
            PROVE  slots'[b][i] # None
        <4>1. CASE b = target[t]
          <5>1. count'[b] = base[t]
            BY <3>1, <4>1 DEF TypeOK
          <5> QED
            BY <3>1, <3>2, <4>1, <5>1 DEF DrawnInv
        <4>2. CASE b # target[t]
          <5>1. count'[b] = count[b]
            BY <3>1, <4>2 DEF TypeOK
          <5> QED
            BY <3>1, <3>2, <5>1 DEF DrawnInv
        <4> QED
          BY <4>1, <4>2
      <3> QED
        BY <3>1, <3>2 DEF DrawnInv
    <2>5. CASE Flip(t)
      <3>1. UNCHANGED <<slots, count>> /\ base'[t] = 0
        BY <2>5 DEF Flip, TypeOK
      <3>2. \A u \in Tickers : u # t => target'[u] = target[u] /\ base'[u] = base[u]
        BY <2>5 DEF Flip, TypeOK
      <3>3. \A u \in Tickers, i \in 1 .. RenderCapacity :
              i <= base'[u] => slots'[target'[u]][i] # None
        BY <3>1, <3>2 DEF DrawnInv
      <3> QED
        BY <3>1, <3>3 DEF DrawnInv
    <2> QED
      BY <1>4, <2>1, <2>2, <2>3, <2>4, <2>5 DEF TickStep
  <1> QED
    BY <1>1, <1>2, <1>3, <1>4 DEF Next

\* A tick that is alone has nobody's commands but its own before its base, and
\* all of them are of entities of its image.
LEMMA TableStep ==
  IInv /\ TypeOK' /\ [Next]_vars => WithinTable'
  <1> SUFFICES ASSUME TypeOK, TypeOK', PlaceInv, AloneInv, WithinTable,
                      [Next]_vars, ~overlap',
                      NEW u \in Tickers, NEW i \in 1 .. base'[u]
               PROVE  slots'[target'[u]][i].id <= Len(image'[u])
    BY DEF IInv, WithinTable
  <1> USE PipelineAssumption
          DEF At, queueVars, hostVars, bufferVars, tickVars
  <1>0. ASSUME UNCHANGED <<overlap, slots>>, base'[u] = base[u],
               target'[u] = target[u], image'[u] = image[u]
        PROVE  slots'[target'[u]][i].id <= Len(image'[u])
    BY <1>0 DEF WithinTable
  <1>1. CASE UNCHANGED vars
    BY <1>0, <1>1 DEF vars
  <1>2. ASSUME NEW e \in Event, PushEvent(e)
        PROVE  slots'[target'[u]][i].id <= Len(image'[u])
    BY <1>0, <1>2 DEF PushEvent
  <1>3. CASE MapImage \/ InitDemo \/ RegisterDemo
    BY <1>0, <1>3 DEF MapImage, InitDemo, RegisterDemo
  <1>4. ASSUME NEW t \in Tickers, TickStep(t)
        PROVE  slots'[target'[u]][i].id <= Len(image'[u])
    <2>0. base'[u] # 0 /\ i \in Nat /\ i <= base'[u] /\ i \in 1 .. RenderCapacity
      <3>1. base' \in [Tickers -> 0 .. RenderCapacity]
        BY DEF TypeOK
      <3>2. base'[u] \in 0 .. RenderCapacity /\ RenderCapacity \in Nat
        BY <3>1
      <3> QED
        BY <3>2
    <2>1. CASE BeginTick(t)
      <3>1. pc[u] = "idle" /\ base'[u] = base[u]
        BY <2>1 DEF BeginTick
      <3> QED
        BY <2>0, <3>1 DEF PlaceInv
    <2>2. CASE DrainInput(t) \/ PinSystems(t) \/ EndSystems(t) \/ StoreCount(t)
      BY <1>0, <2>2 DEF DrainInput, PinSystems, EndSystems, StoreCount
    <2>3. CASE PinImage(t)
      <3>1. CASE u = t
        BY <2>0, <2>3, <3>1 DEF PinImage, PlaceInv
      <3>2. CASE u # t
        BY <1>0, <2>3, <3>2 DEF PinImage, TypeOK
      <3> QED
        BY <3>1, <3>2
    <2>4. CASE CallDemo(t)
      <3>0. UNCHANGED <<overlap, image, target, pc>> /\ pc[t] = "systems"
        BY <2>4, CallDemoKeeps
      <3>1. CASE state = None
        BY <1>0, <2>4, <3>0, <3>1, CallDemoKeeps
      <3>2. CASE state # None /\ u # t
        <4>1. pc[u] = "idle"
          BY <3>0, <3>2 DEF AloneInv
        <4>2. base'[u] = base[u]
          BY <2>4, <3>2, CallDemoSlots
        <4> QED
          BY <2>0, <4>1, <4>2 DEF PlaceInv
      <3>3. CASE state # None /\ u = t
        <4>0. base[t] \in Nat /\ base'[t] \in Nat /\ target[t] \in Buffer
          BY <2>4, <3>3, CallDemoSlots DEF TypeOK
        <4>1. CASE base[t] < i
          BY <2>0, <2>4, <3>0, <3>3, <4>1, CallDemoSlots
        <4>2. CASE ~(base[t] < i)
          <5>1. slots'[target[t]][i] = slots[target[t]][i]
            BY <2>0, <2>4, <3>3, <4>0, <4>2, CallDemoSlots
          <5>2. i \in 1 .. base[t]
            BY <2>0, <4>0, <4>2
          <5> QED
            BY <3>0, <3>3, <5>1, <5>2 DEF WithinTable
        <4> QED
          BY <4>1, <4>2
      <3> QED
        BY <3>1, <3>2, <3>3
    <2>5. CASE Flip(t)
      <3>1. CASE u = t
        BY <2>0, <2>5, <3>1 DEF Flip, TypeOK
      <3>2. CASE u # t
        BY <1>0, <2>5, <3>2 DEF Flip, TypeOK
      <3> QED
        BY <3>1, <3>2
    <2> QED
      BY <1>4, <2>1, <2>2, <2>3, <2>4, <2>5 DEF TickStep
  <1> QED
    BY <1>1, <1>2, <1>3, <1>4 DEF Next

\* The invariant holds in every reachable state.
LEMMA Invariance == Spec => []IInv
  <1>1. Init => IInv
    BY InitInvariant
  <1>2. IInv /\ [Next]_vars => IInv'
    <2> SUFFICES ASSUME IInv, [Next]_vars PROVE IInv'
      OBVIOUS
    <2>1. TypeOK /\ PlaceInv /\ DrawnInv /\ AloneInv
      BY DEF IInv
    <2>2. TypeOK'
      BY <2>1, TypeStep
    <2>3. PlaceInv' /\ AloneInv' /\ DrawnInv' /\ WithinTable'
      BY <2>1, <2>2, PlaceStep, DrawnStep, TableStep
    <2> QED
      BY <2>2, <2>3 DEF IInv
  <1> QED
    BY <1>1, <1>2, PTL DEF Spec

\* Every variable stays in its range: the systems of a tick never fill more
\* than the buffer has room for, and a queue never grows above its capacity.
THEOREM TypeCorrect == Spec => []TypeOK
  <1>1. IInv => TypeOK
    BY DEF IInv
  <1> QED
    BY <1>1, Invariance, PTL

\* For any images replaced at any time, the demo reads the payloads of the table
\* it is given: the identifiers it draws are below the entities of the image.
THEOREM DemoInsideTable == Spec => []WithinTable
  <1>1. IInv => WithinTable
    BY DEF IInv
  <1> QED
    BY <1>1, Invariance, PTL

\* For any ticks that overlap in any order, the commands on display were written
\* by a tick, and lie inside their bounds if they fit between them.
THEOREM FrontDrawn == Spec => []FrontIsDrawn
  <1>1. IInv => FrontIsDrawn
    <2> SUFFICES ASSUME IInv, NEW i \in 1 .. count[1 - back]
                 PROVE  slots[1 - back][i] # None /\ Inside(slots[1 - back][i].entity)
      BY DEF FrontIsDrawn
    <2>1. 1 - back \in Buffer
      BY DEF IInv, TypeOK, Buffer
    <2>2. i \in 1 .. RenderCapacity /\ i <= count[1 - back]
      BY <2>1, PipelineAssumption DEF IInv, TypeOK
    <2> QED
      BY <2>1, <2>2 DEF IInv, DrawnInv
  <1> QED
    BY <1>1, Invariance, PTL
-----------------------------------------------------------------------------
(***************************************************************************)
(* The input queue.  That the queue is the newest Capacity of the fresh    *)
(* events is inductive with one more fact: the last event that waits is    *)
(* the last one accepted, so that comparing with it is comparing with the  *)
(* event before, whatever was evicted: LastInv.                            *)
(***************************************************************************)
LastInv ==
  IF taken = Len(pushed) THEN queue = << >>
  ELSE queue # << >> /\ Last(queue) = pushed[Len(pushed)]

QueueInv == QueueTypeOK /\ LastInv /\ QueueIsNewestCoalesced

\* An event that is accepted leaves the others where they were.
LEMMA PushAppends ==
  ASSUME QueueTypeOK, NEW e \in Event, Push(e)
  PROVE  LET n == Len(pushed)
         IN  /\ n \in Nat /\ taken \in 0 .. n /\ taken' = taken
             /\ Len(pushed') = n + 1 /\ pushed'[n + 1] = e
             /\ \A k \in 1 .. n : pushed'[k] = pushed[k]
  BY LenProperties, AppendProperties DEF QueueTypeOK, Push

\* The fresh events are those that were, and the new one if it does not repeat
\* the one before it.
LEMMA FreshGrows ==
  ASSUME QueueTypeOK, NEW e \in Event, Push(e)
  PROVE  LET n == Len(pushed)
         IN  Fresh' = IF taken = n \/ pushed[n] # e THEN Fresh \cup {n + 1} ELSE Fresh
  <1> DEFINE n == Len(pushed)
  <1>1. /\ n \in Nat /\ taken \in 0 .. n /\ taken' = taken
        /\ Len(pushed') = n + 1 /\ pushed'[n + 1] = e
        /\ \A k \in 1 .. n : pushed'[k] = pushed[k]
    BY PushAppends
  <1> HIDE DEF n
  <1>2. ASSUME NEW k \in taken + 1 .. n
        PROVE  k \in Fresh' <=> k \in Fresh
    <2>1. pushed'[k] = pushed[k]
      BY <1>1, <1>2
    <2>2. k # taken + 1 => pushed'[k - 1] = pushed[k - 1]
      BY <1>1, <1>2
    <2> QED
      BY <1>1, <2>1, <2>2 DEF Fresh, n
  <1>3. n + 1 \in Fresh' <=> taken = n \/ pushed[n] # e
    <2>1. taken # n => pushed'[n] = pushed[n]
      BY <1>1
    <2>2. n + 1 - 1 = n /\ (n + 1 = taken + 1 <=> taken = n)
      BY <1>1
    <2>3. n + 1 \in taken' + 1 .. Len(pushed')
      BY <1>1
    <2> QED
      BY <1>1, <2>1, <2>2, <2>3 DEF Fresh
  <1>4. Fresh \subseteq taken + 1 .. n /\ Fresh' \subseteq taken + 1 .. n + 1
    BY <1>1 DEF Fresh, n
  <1>5. \A k \in taken + 1 .. n + 1 : k \in taken + 1 .. n \/ k = n + 1
    BY <1>1
  <1>6. n + 1 \notin Fresh
    BY <1>1, <1>4
  <1> DEFINE isNew == taken = n \/ pushed[n] # e
  <1>7. ASSUME NEW k PROVE k \in Fresh' <=> k \in Fresh \/ (k = n + 1 /\ isNew)
    <2> HIDE DEF isNew
    <2>1. CASE k \in taken + 1 .. n
      <3>1. k # n + 1
        BY <1>1, <2>1
      <3> QED
        BY <1>2, <2>1, <3>1
    <2>2. CASE k = n + 1
      BY <1>3, <1>6, <2>2 DEF isNew
    <2>3. CASE k \notin taken + 1 .. n /\ k # n + 1
      BY <1>4, <1>5, <2>3
    <2> QED
      BY <2>1, <2>2, <2>3
  <1> HIDE DEF isNew
  <1>8. CASE isNew
    <2>1. Fresh' = Fresh \cup {n + 1}
      BY <1>7, <1>8
    <2> QED
      BY <1>8, <2>1 DEF n, isNew
  <1>9. CASE ~isNew
    <2>1. Fresh' = Fresh
      BY <1>7, <1>9
    <2> QED
      BY <1>9, <2>1 DEF n, isNew
  <1> QED
    BY <1>8, <1>9

\* The last event that waits stays the last one accepted.
LEMMA LastIsKept ==
  ASSUME QueueTypeOK, LastInv, NEW e \in Event, Push(e) PROVE LastInv'
  <1>1. /\ Len(pushed) \in Nat /\ taken' # Len(pushed')
        /\ pushed'[Len(pushed')] = e
    <2> DEFINE n == Len(pushed)
    <2>1. /\ n \in Nat /\ taken \in 0 .. n /\ taken' = taken
          /\ Len(pushed') = n + 1 /\ pushed'[n + 1] = e
      BY PushAppends
    <2> HIDE DEF n
    <2>2. taken' # Len(pushed') /\ pushed'[Len(pushed')] = e
      BY <2>1
    <2> QED
      BY <2>1, <2>2 DEF n
  <1>2. CASE Repeats(e)
    BY <1>1, <1>2 DEF Push, Repeats, LastInv
  <1>3. CASE ~Repeats(e)
    <2>1. MakeRoom \in Seq(Event)
      BY HeadTailProperties, EmptySeq, CapacityAssumption DEF MakeRoom, QueueTypeOK
    <2>2. queue' = Append(MakeRoom, e)
      BY <1>3 DEF Push
    <2>3. /\ Len(queue') = Len(MakeRoom) + 1 /\ Len(MakeRoom) \in Nat
          /\ queue'[Len(MakeRoom) + 1] = e
      BY <2>1, <2>2, AppendProperties, LenProperties
    <2>4. queue' # << >>
      BY <2>3, EmptySeq
    <2> QED
      BY <1>1, <2>3, <2>4 DEF LastInv, Last
  <1> QED
    BY <1>2, <1>3
\* A push keeps the queue the newest of the fresh events.
LEMMA PushCoalesces ==
  ASSUME QueueInv, NEW e \in Event, Push(e) PROVE QueueIsNewestCoalesced'
  <1> DEFINE n == Len(pushed)
             m == Len(queue)
  <1> USE CapacityAssumption
  <1>1. /\ n \in Nat /\ taken \in 0 .. n /\ taken' = taken
        /\ Len(pushed') = n + 1 /\ pushed'[n + 1] = e
        /\ \A k \in 1 .. n : pushed'[k] = pushed[k]
    BY PushAppends DEF QueueInv
  <1>2. Fresh' = IF taken = n \/ pushed[n] # e THEN Fresh \cup {n + 1} ELSE Fresh
    BY FreshGrows DEF QueueInv
  <1>3. queue \in Seq(Event) /\ m \in Nat /\ m <= Capacity
    BY LenProperties DEF QueueInv, QueueTypeOK
  <1>4. PICK at \in [1 .. m -> Fresh] :
          /\ \A i \in 1 .. m : queue[i] = pushed[at[i]]
          /\ \A i, j \in 1 .. m : i < j => at[i] < at[j]
          /\ \A k \in Fresh :
               \/ \E i \in 1 .. m : at[i] = k
               \/ m = Capacity /\ \A i \in 1 .. m : k < at[i]
    BY DEF QueueInv, QueueIsNewestCoalesced
  <1>5. Fresh \subseteq 1 .. n
    BY <1>1 DEF Fresh
  <1>6. \A i \in 1 .. m : at[i] \in Fresh /\ at[i] \in 1 .. n
    BY <1>4, <1>5
  <1>7. Repeats(e) <=> ~(taken = n \/ pushed[n] # e)
    BY DEF QueueInv, LastInv, Repeats
  <1> HIDE DEF n, m
  <1>8. CASE Repeats(e)
    <2>1. queue' = queue /\ Fresh' = Fresh
      BY <1>2, <1>7, <1>8 DEF Push
    <2>2. \A i \in 1 .. m : queue'[i] = pushed'[at[i]]
      BY <1>1, <1>4, <1>6, <2>1
    <2> QED
      BY <1>3, <1>4, <2>1, <2>2 DEF QueueIsNewestCoalesced, m
  <1>9. CASE ~Repeats(e) /\ ~(m >= Capacity)
    <2>1. queue' = Append(queue, e) /\ Fresh' = Fresh \cup {n + 1}
      BY <1>2, <1>7, <1>9 DEF Push, MakeRoom, m
    <2>2. /\ Len(queue') = m + 1 /\ queue'[m + 1] = e
          /\ \A i \in 1 .. m : queue'[i] = queue[i]
      BY <1>3, <2>1, AppendProperties DEF m
    <2> DEFINE next == [i \in 1 .. m + 1 |-> IF i = m + 1 THEN n + 1 ELSE at[i]]
    <2>3. \A i \in 1 .. m + 1 : i = m + 1 \/ i \in 1 .. m
      BY <1>3
    <2>4. m + 1 \in 1 .. m + 1 /\ 1 .. m \subseteq 1 .. m + 1 /\ m + 1 \notin 1 .. m
      BY <1>3
    <2>5. next[m + 1] = n + 1 /\ \A i \in 1 .. m : next[i] = at[i]
      BY <2>4
    <2>6. next \in [1 .. m + 1 -> Fresh']
      BY <1>6, <2>1, <2>3
    <2> HIDE DEF next
    <2>7. \A i \in 1 .. m + 1 : queue'[i] = pushed'[next[i]]
      BY SMTT(20), <1>1, <1>4, <1>6, <2>2, <2>3, <2>5
    <2>8. \A i, j \in 1 .. m + 1 : i < j => next[i] < next[j]
      <3> SUFFICES ASSUME NEW i \in 1 .. m + 1, NEW j \in 1 .. m + 1, i < j
                   PROVE  next[i] < next[j]
        OBVIOUS
      <3>1. i \in 1 .. m
        BY <1>3
      <3>2. CASE j = m + 1
        BY <1>1, <1>6, <2>5, <3>1, <3>2
      <3>3. CASE j \in 1 .. m
        BY <1>4, <2>5, <3>1, <3>3
      <3> QED
        BY <2>3, <3>2, <3>3
    <2>9. \A k \in Fresh' : \E i \in 1 .. m + 1 : next[i] = k
      BY <1>3, <1>4, <1>9, <2>1, <2>4, <2>5
    <2>10. m + 1 <= Capacity
      BY <1>3, <1>9
    <2> QED
      BY <2>2, <2>6, <2>7, <2>8, <2>9, <2>10 DEF QueueIsNewestCoalesced
  <1>10. CASE ~Repeats(e) /\ m >= Capacity
    <2>1. m = Capacity /\ queue # << >>
      BY <1>3, <1>10, EmptySeq DEF m
    <2>2. queue' = Append(Tail(queue), e) /\ Fresh' = Fresh \cup {n + 1}
      BY <1>2, <1>7, <1>10 DEF Push, MakeRoom, m
    <2>3. /\ Tail(queue) \in Seq(Event) /\ Len(Tail(queue)) = m - 1
          /\ \A i \in 1 .. m - 1 : Tail(queue)[i] = queue[i + 1]
      BY <1>3, <2>1, HeadTailProperties DEF m
    <2>4. Len(queue') = m /\ queue'[m] = e
      BY <1>3, <2>2, <2>3, AppendProperties
    <2>5. \A i \in 1 .. m - 1 : queue'[i] = queue[i + 1]
      BY <2>2, <2>3, AppendProperties
    <2> DEFINE next == [i \in 1 .. m |-> IF i = m THEN n + 1 ELSE at[i + 1]]
    <2>6. /\ m \in 1 .. m /\ \A i \in 1 .. m : i = m \/ i \in 1 .. m - 1
          /\ \A i \in 1 .. m - 1 : i \in 1 .. m /\ i # m /\ i + 1 \in 1 .. m
      BY <1>3, <2>1
    <2>7. next[m] = n + 1 /\ \A i \in 1 .. m - 1 : next[i] = at[i + 1]
      BY <2>6
    <2>8. next \in [1 .. m -> Fresh']
      BY <1>6, <2>2, <2>6
    <2> HIDE DEF next
    <2>9. \A i \in 1 .. m : queue'[i] = pushed'[next[i]]
      <3> SUFFICES ASSUME NEW i \in 1 .. m PROVE queue'[i] = pushed'[next[i]]
        OBVIOUS
      <3>1. CASE i = m
        BY <1>1, <2>4, <2>7, <3>1
      <3>2. CASE i \in 1 .. m - 1
        <4>1. i + 1 \in 1 .. m /\ next[i] = at[i + 1] /\ queue'[i] = queue[i + 1]
          BY <2>5, <2>6, <2>7, <3>2
        <4>2. queue[i + 1] = pushed[at[i + 1]] /\ at[i + 1] \in 1 .. n
          BY <1>4, <1>6, <4>1
        <4> QED
          BY <1>1, <4>1, <4>2
      <3> QED
        BY <2>6, <3>1, <3>2
    <2>10. \A i, j \in 1 .. m : i < j => next[i] < next[j]
      <3> SUFFICES ASSUME NEW i \in 1 .. m, NEW j \in 1 .. m, i < j
                   PROVE  next[i] < next[j]
        OBVIOUS
      <3>1. i \in 1 .. m - 1 /\ i + 1 \in 1 .. m
        BY <1>3
      <3>2. CASE j = m
        BY <1>1, <1>6, <2>7, <3>1, <3>2
      <3>3. CASE j \in 1 .. m - 1
        <4>1. i + 1 < j + 1 /\ j + 1 \in 1 .. m
          BY <2>6, <3>1, <3>3
        <4> QED
          BY <1>4, <2>7, <3>1, <3>3, <4>1
      <3> QED
        BY <2>6, <3>2, <3>3
    <2>11. ASSUME NEW k \in Fresh'
           PROVE  \/ \E i \in 1 .. m : next[i] = k
                  \/ \A i \in 1 .. m : k < next[i]
      <3>1. CASE k = n + 1
        BY <2>6, <2>7, <3>1
      <3>2. ASSUME k \in Fresh, NEW i \in 1 .. m, at[i] = k
            PROVE  \/ \E j \in 1 .. m : next[j] = k
                   \/ \A j \in 1 .. m : k < next[j]
        <4>1. CASE i = 1
          <5>1. ASSUME NEW j \in 1 .. m PROVE k < next[j]
            <6>1. CASE j = m
              BY <1>1, <1>6, <2>7, <3>2, <6>1
            <6>2. CASE j \in 1 .. m - 1
              <7>1. 1 < j + 1 /\ j + 1 \in 1 .. m /\ 1 \in 1 .. m
                BY <2>6, <6>2
              <7> QED
                BY <1>4, <2>7, <3>2, <4>1, <6>2, <7>1
            <6> QED
              BY <2>6, <6>1, <6>2
          <5> QED
            BY <5>1
        <4>2. CASE i # 1
          <5>1. i - 1 \in 1 .. m - 1 /\ i - 1 \in 1 .. m /\ i - 1 + 1 = i
            BY <1>3, <4>2
          <5> QED
            BY <2>7, <3>2, <5>1
        <4> QED
          BY <4>1, <4>2
      <3>3. ASSUME k \in Fresh, \A i \in 1 .. m : k < at[i]
            PROVE  \A j \in 1 .. m : k < next[j]
        <4> SUFFICES ASSUME NEW j \in 1 .. m PROVE k < next[j]
          OBVIOUS
        <4>1. CASE j = m
          BY <1>1, <1>5, <2>7, <3>3, <4>1
        <4>2. CASE j \in 1 .. m - 1
          BY <2>6, <2>7, <3>3, <4>2
        <4> QED
          BY <2>6, <4>1, <4>2
      <3> QED
        BY <1>4, <2>2, <3>1, <3>2, <3>3
    <2> QED
      BY SMTT(20), <2>1, <2>4, <2>8, <2>9, <2>10, <2>11 DEF QueueIsNewestCoalesced
  <1> QED
    BY <1>8, <1>9, <1>10

\* Every step keeps what is known of the queue.
LEMMA QueueStep == QueueInv /\ [Next]_vars => QueueInv'
  <1> SUFFICES ASSUME QueueInv, [Next]_vars PROVE QueueInv'
    OBVIOUS
  <1> USE DEF hostVars, bufferVars, tickVars
  <1>1. CASE UNCHANGED queueVars
    <2>1. queue' = queue /\ pushed' = pushed /\ taken' = taken
      BY <1>1 DEF queueVars
    <2>2. QueueTypeOK'
      BY <2>1 DEF QueueInv, QueueTypeOK
    <2>3. LastInv'
      BY <2>1 DEF QueueInv, LastInv
    <2>4. Fresh' = Fresh
      BY <2>1 DEF Fresh
    <2>5. QueueIsNewestCoalesced'
      BY <2>1, <2>4 DEF QueueInv, QueueIsNewestCoalesced
    <2> QED
      BY <2>2, <2>3, <2>5 DEF QueueInv
  <1>2. ASSUME NEW e \in Event, Push(e) PROVE QueueInv'
    BY <1>2, PushKeeps, LastIsKept, PushCoalesces DEF QueueInv
  <1>3. CASE Drain
    <2>1. << >> \in Seq(Event) /\ Len(<< >>) = 0 /\ Len(pushed) \in Nat
      BY EmptySeq, LenProperties DEF QueueInv, QueueTypeOK
    <2>2. /\ queue' = << >> /\ pushed' = pushed /\ taken' = Len(pushed')
          /\ Len(pushed') \in Nat
      BY <1>3, <2>1 DEF Drain
    <2>3. QueueTypeOK' /\ LastInv'
      BY <2>1, <2>2, CapacityAssumption DEF QueueInv, QueueTypeOK, LastInv
    <2>4. Fresh' = {}
      BY <2>2 DEF Fresh
    <2>5. QueueIsNewestCoalesced'
      <3> DEFINE at == [i \in 1 .. Len(queue') |-> 1]
      <3>1. Len(queue') = 0 /\ Len(queue') <= Capacity
        BY <2>1, <2>2, CapacityAssumption
      <3>2. at \in [1 .. Len(queue') -> Fresh']
        BY <3>1
      <3> HIDE DEF at
      <3> QED
        BY <2>4, <3>1, <3>2 DEF QueueIsNewestCoalesced
    <2> QED
      BY <2>3, <2>5 DEF QueueInv
  <1>4. ASSUME NEW t \in Tickers, TickStep(t) PROVE QueueInv'
    BY <1>1, <1>3, <1>4 DEF TickStep, BeginTick, DrainInput, PinImage, PinSystems,
                            CallDemo, EndSystems, StoreCount, Flip
  <1> QED
    BY <1>1, <1>2, <1>4 DEF Next, vars, PushEvent, MapImage, InitDemo, RegisterDemo

\* Whatever is pushed and drained, in any order and with any capacity: a drain
\* hands out the newest events that do not repeat the one before them
\* (input.rs: process_input_event, drain_input_events).
THEOREM QueueCoalesces == Spec => []QueueIsNewestCoalesced
  <1>1. Init => QueueInv
    <2> SUFFICES ASSUME Init PROVE QueueInv
      OBVIOUS
    <2>1. << >> \in Seq(Event) /\ Len(<< >>) = 0
      BY EmptySeq
    <2>2. queue = << >> /\ pushed = << >> /\ taken = 0
      BY DEF Init, QueueInit
    <2>3. QueueTypeOK /\ LastInv
      BY <2>1, <2>2, CapacityAssumption, BoundAssumption DEF QueueTypeOK, LastInv
    <2> DEFINE at == [i \in 1 .. Len(queue) |-> 1]
    <2>4. Fresh = {} /\ Len(queue) = 0 /\ Len(queue) <= Capacity
      BY <2>1, <2>2, CapacityAssumption DEF Fresh
    <2>5. at \in [1 .. Len(queue) -> Fresh]
      BY <2>4
    <2> HIDE DEF at
    <2>6. QueueIsNewestCoalesced
      BY <2>4, <2>5 DEF QueueIsNewestCoalesced
    <2> QED
      BY <2>3, <2>6 DEF QueueInv
  <1>2. QueueInv => QueueIsNewestCoalesced
    BY DEF QueueInv
  <1> QED
    BY <1>1, <1>2, QueueStep, PTL DEF Spec
=============================================================================
