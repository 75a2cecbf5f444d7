------------------------- MODULE RenderBufferProofs -------------------------
(***************************************************************************)
(* Proofs about RenderBuffer, for every capacity and number of ticks: the  *)
(* double buffer implements FrameMailbox, and the painter draws no stale   *)
(* command however it is interleaved with the ticking thread.              *)
(***************************************************************************)
EXTENDS RenderBuffer, TLAPS

(***************************************************************************)
(* The inductive invariant.  WriterInv: the thread in a tick writes the    *)
(* buffer that is not on display, what it has counted so far is its own    *)
(* but for the gaps, and the buffer on display holds the frame of the last *)
(* published tick.  AgeInv: what the buffer being written still holds of   *)
(* earlier ticks is at least two ticks old.  ReaderInv: every slot the     *)
(* painter may still read is a gap or at least as recent as its snapshot.  *)
(***************************************************************************)
\* The first n slots of buffer b are of tick t but for the gaps.
Counted(b, n, t) ==
  \A i \in 1 .. n : i \notin gaps[b] => slots[b][i] = t

Current(v) == v >= since /\ v > 0

WriterInv ==
  /\ wpc # "idle" => target = back /\ tick > 0
  /\ wpc = "systems" => Counted(target, base, tick)
  /\ wpc \in {"total", "flip"} => Counted(target, count[target], tick)
  /\ Counted(1 - back, count[1 - back], Published)
  /\ Published = 0 => count[1 - back] = 0

AgeInv ==
  /\ wpc = "idle" => \A i \in 1 .. Capacity : slots[back][i] \in Mailbox!Leftover(tick + 1)
  /\ wpc # "idle" =>
       \A i \in 1 .. Capacity :
         slots[target][i] \in {tick} \cup Mailbox!Leftover(tick)
  /\ \A i \in 1 .. Capacity : slots[1 - back][i] <= Published
  /\ wpc # "idle" =>
       \A i \in 1 .. Capacity : i \in gaps[target] => slots[target][i] # tick

ReaderInv ==
  /\ since <= Published
  /\ rpc = "count" =>
       \A i \in 1 .. count[front] : i \in gaps[front] \/ Current(slots[front][i])
  /\ rpc = "paint" =>
       \A i \in 1 .. claimed : i \in gaps[front] \/ Current(slots[front][i])
  /\ rpc = "paint" => Len(seen) < claimed
  /\ rpc = "idle" => Len(seen) = claimed

\* As long as nothing newer is published, the painter is on the buffer on
\* display and has read what it holds.
IntactInv ==
  Published = since =>
    /\ rpc = "count" => front = 1 - back
    /\ rpc # "count" /\ claimed > 0 =>
         /\ front = 1 - back
         /\ claimed = count[front]
         /\ \A i \in 1 .. Len(seen) : seen[i] = slots[front][i]

IInv == TypeOK /\ WriterInv /\ AgeInv /\ ReaderInv /\ IntactInv

-----------------------------------------------------------------------------
\* The invariant holds before the first tick and the first paint.
LEMMA InitIInv == Init => IInv
  <1> SUFFICES ASSUME Init PROVE IInv
    OBVIOUS
  <1> USE CapacityAssumption, BoundAssumption DEF Init, Buffer, Published
  <1>1. TypeOK
    BY DEF TypeOK
  <1>2. WriterInv
    BY DEF WriterInv, Counted
  <1>3. ReaderInv /\ IntactInv
    BY DEF ReaderInv, IntactInv
  <1>4. AgeInv
    BY DEF AgeInv, Mailbox!Leftover
  <1> QED
    BY <1>1, <1>2, <1>3, <1>4 DEF IInv

\* No step leaves the types.
LEMMA TypeStep == IInv /\ [Next]_vars => TypeOK'
  <1> SUFFICES ASSUME IInv, [Next]_vars PROVE TypeOK'
    OBVIOUS
  <1> USE CapacityAssumption, BoundAssumption DEF IInv, TypeOK, Buffer
  <1>1. CASE BeginTick
    BY <1>1 DEF BeginTick, bufVars, readerVars
  <1>2. CASE WriteCommand
    <2>1. PICK i \in base + 1 .. Capacity :
            /\ slots' = [slots EXCEPT ![target][i] = tick]
            /\ gaps' = [gaps EXCEPT ![target] = @ \ {i}]
      BY <1>2 DEF WriteCommand
    <2>2. UNCHANGED <<back, count, total, wpc, tick, target, base, readerVars>>
      BY <1>2 DEF WriteCommand
    <2>3. slots' \in [Buffer -> [1 .. Capacity -> 0 .. MaxTicks]]
      BY <2>1
    <2>4. gaps' \in [Buffer -> SUBSET (1 .. Capacity)]
      BY <2>1
    <2> QED
      BY <2>2, <2>3, <2>4 DEF readerVars
  <1>3. CASE SystemReturns
    <2>1. PICK n \in 0 .. Capacity - base :
            /\ base' = base + n
            /\ gaps' = [gaps EXCEPT ![target] =
                 @ \cup {i \in base + 1 .. base + n : slots[target][i] # tick}]
      BY <1>3 DEF SystemReturns
    <2>2. UNCHANGED <<bufVars, wpc, tick, target, readerVars>>
      BY <1>3 DEF SystemReturns
    <2>3. base' \in 0 .. Capacity /\ base + 1 .. base + n \subseteq 1 .. Capacity
      BY <2>1
    <2>4. gaps' \in [Buffer -> SUBSET (1 .. Capacity)]
      BY <2>1, <2>3
    <2> QED
      BY <2>2, <2>3, <2>4 DEF bufVars, readerVars
  <1>5. CASE StoreCount
    BY <1>5 DEF StoreCount, readerVars
  <1>6. CASE StoreTotal
    BY <1>6 DEF StoreTotal, readerVars
  <1>7. CASE Flip
    BY SMTT(20), <1>7 DEF Flip, readerVars
  <1>8. CASE ReadIndex
    BY SMTT(20), <1>8 DEF ReadIndex, Published, WriterInv, bufVars, writerVars
  <1>9. CASE ReadCount
    BY SMTT(20), <1>9 DEF ReadCount, bufVars, writerVars
  <1>10. CASE PaintCommand
    <2> DEFINE next == slots[front][Len(seen) + 1]
    <2>1. Len(seen) + 1 \in 1 .. claimed
      BY <1>10 DEF PaintCommand, ReaderInv
    <2>2. next \in 0 .. MaxTicks
      BY SMTT(20), <2>1
    <2>3. seen' \in Seq(0 .. MaxTicks) /\ Len(seen') = Len(seen) + 1
      BY <1>10, <2>2 DEF PaintCommand
    <2>4. Len(seen') <= Capacity
      BY <2>1, <2>3
    <2>5. UNCHANGED <<bufVars, writerVars, front, claimed, since>>
      BY <1>10 DEF PaintCommand
    <2>6. rpc' \in {"idle", "count", "paint"}
      BY <1>10 DEF PaintCommand
    <2> HIDE DEF next
    <2> QED
      BY <2>3, <2>4, <2>5, <2>6 DEF bufVars, writerVars
  <1>11. CASE UNCHANGED vars
    BY <1>11 DEF vars, bufVars, writerVars, readerVars
  <1> QED
    BY <1>1, <1>2, <1>3, <1>5, <1>6, <1>7, <1>8, <1>9, <1>10, <1>11
    DEF Next, Tick, Paint

\* The tick protocol keeps the writer's part, whatever the painter does.
LEMMA WriterStep == IInv /\ [Next]_vars => WriterInv'
  <1> SUFFICES ASSUME IInv, [Next]_vars PROVE WriterInv'
    OBVIOUS
  <1> USE CapacityAssumption, BoundAssumption
      DEF IInv, TypeOK, Buffer, WriterInv, Counted, Published
  <1>1. CASE BeginTick
    BY <1>1 DEF BeginTick, bufVars
  <1>2. CASE WriteCommand
    <2>1. PICK i \in base + 1 .. Capacity :
            /\ slots' = [slots EXCEPT ![target][i] = tick]
            /\ gaps' = [gaps EXCEPT ![target] = @ \ {i}]
      BY <1>2 DEF WriteCommand
    <2>2. UNCHANGED <<back, count, wpc, tick, target, base>> /\ wpc = "systems"
      BY <1>2 DEF WriteCommand
    <2>3. target = back /\ target # 1 - back
      BY <2>2
    <2>4. slots'[1 - back] = slots[1 - back] /\ gaps'[1 - back] = gaps[1 - back]
      BY <2>1, <2>3
    <2>5. \A j \in 1 .. base : /\ slots'[target][j] = slots[target][j]
                               /\ j \in gaps'[target] <=> j \in gaps[target]
      BY <2>1
    <2> QED
      BY <2>2, <2>4, <2>5
  <1>3. CASE SystemReturns
    <2>1. PICK n \in 0 .. Capacity - base :
            /\ base' = base + n
            /\ gaps' = [gaps EXCEPT ![target] =
                 @ \cup {i \in base + 1 .. base + n : slots[target][i] # tick}]
      BY <1>3 DEF SystemReturns
    <2>2. UNCHANGED <<back, count, slots, wpc, tick, target>> /\ wpc = "systems"
      BY <1>3 DEF SystemReturns, bufVars
    <2>3. target = back /\ target # 1 - back
      BY <2>2
    <2>4. gaps'[1 - back] = gaps[1 - back]
      BY <2>1, <2>3
    <2>5. Counted(target, base, tick)'
      <3> SUFFICES ASSUME NEW j \in 1 .. base', j \notin gaps'[target]
                   PROVE  slots[target][j] = tick
        BY <2>2
      <3>1. j \notin gaps[target] /\ ~(j \in base + 1 .. base + n /\ slots[target][j] # tick)
        BY <2>1
      <3>2. j \in 1 .. base \/ j \in base + 1 .. base + n
        BY <2>1
      <3> QED
        BY <2>2, <3>1, <3>2
    <2> QED
      BY <2>2, <2>4, <2>5
  <1>5. CASE StoreCount
    BY <1>5 DEF StoreCount
  <1>6. CASE StoreTotal
    BY <1>6 DEF StoreTotal
  <1>7. CASE Flip
    BY <1>7 DEF Flip
  <1>8. CASE Paint
    BY <1>8 DEF Paint, ReadIndex, ReadCount, PaintCommand, bufVars, writerVars
  <1>9. CASE UNCHANGED vars
    BY <1>9 DEF vars, bufVars, writerVars
  <1> QED
    BY <1>1, <1>2, <1>3, <1>5, <1>6, <1>7, <1>8, <1>9 DEF Next, Tick

\* The buffers alternate: what a tick finds in the one it writes was put there
\* by the tick before the last at the latest.
LEMMA AgeStep == IInv /\ [Next]_vars => AgeInv'
  <1> SUFFICES ASSUME IInv, [Next]_vars PROVE AgeInv'
    OBVIOUS
  <1> USE CapacityAssumption, BoundAssumption
      DEF IInv, TypeOK, Buffer, AgeInv, Published, Mailbox!Leftover
  <1>1. CASE BeginTick
    <2>1. /\ wpc = "idle" /\ wpc' = "systems" /\ tick' = tick + 1 /\ target' = back
          /\ UNCHANGED <<back, count, slots, gaps>>
      BY <1>1 DEF BeginTick, bufVars
    <2> HIDE DEF Mailbox!Leftover
    <2>2. \A i \in 1 .. Capacity : /\ slots[back][i] \in Mailbox!Leftover(tick + 1)
                                  /\ slots[back][i] # tick + 1
      <3>1. \A i \in 1 .. Capacity : slots[back][i] \in Mailbox!Leftover(tick + 1)
        BY <2>1
      <3>2. tick \in Nat
        BY <2>1
      <3>3. tick + 1 \notin Mailbox!Leftover(tick + 1)
        BY ONLY <3>2 DEF Mailbox!Leftover
      <3> QED
        BY ONLY <3>1, <3>3
    <2>3. Published' = Published
      BY <2>1
    <2> QED
      BY <2>1, <2>2, <2>3
  <1>2. CASE WriteCommand
    <2>1. PICK i \in base + 1 .. Capacity :
            /\ slots' = [slots EXCEPT ![target][i] = tick]
            /\ gaps' = [gaps EXCEPT ![target] = @ \ {i}]
      BY <1>2 DEF WriteCommand
    <2>2. UNCHANGED <<back, count, wpc, tick, target, base>> /\ wpc = "systems"
      BY <1>2 DEF WriteCommand
    <2>3. target = back /\ target # 1 - back
      BY <2>2 DEF WriterInv
    <2>4. slots'[1 - back] = slots[1 - back]
      BY <2>1, <2>3
    <2>5. \A j \in 1 .. Capacity :
            slots'[target][j] = tick \/ slots'[target][j] = slots[target][j]
      BY <2>1
    <2>6. \A j \in gaps'[target] : j \in gaps[target] /\ slots'[target][j] = slots[target][j]
      BY <2>1
    <2> QED
      BY <2>2, <2>4, <2>5, <2>6
  <1>3. CASE SystemReturns
    <2>1. PICK n \in 0 .. Capacity - base :
            /\ base' = base + n
            /\ gaps' = [gaps EXCEPT ![target] =
                 @ \cup {i \in base + 1 .. base + n : slots[target][i] # tick}]
      BY <1>3 DEF SystemReturns
    <2>2. UNCHANGED <<back, count, slots, wpc, tick, target>> /\ wpc = "systems"
      BY <1>3 DEF SystemReturns, bufVars
    <2>3. \A j \in 1 .. Capacity : j \in gaps'[target] => slots[target][j] # tick
      BY <2>1, <2>2
    <2> QED
      BY <2>2, <2>3
  <1>5. CASE StoreCount
    BY <1>5 DEF StoreCount
  <1>6. CASE StoreTotal
    BY <1>6 DEF StoreTotal
  <1>7. CASE Flip
    <2>1. /\ wpc = "flip" /\ wpc' = "idle" /\ back' = 1 - target
          /\ UNCHANGED <<slots, tick>>
      BY <1>7 DEF Flip
    <2>2. target = back /\ tick > 0
      BY <2>1 DEF WriterInv
    <2>3. \A i \in 1 .. Capacity : slots[1 - back][i] \in 0 .. tick - 1
      BY SMTT(20), <2>1
    <2>4. \A i \in 1 .. Capacity : slots[1 - back][i] \in Mailbox!Leftover(tick + 1)
      <3>1. tick \in Nat
        BY <2>2
      <3> QED
        BY ONLY <2>2, <2>3, <3>1 DEF Mailbox!Leftover
    <2>5. \A i \in 1 .. Capacity : slots[target][i] <= tick
      BY SMTT(20), <2>1
    <2>6. 1 - back' = target /\ back' = 1 - back
      BY <2>1, <2>2
    <2> QED
      BY <2>1, <2>4, <2>5, <2>6
  <1>8. CASE Paint
    BY <1>8 DEF Paint, ReadIndex, ReadCount, PaintCommand, bufVars, writerVars
  <1>9. CASE UNCHANGED vars
    BY <1>9 DEF vars, bufVars, writerVars
  <1> QED
    BY <1>1, <1>2, <1>3, <1>5, <1>6, <1>7, <1>8, <1>9 DEF Next, Tick

\* Nothing the ticking thread writes makes the painter's slots older.
LEMMA ReaderStep == IInv /\ [Next]_vars => ReaderInv'
  <1> SUFFICES ASSUME IInv, [Next]_vars PROVE ReaderInv'
    OBVIOUS
  <1> USE CapacityAssumption, BoundAssumption
      DEF IInv, TypeOK, Buffer, ReaderInv, Published, Current
  <1>1. CASE BeginTick
    BY <1>1 DEF BeginTick, bufVars, readerVars
  <1>2. CASE WriteCommand
    <2> DEFINE fine(j) == j \in gaps[front] \/ Current(slots[front][j])
               fine2(j) == j \in gaps'[front] \/ Current(slots'[front][j])
    <2>1. PICK i \in base + 1 .. Capacity :
            /\ slots' = [slots EXCEPT ![target][i] = tick]
            /\ gaps' = [gaps EXCEPT ![target] = @ \ {i}]
      BY <1>2 DEF WriteCommand
    <2>2. UNCHANGED <<count, wpc, tick, readerVars>>
      BY <1>2 DEF WriteCommand
    <2>3. i \in 1 .. Capacity /\ Current(tick)
      BY <1>2 DEF WriteCommand, WriterInv
    <2>4. \A j \in 1 .. Capacity : fine(j) => fine2(j)
      BY <2>1, <2>3
    <2>5. count[front] \in 0 .. Capacity /\ claimed \in 0 .. Capacity
      OBVIOUS
    <2>6. Published' = Published
      BY <2>2
    <2>9. /\ \A j \in 1 .. count[front] : j \in 1 .. Capacity
          /\ \A j \in 1 .. claimed : j \in 1 .. Capacity
      BY SMTT(20), <2>5
    <2>10. /\ rpc = "count" => \A j \in 1 .. count[front] : fine(j)
           /\ rpc = "paint" => \A j \in 1 .. claimed : fine(j)
      OBVIOUS
    <2> HIDE DEF fine, fine2
    <2>7. rpc = "count" => \A j \in 1 .. count[front] : fine2(j)
      BY <2>4, <2>9, <2>10
    <2>8. rpc = "paint" => \A j \in 1 .. claimed : fine2(j)
      BY <2>4, <2>9, <2>10
    <2> QED
      BY <2>2, <2>6, <2>7, <2>8 DEF fine2, readerVars
  <1>3. CASE SystemReturns
    <2>1. \A j : j \in gaps[front] => j \in gaps'[front]
      BY <1>3 DEF SystemReturns
    <2>2. UNCHANGED <<count, slots, wpc, tick, readerVars>>
      BY <1>3 DEF SystemReturns, bufVars
    <2> QED
      BY <2>1, <2>2 DEF readerVars
  <1>5. CASE StoreCount
    BY SMTT(20), <1>5 DEF StoreCount, WriterInv, Counted, readerVars
  <1>6. CASE StoreTotal
    BY <1>6 DEF StoreTotal, readerVars
  <1>7. CASE Flip
    BY <1>7 DEF Flip, readerVars
  <1>8. CASE ReadIndex
    BY SMTT(20), <1>8 DEF ReadIndex, WriterInv, Counted, bufVars, writerVars
  <1>9. CASE ReadCount
    BY <1>9 DEF ReadCount, bufVars, writerVars
  <1>10. CASE PaintCommand
    <2>1. Len(seen') = Len(seen) + 1 /\ Len(seen) < claimed
      BY <1>10 DEF PaintCommand
    <2>2. rpc' = "paint" => Len(seen) + 1 # claimed
      BY <1>10 DEF PaintCommand
    <2>3. rpc' = "idle" => Len(seen) + 1 = claimed
      BY <1>10 DEF PaintCommand
    <2>4. UNCHANGED <<bufVars, writerVars, front, claimed, since>>
      BY <1>10 DEF PaintCommand
    <2>5. rpc = "paint" /\ rpc' \in {"idle", "paint"}
      BY <1>10 DEF PaintCommand
    <2>6. Len(seen) \in Nat /\ claimed \in Nat
      OBVIOUS
    <2> QED
      BY <2>1, <2>2, <2>3, <2>4, <2>5, <2>6 DEF bufVars, writerVars
  <1>11. CASE UNCHANGED vars
    BY <1>11 DEF vars, bufVars, writerVars, readerVars
  <1> QED
    BY <1>1, <1>2, <1>3, <1>5, <1>6, <1>7, <1>8, <1>9, <1>10, <1>11
    DEF Next, Tick, Paint

\* A tick in progress writes only the buffer that is not on display.
LEMMA IntactStep == IInv /\ [Next]_vars => IntactInv'
  <1> SUFFICES ASSUME IInv, [Next]_vars PROVE IntactInv'
    OBVIOUS
  <1> USE CapacityAssumption, BoundAssumption
      DEF IInv, TypeOK, Buffer, IntactInv, Published
  <1>1. CASE BeginTick
    BY <1>1 DEF BeginTick, bufVars, readerVars
  <1>2. CASE WriteCommand
    BY <1>2 DEF WriteCommand, WriterInv, readerVars
  <1>3. CASE SystemReturns
    BY <1>3 DEF SystemReturns, bufVars, readerVars
  <1>4. CASE StoreCount
    BY <1>4 DEF StoreCount, WriterInv, readerVars
  <1>5. CASE StoreTotal
    BY <1>5 DEF StoreTotal, readerVars
  <1>6. CASE Flip
    BY <1>6 DEF Flip, WriterInv, ReaderInv, readerVars
  <1>7. CASE ReadIndex
    BY <1>7 DEF ReadIndex, bufVars, writerVars
  <1>8. CASE ReadCount
    BY <1>8 DEF ReadCount, ReaderInv, bufVars, writerVars
  <1>9. CASE PaintCommand
    <2> DEFINE next == Len(seen) + 1
    <2>1. UNCHANGED <<bufVars, writerVars, front, claimed, since>>
      BY <1>9 DEF PaintCommand
    <2>2. rpc = "paint" /\ rpc' # "count" /\ seen' = Append(seen, slots[front][next])
      BY <1>9 DEF PaintCommand
    <2>3. next \in 1 .. claimed /\ claimed \in 0 .. Capacity
      BY <2>2 DEF ReaderInv
    <2>4. slots[front][next] \in 0 .. MaxTicks
      BY SMTT(20), <2>3
    <2>6. seen \in Seq(0 .. MaxTicks) /\ Len(seen) \in Nat
      OBVIOUS
    <2>5. \A i \in 1 .. Len(seen') :
            IF i = next THEN seen'[i] = slots[front][next]
                        ELSE i \in 1 .. Len(seen) /\ seen'[i] = seen[i]
      BY ONLY <2>2, <2>4, <2>6
    <2> HIDE DEF next
    <2> QED
      BY <2>1, <2>2, <2>5 DEF bufVars, writerVars
  <1>10. CASE UNCHANGED vars
    BY <1>10 DEF vars, bufVars, writerVars, readerVars
  <1> QED
    BY <1>1, <1>2, <1>3, <1>4, <1>5, <1>6, <1>7, <1>8, <1>9, <1>10
    DEF Next, Tick, Paint

\* The invariant is kept by every step of the two threads.
THEOREM Invariance == Spec => []IInv
  <1>1. IInv /\ [Next]_vars => IInv'
    BY TypeStep, WriterStep, AgeStep, ReaderStep, IntactStep DEF IInv
  <1> QED
    BY InitIInv, <1>1, PTL DEF Spec

\* No index, count or slot ever leaves its range: the counts that are stored
\* and the painter stay inside the buffers, whatever the systems claim.
THEOREM TypeCorrect == Spec => []TypeOK
  <1>1. IInv => TypeOK
    BY DEF IInv
  <1> QED
    BY Invariance, <1>1, PTL

\* The painter (primitive_canvas.dart) draws nothing older than what was on
\* display when it called get_front_buffer_snapshot and nothing uninitialised,
\* except from a slot that a system claimed without writing it.
THEOREM PainterNeverStale == Spec => []NoStaleCommand
  <1>1. IInv => NoStaleCommand
    <2> SUFFICES ASSUME IInv, rpc = "paint" PROVE NoStaleCommand
      BY DEF NoStaleCommand
    <2>1. Len(seen) \in Nat /\ claimed \in Nat /\ Len(seen) < claimed
      BY CapacityAssumption DEF IInv, TypeOK, ReaderInv
    <2>2. Len(seen) + 1 \in 1 .. claimed
      BY <2>1
    <2> QED
      BY <2>2 DEF IInv, ReaderInv, Current, NoStaleCommand
  <1> QED
    BY Invariance, <1>1, PTL

\* A frame is torn only by a tick that was published after the snapshot.
THEOREM PainterIntact == Spec => []IntactUnlessOvertaken
  <1>1. IInv => IntactUnlessOvertaken
    <2> SUFFICES ASSUME IInv, Published = since PROVE IntactUnlessOvertaken
      BY DEF IntactUnlessOvertaken
    <2> USE CapacityAssumption DEF IInv, IntactInv, ReaderInv, TypeOK, Frame,
                                   IntactUnlessOvertaken, Buffer
    <2>1. ASSUME rpc = "paint"
          PROVE  claimed = Len(Frame) /\ seen = SubSeq(Frame, 1, Len(seen))
      BY <2>1
    <2>2. ASSUME rpc = "idle", claimed > 0 PROVE seen = Frame
      BY <2>2
    <2> QED
      BY <2>1, <2>2
  <1> QED
    BY Invariance, <1>1, PTL

\* pipeline.rs implements the mailbox: a flip publishes the whole frame of the
\* tick that ends, with nothing foreign in it but the slots that a system
\* claimed without writing, and no other step changes what the back index shows.
THEOREM Refinement == Spec => ImplementsMailbox
  <1>1. Init => Mailbox!Init
    BY CapacityAssumption
    DEF Init, Mailbox!Init, Frame, Holes, Published, Buffer
  <1>2. IInv /\ IInv' /\ [Next]_vars => [Mailbox!Publish]_Mailbox!vars
    <2> SUFFICES ASSUME IInv, IInv', [Next]_vars
                 PROVE  Mailbox!Publish \/ UNCHANGED Mailbox!vars
      OBVIOUS
    <2> USE CapacityAssumption, BoundAssumption
        DEF IInv, TypeOK, Buffer, Published, Frame, Holes, Mailbox!vars
    <2>1. CASE BeginTick
      BY <2>1 DEF BeginTick, bufVars
    <2>2. CASE WriteCommand
      BY <2>2 DEF WriteCommand, WriterInv
    <2>3. CASE SystemReturns
      BY <2>3 DEF SystemReturns, WriterInv, bufVars
    <2>4. CASE StoreCount
      BY <2>4 DEF StoreCount, WriterInv
    <2>5. CASE StoreTotal
      BY <2>5 DEF StoreTotal
    <2>6. CASE Flip
      <3> DEFINE n == count[target]
      <3>1. wpc = "flip" /\ wpc' = "idle" /\ back' = 1 - target
            /\ UNCHANGED <<count, slots, tick, gaps>>
        BY <2>6 DEF Flip
      <3>2. Published' = Published + 1 /\ Published < MaxTicks /\ Published + 1 = tick
        BY <3>1 DEF WriterInv
      <3>3. n \in 0 .. Capacity /\ 1 - back' = target
        BY SMTT(20), <3>1
      <3>4. Frame' = [i \in 1 .. n |-> slots[target][i]]
        BY <3>1, <3>3
      <3>5. Holes' = gaps[target] \cap 1 .. n
        BY <3>1, <3>3
      <3>6. ASSUME NEW i \in 1 .. n
            PROVE  IF i \in Holes' THEN Frame'[i] \in Mailbox!Leftover(tick)
                                   ELSE Frame'[i] = tick
        <4>1. i \in 1 .. Capacity
          BY SMTT(20), <3>3
        <4>2. i \notin gaps[target] => slots[target][i] = tick
          BY <3>1 DEF WriterInv, Counted
        <4>3. i \in gaps[target] => slots[target][i] # tick
          BY <3>1, <4>1 DEF AgeInv
        <4>4. slots[target][i] \in {tick} \cup Mailbox!Leftover(tick)
          BY <3>1, <4>1 DEF AgeInv
        <4> QED
          BY <3>4, <3>5, <4>2, <4>3, <4>4
      <3>7. Frame' \in [1 .. n -> 0 .. tick]
        <4>1. \A i \in 1 .. n : slots[target][i] \in 0 .. tick
          <5> SUFFICES ASSUME NEW i \in 1 .. n PROVE slots[target][i] \in 0 .. tick
            OBVIOUS
          <5>1. i \in 1 .. Capacity /\ tick \in 0 .. tick
            BY SMTT(20), <3>3
          <5>2. slots[target][i] \in {tick} \cup Mailbox!Leftover(tick)
            BY <3>1, <5>1 DEF AgeInv
          <5> QED
            BY <5>1, <5>2 DEF Mailbox!Leftover
        <4> QED
          BY <3>4, <4>1
      <3>8. Holes' \in SUBSET (1 .. n)
        BY <3>5
      <3> HIDE DEF n
      <3> QED
        BY <3>2, <3>3, <3>6, <3>7, <3>8 DEF Mailbox!Publish
    <2>7. CASE Paint
      BY <2>7 DEF Paint, ReadIndex, ReadCount, PaintCommand, bufVars, writerVars
    <2>8. CASE UNCHANGED vars
      BY <2>8 DEF vars, bufVars, writerVars
    <2> QED
      BY <2>1, <2>2, <2>3, <2>4, <2>5, <2>6, <2>7, <2>8 DEF Next, Tick
  <1> QED
    BY <1>1, <1>2, Invariance, PTL DEF Spec, ImplementsMailbox, Mailbox!Spec
=============================================================================
