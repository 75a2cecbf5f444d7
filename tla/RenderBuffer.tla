---------------------------- MODULE RenderBuffer ----------------------------
(***************************************************************************)
(* The double buffer of one bridge: process_engine_tick_internal and the   *)
(* write side of tick_systems on one simulation thread, against            *)
(* get_front_buffer_snapshot and the painter of primitive_canvas.dart on   *)
(* the UI thread.  The two share no lock; each access below is one step.   *)
(*                                                                         *)
(* A command is represented by the number of the tick that wrote it, 0 for *)
(* memory that malphas_alloc left uninitialised.  The host believes the    *)
(* count a system returns, whatever the system has written.  That one      *)
(* thread ticks and the bridge stays allocated is the subject of           *)
(* EngineLifecycle; that a system writes only into the slice it was handed *)
(* is the contract of its ABI, which nothing here could enforce.           *)
(***************************************************************************)
EXTENDS Integers, Sequences

CONSTANTS
  Capacity,   \* commands a buffer holds (max_commands of init_engine)
  MaxTicks    \* bound: number of ticks

ASSUME CapacityAssumption == Capacity \in Nat \ {0}
ASSUME BoundAssumption == MaxTicks \in Nat

VARIABLES
  back,       \* atomic_back_index
  count,      \* buffer_a_command_count, buffer_b_command_count
  slots,      \* the commands of the two buffers
  total,      \* commands_written
  wpc,        \* where the ticking thread is
  tick,       \* the tick in progress, or the last one
  target,     \* its back_index
  base,       \* its base_offset: commands of the systems that returned
  gaps,       \* history: of each buffer, the slots that a system claimed though
              \* its tick had not written them, and that no tick has written since
  rpc,        \* where the painter is
  front,      \* the front index it read
  claimed,    \* the count it read
  seen,       \* the commands it has painted
  since       \* history: the tick on display when it read the index

bufVars    == <<back, count, slots, total>>
writerVars == <<wpc, tick, target, base, gaps>>
readerVars == <<rpc, front, claimed, seen, since>>
vars == <<bufVars, writerVars, readerVars>>

Buffer == {0, 1}

\* The tick whose frame is on display: a tick publishes with its last step.
Published == IF wpc = "idle" THEN tick ELSE tick - 1

Frame == [i \in 1 .. count[1 - back] |-> slots[1 - back][i]]

Init ==
  /\ back = 0
  /\ count = [b \in Buffer |-> 0]
  /\ slots = [b \in Buffer |-> [i \in 1 .. Capacity |-> 0]]
  /\ total = 0
  /\ wpc = "idle" /\ tick = 0 /\ target = 0 /\ base = 0
  /\ gaps = [b \in Buffer |-> {}]
  /\ rpc = "idle" /\ front = 0 /\ claimed = 0 /\ seen = << >> /\ since = 0

-----------------------------------------------------------------------------
(***************************************************************************)
(* The ticking thread.                                                     *)
(***************************************************************************)
\* Faulty variant: the contract's wording, "the buffer opposite to
\* atomic_back_index", taken as the one to write.
BeginTickOpposite ==
  /\ wpc = "idle" /\ tick < MaxTicks
  /\ wpc' = "systems"
  /\ tick' = tick + 1
  /\ target' = 1 - back
  /\ base' = 0
  /\ UNCHANGED <<bufVars, gaps, readerVars>>

\* The thread writes the buffer atomic_back_index names.
BeginTick ==
  /\ wpc = "idle" /\ tick < MaxTicks
  /\ wpc' = "systems"
  /\ tick' = tick + 1
  /\ target' = back
  /\ base' = 0
  /\ UNCHANGED <<bufVars, gaps, readerVars>>

\* A system writes some slot of the slice that is left to it.
WriteCommand ==
  /\ wpc = "systems"
  /\ \E i \in base + 1 .. Capacity :
        /\ slots' = [slots EXCEPT ![target][i] = tick]
        /\ gaps' = [gaps EXCEPT ![target] = @ \ {i}]
  /\ UNCHANGED <<back, count, total, wpc, tick, target, base, readerVars>>

\* A system returns and its claim of n commands is added to the offset: any
\* claim that fits is believed.  One that does not fit, and a panic, taint the
\* system and count as 0.
SystemReturns ==
  /\ wpc = "systems"
  /\ \E n \in 0 .. Capacity - base :
        /\ base' = base + n
        /\ gaps' = [gaps EXCEPT ![target] =
                      @ \cup {i \in base + 1 .. base + n : slots[target][i] # tick}]
  /\ UNCHANGED <<bufVars, wpc, tick, target, readerVars>>

\* Faulty variant: the whole buffer is counted, claimed or not.
StoreCountAll ==
  /\ wpc = "systems"
  /\ wpc' = "total"
  /\ count' = [count EXCEPT ![target] = Capacity]
  /\ UNCHANGED <<back, slots, total, tick, target, base, gaps, readerVars>>

\* No system is left, the buffer is full, or there was none to call because no
\* MSP is mapped.
StoreCount ==
  /\ wpc = "systems"
  /\ wpc' = "total"
  /\ count' = [count EXCEPT ![target] = base]
  /\ UNCHANGED <<back, slots, total, tick, target, base, gaps, readerVars>>

StoreTotal ==
  /\ wpc = "total"
  /\ wpc' = "flip"
  /\ total' = base
  /\ UNCHANGED <<back, count, slots, tick, target, base, gaps, readerVars>>

Flip ==
  /\ wpc = "flip"
  /\ wpc' = "idle"
  /\ back' = 1 - target
  /\ UNCHANGED <<count, slots, total, tick, target, base, gaps, readerVars>>

-----------------------------------------------------------------------------
(***************************************************************************)
(* The painter.                                                            *)
(***************************************************************************)
\* Faulty variant: the painter takes the buffer of the back index.
ReadIndexBack ==
  /\ rpc = "idle"
  /\ rpc' = "count"
  /\ front' = back
  /\ since' = Published
  /\ UNCHANGED <<bufVars, writerVars, claimed, seen>>

\* get_front_buffer_snapshot, first load.
ReadIndex ==
  /\ rpc = "idle"
  /\ rpc' = "count"
  /\ front' = 1 - back
  /\ since' = Published
  /\ UNCHANGED <<bufVars, writerVars, claimed, seen>>

\* get_front_buffer_snapshot, second load; paint returns if it is 0.
ReadCount ==
  /\ rpc = "count"
  /\ rpc' = IF count[front] = 0 THEN "idle" ELSE "paint"
  /\ claimed' = count[front]
  /\ seen' = << >>
  /\ UNCHANGED <<bufVars, writerVars, front, since>>

\* One iteration of the loop of paint; the last one ends it.
PaintCommand ==
  /\ rpc = "paint"
  /\ seen' = Append(seen, slots[front][Len(seen) + 1])
  /\ rpc' = IF Len(seen) + 1 = claimed THEN "idle" ELSE "paint"
  /\ UNCHANGED <<bufVars, writerVars, front, claimed, since>>

-----------------------------------------------------------------------------
Tick  == \/ BeginTick \/ WriteCommand \/ SystemReturns \/ StoreCount
         \/ StoreTotal \/ Flip
Paint == ReadIndex \/ ReadCount \/ PaintCommand

Next == Tick \/ Paint

Spec == Init /\ [][Next]_vars

-----------------------------------------------------------------------------
(***************************************************************************)
(* Properties.                                                             *)
(***************************************************************************)

\* Every variable stays in its range; in particular the claims of the systems
\* never add up to more than the buffer, and the painter never reads behind it.
TypeOK ==
  /\ back \in Buffer
  /\ count \in [Buffer -> 0 .. Capacity]
  /\ slots \in [Buffer -> [1 .. Capacity -> 0 .. MaxTicks]]
  /\ total \in 0 .. Capacity
  /\ wpc \in {"idle", "systems", "total", "flip"}
  /\ tick \in 0 .. MaxTicks
  /\ target \in Buffer
  /\ base \in 0 .. Capacity
  /\ gaps \in [Buffer -> SUBSET (1 .. Capacity)]
  /\ rpc \in {"idle", "count", "paint"}
  /\ front \in Buffer
  /\ claimed \in 0 .. Capacity
  /\ seen \in Seq(0 .. MaxTicks) /\ Len(seen) <= Capacity
  /\ since \in 0 .. MaxTicks

\* The slots on display that nobody wrote for the frame they are part of.
Holes == gaps[1 - back] \cap 1 .. count[1 - back]

Mailbox ==
  INSTANCE FrameMailbox WITH frame <- Frame, number <- Published, holes <- Holes

\* The tick protocol publishes whole frames: seen through the back index, the
\* buffers hold one frame, all its commands are of one tick but for the slots
\* that a system claimed without writing, and only a flip replaces it.
ImplementsMailbox == Mailbox!Spec

\* The command the painter is about to draw is never older than the frame that
\* was on display when it took its snapshot, and never uninitialised memory,
\* unless a system claimed its slot without writing it: neither the order of
\* the stores nor a tick that overtakes the painter brings a stale one up.
NoStaleCommand ==
  rpc = "paint" =>
    LET next == Len(seen) + 1
    IN  \/ next \in gaps[front]
        \/ slots[front][next] >= since /\ slots[front][next] > 0

\* A painted frame differs from the one on display at the snapshot only if the
\* ticking thread has published another one in the meantime: a tick that is
\* merely in progress disturbs nobody.
IntactUnlessOvertaken ==
  /\ rpc = "paint" /\ Published = since =>
        claimed = Len(Frame) /\ seen = SubSeq(Frame, 1, Len(seen))
  /\ rpc = "idle" /\ Published = since /\ claimed > 0 => seen = Frame
=============================================================================
