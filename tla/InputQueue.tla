----------------------------- MODULE InputQueue -----------------------------
(***************************************************************************)
(* The queue of input events between the UI thread and the ticks           *)
(* (malphas_core/input.rs).  Each call works under one mutex and is one    *)
(* step.  An event is its type and the bits of its two coordinates; an     *)
(* unknown type or a coordinate that is not finite is refused with -1 and  *)
(* changes nothing.                                                        *)
(***************************************************************************)
EXTENDS Naturals, Sequences, SequencesExt

CONSTANTS
  Event,      \* valid events
  Capacity,   \* INPUT_QUEUE_CAPACITY
  MaxPushes   \* bound: number of accepted events

ASSUME CapacityAssumption == Capacity \in Nat \ {0}
ASSUME BoundAssumption == MaxPushes \in Nat

VARIABLES
  queue,      \* INPUT_QUEUE
  pushed,     \* history: the events accepted
  taken       \* history: how many of them were before the last drain

queueVars == <<queue, pushed, taken>>

QueueInit == queue = << >> /\ pushed = << >> /\ taken = 0

\* Faulty variant: the event is compared with the oldest one.
RepeatsFront(e) == queue # << >> /\ Head(queue) = e

\* The event repeats the newest one that is waiting.
Repeats(e) == queue # << >> /\ Last(queue) = e

\* A full queue loses its oldest event.
MakeRoom == IF Len(queue) >= Capacity THEN Tail(queue) ELSE queue

\* process_input_event.
Push(e) ==
  /\ Len(pushed) < MaxPushes
  /\ pushed' = Append(pushed, e)
  /\ queue' = IF Repeats(e) THEN queue ELSE Append(MakeRoom, e)
  /\ UNCHANGED taken

\* drain_input_events, by a tick or by init_engine.
Drain ==
  /\ queue' = << >>
  /\ taken' = Len(pushed)
  /\ UNCHANGED pushed

-----------------------------------------------------------------------------
\* The queue never grows beyond its capacity.
QueueTypeOK ==
  /\ queue \in Seq(Event) /\ Len(queue) <= Capacity
  /\ pushed \in Seq(Event) /\ Len(pushed) <= MaxPushes
  /\ taken \in 0 .. Len(pushed)

\* Where an event was accepted since the last drain that does not repeat the one
\* before it.
Fresh ==
  {k \in taken + 1 .. Len(pushed) : k = taken + 1 \/ pushed[k] # pushed[k - 1]}

\* What a drain hands out is what was accepted since the last one, in order,
\* without immediate repetitions, and of that the newest Capacity events: an
\* eviction never changes what the coalescing of later events sees.
QueueIsNewestCoalesced ==
  /\ Len(queue) <= Capacity
  /\ \E at \in [1 .. Len(queue) -> Fresh] :
       /\ \A i \in 1 .. Len(queue) : queue[i] = pushed[at[i]]
       /\ \A i, j \in 1 .. Len(queue) : i < j => at[i] < at[j]
       /\ \A k \in Fresh :
            \/ \E i \in 1 .. Len(queue) : at[i] = k
            \/ Len(queue) = Capacity /\ \A i \in 1 .. Len(queue) : k < at[i]
=============================================================================
