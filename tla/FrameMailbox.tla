---------------------------- MODULE FrameMailbox ----------------------------
(***************************************************************************)
(* What the double buffer of pipeline.rs promises to whoever looks at it:  *)
(* at every moment there is one published frame, its commands come from    *)
(* the tick that published it, and a tick replaces it as a whole.  A slot  *)
(* that a system counted without writing it is a hole: it shows what the   *)
(* same buffer held before, which is at least two ticks old, or memory     *)
(* that was never initialised.  RenderBuffer implements this with two      *)
(* buffers, two counts and an index.                                       *)
(***************************************************************************)
EXTENDS Naturals

CONSTANTS
  Capacity,   \* commands a buffer holds
  MaxTicks    \* bound: number of ticks

VARIABLES
  frame,      \* the published commands, each named by the tick that wrote it
  number,     \* the tick that published it, 0 before the first
  holes       \* its slots that no system wrote for it

vars == <<frame, number, holes>>

Init ==
  /\ frame = << >>
  /\ number = 0
  /\ holes = {}

\* What a hole in the frame of tick t may show, 0 for uninitialised memory.
Leftover(t) == {v \in 0 .. t : v = 0 \/ v + 2 <= t}

Publish ==
  /\ number < MaxTicks
  /\ number' = number + 1
  /\ \E n \in 0 .. Capacity :
        /\ holes' \in SUBSET (1 .. n)
        /\ frame' \in [1 .. n -> 0 .. number + 1]
        /\ \A i \in 1 .. n :
              IF i \in holes' THEN frame'[i] \in Leftover(number + 1)
                              ELSE frame'[i] = number + 1

Spec == Init /\ [][Publish]_vars
=============================================================================
