--------------------------- MODULE MCTickPipeline ---------------------------
(***************************************************************************)
(* TickPipeline with two tickers and images of two, one and no entities.   *)
(* One entity starts outside its bounds, one is as wide as they are apart. *)
(***************************************************************************)
EXTENDS TickPipeline

Box(pos, width, speed, min, max) ==
  [pos |-> pos, width |-> width, speed |-> speed, min |-> min, max |-> max]

Pair   == <<Box(1, 1, 1, 0, 2), Box(5, 1, 2, 0, 3)>>
Single == <<Box(0, 2, 1, 0, 2)>>

Alike == Permutations(Tickers)

SomeImages == {Pair, Single, << >>}

Touch(at) == [kind |-> "touch", at |-> at]
SomeEvents == {Touch(1), [kind |-> "move", at |-> 1]}
=============================================================================
