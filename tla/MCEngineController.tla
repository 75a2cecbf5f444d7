------------------------- MODULE MCEngineController -------------------------
(* Two screens, one of whose environments has two packages. *)
EXTENDS EngineController, TLC

CONSTANTS s1, s2, p1, p2, p3

MCPackIds == (s1 :> <<p1, p2>>) @@ (s2 :> <<p3>>)
=============================================================================
