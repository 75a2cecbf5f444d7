----------------------------- MODULE MCMspStore -----------------------------
(***************************************************************************)
(* Instances of MspStore for TLC: two images that parse and one that does  *)
(* not; either of the valid ones fits, both together do not.               *)
(***************************************************************************)
EXTENDS MspStore

CONSTANTS small, large, broken

MCImages == {small, large, broken}
MCValid  == {small, large}
MCSize   == [i \in MCImages |-> IF i = large THEN 3 ELSE 2]
=============================================================================
