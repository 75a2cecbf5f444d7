-------------------------- MODULE MCEngineLifecycle --------------------------
(***************************************************************************)
(* Instances of EngineLifecycle for TLC: the functions each of them calls. *)
(***************************************************************************)
EXTENDS EngineLifecycle, TLC

MCLifecycleOps == {"init", "shutdown", "trigger"}
MCAppOps       == {"init", "shutdown", "pause", "trigger", "event"}
MCAllOps       == Operation

MCInTick   == TickPc
MCAnywhere == WorkerPc \cup TickPc

MCSymmetry == Permutations(Callers)
=============================================================================
