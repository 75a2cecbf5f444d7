----------------------------- MODULE MCAllocator -----------------------------
(***************************************************************************)
(* Allocator with two callers, the engine and four addresses.              *)
(***************************************************************************)
EXTENDS Allocator, TLC

Alike == Permutations(Callers) \cup Permutations(Address)
=============================================================================
