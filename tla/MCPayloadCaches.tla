-------------------------- MODULE MCPayloadCaches --------------------------
(***************************************************************************)
(* PayloadCaches with two decodes and two preloads at a time, and packages *)
(* that share a file or name one twice.                                    *)
(***************************************************************************)
EXTENDS PayloadCaches, TLC

CONSTANTS a, b, c

SomePackages == {<<a, b>>, <<b, c, b>>}

Alike == Permutations(Viewers) \cup Permutations(Preloads) \cup Permutations(Payloads)
=============================================================================
