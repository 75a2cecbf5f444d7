---------------------------- MODULE MCSystemHost ----------------------------
(***************************************************************************)
(* Small instances of SystemHost: hosts are interchangeable, tickers too.  *)
(***************************************************************************)
EXTENDS SystemHost, TLC

Symmetry == Permutations(Hosts) \cup Permutations(Tickers)
=============================================================================
