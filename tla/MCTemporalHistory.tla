-------------------------- MODULE MCTemporalHistory --------------------------
(* Small instances of TemporalHistory for TLC.                             *)
EXTENDS TemporalHistory, TLC
CONSTANTS c1, c2, m1, v1, v2

Sym == Permutations(Calls)
=============================================================================
