----------------------------- MODULE MCBlacklist -----------------------------
(***************************************************************************)
(* TLC values for Blacklist.                                               *)
(***************************************************************************)
EXTENDS Blacklist, TLC

CONSTANTS i1, w1, w2, w3

OneIP == {i1}
TwoWorkers == {w1, w2}
ThreeWorkers == {w1, w2, w3}
WorkerSymmetry == Permutations(Workers)
=============================================================================
