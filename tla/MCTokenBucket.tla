---------------------------- MODULE MCTokenBucket ----------------------------
(***************************************************************************)
(* TLC values for TokenBucket.                                             *)
(***************************************************************************)
EXTENDS TokenBucket, TLC

CONSTANTS c1, k1, k2
OneClient == {c1}
TwoCallers == {k1, k2}
CallerSymmetry == Permutations(Callers)
=============================================================================
