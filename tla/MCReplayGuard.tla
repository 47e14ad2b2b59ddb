---------------------------- MODULE MCReplayGuard ----------------------------
(***************************************************************************)
(* TLC values for ReplayGuard.                                             *)
(***************************************************************************)
EXTENDS ReplayGuard, TLC

CONSTANTS a, b, n, k1, k2

TwoCallers == {k1, k2}

Message(client, nonce, ts) == [client |-> client, nonce |-> nonce, ts |-> ts]

(***************************************************************************)
(* Client a sends a nonce with a time; client a:b uses the same nonce,     *)
(* without a time, and has one key with another message of client a.       *)
(***************************************************************************)
ThreeMessages == {Message(<<a>>, <<n>>, 4),
                  Message(<<a, b>>, <<n>>, NaN), Message(<<a>>, <<b, n>>, 2)}

OneMessage == {Message(<<a>>, <<n>>, 2)}

CallerSymmetry == Permutations(Callers)
=============================================================================
