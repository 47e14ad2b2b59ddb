------------------------------ MODULE AtMostOnce ------------------------------
(***************************************************************************)
(* What the replay guard promises: of all the deliveries of one message,   *)
(* retried, duplicated or delayed, at most one is accepted.                *)
(***************************************************************************)
EXTENDS Naturals

CONSTANT Messages

VARIABLE accepted   \* how often each message was accepted

Init == accepted = [m \in Messages |-> 0]

Accept(m) ==
  /\ accepted[m] = 0
  /\ accepted' = [accepted EXCEPT ![m] = 1]

Next == \E m \in Messages : Accept(m)

Spec == Init /\ [][Next]_accepted
=============================================================================
