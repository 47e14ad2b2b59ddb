------------------------------ MODULE MCGateway ------------------------------
(***************************************************************************)
(* TLC values for Gateway.                                                 *)
(***************************************************************************)
EXTENDS Gateway, TLC

CONSTANTS c1, r1, r2, a1

OneClient == {c1}
OneRequest == {r1}
TwoRequests == {r1, r2}
OneAdmin == {a1}
NoAdmin == {}

AllOfOneClient == [r \in Requests |-> c1]

(***************************************************************************)
(* Both requests are deliveries of one message, or carry none.             *)
(***************************************************************************)
TheMessage == [client |-> <<c1>>, nonce |-> <<c1>>, ts |-> 0]
OneMessage == {TheMessage}
Duplicates == [r \in Requests |-> TheMessage]
NoMessages == [r \in Requests |-> NoMsg]

(***************************************************************************)
(* No rule, a rule with a limit of one token, a rule on the country alone. *)
(***************************************************************************)
LimitOne == [limit |-> 1, blocks |-> FALSE]
Country == [limit |-> NoLimit, blocks |-> TRUE]
AnyRules == {<<>>, <<LimitOne>>, <<LimitOne, Country>>}
RuleOfOne == {<<LimitOne>>}
NoRules == {<<>>}

Symmetry == Permutations(Requests)
=============================================================================
