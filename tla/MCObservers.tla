----------------------------- MODULE MCObservers -----------------------------
(***************************************************************************)
(* TLC values for Observers.                                               *)
(***************************************************************************)
EXTENDS Observers, TLC

CONSTANTS q1, q2, q3, q4, q5, q6, a1, a2, name, w1, w2, w3

(***************************************************************************)
(* q2 stores its features under a name, not its address.                   *)
(***************************************************************************)
Address == [r \in Requests |-> IF r \in {q2, q3} THEN a2 ELSE a1]
Id == [r \in Requests |-> IF r = q2 THEN name ELSE Address[r]]

Scene(requests, atOnce, ends, sockets, horizon, kafka, failing) ==
  [requests |-> requests, atOnce |-> atOnce, ends |-> ends, sockets |-> sockets,
   horizon |-> horizon, kafka |-> kafka, failing |-> failing]

(***************************************************************************)
(* Three dashboards and the health loop; two dashboards and a request;     *)
(* clients that teach the model; an attack; requests that meet at the      *)
(* report log; and the way of a request from its features to Kafka.        *)
(***************************************************************************)
SixScenes ==
  { Scene({}, 1, {"rejected"}, {w1, w2, w3}, 0, FALSE, {"health"}),
    Scene({q1}, 1, {"rejected"}, {w1, w2}, 0, FALSE, {"request", "health", "process"}),
    Scene({q1, q2, q3}, 2, {"bad_gateway"}, {}, 0, FALSE, {"request", "retrainer", "process"}),
    Scene({q4, q5, q6}, 1, {"rejected"}, {}, 3, FALSE, {"process"}),
    Scene({q4, q5, q6}, 2, {"rejected"}, {}, 0, FALSE, {"request"}),
    Scene({q1, q4}, 2, {"allowed", "blocked"}, {w1}, 0, TRUE, {"request"}) }
=============================================================================
