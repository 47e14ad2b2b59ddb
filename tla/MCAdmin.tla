-------------------------------- MODULE MCAdmin --------------------------------
(***************************************************************************)
(* TLC values for Admin.                                                   *)
(***************************************************************************)
EXTENDS Admin

CONSTANTS q1, q2, q3, q4, q5, q6, q7, ada, ann, u1, u2

Kind ==
  q1 :> "create_rule" @@ q2 :> "create_rule" @@ q3 :> "delete_rule"
  @@ q4 :> "delete_rule" @@ q5 :> "ban_ip" @@ q6 :> "login" @@ q7 :> "unban_ip"

(***************************************************************************)
(* An administrator manages rules; an analyst bans, and tries a rule;      *)
(* somebody else tries to unban.                                           *)
(***************************************************************************)
User ==
  q1 :> ada @@ q2 :> ada @@ q3 :> ada @@ q4 :> ann @@ q5 :> ann @@ q6 :> ada @@ q7 :> Nobody

Role == ada :> "admin" @@ ann :> "analyst"

Uuids == Permutations(RuleIds)
=============================================================================
