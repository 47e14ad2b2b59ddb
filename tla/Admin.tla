--------------------------------- MODULE Admin ---------------------------------
(***************************************************************************)
(* The administration endpoints of app/main.py over the rule engine        *)
(* (app/admin/rule_engine.py), the roles (app/admin/rbac.py) and the audit *)
(* log.                                                                    *)
(*                                                                         *)
(* An action and its audit entry are three Redis commands of one request:  *)
(* the action, the LPUSH, the LTRIM.  Requests interleave between them,    *)
(* and a failure ends a request at any, the command run or not.            *)
(***************************************************************************)
EXTENDS Integers, SequencesExt

CONSTANTS
  Requests,  \* requests to the endpoints, each handled once
  KindOf,    \* the endpoint each request is for
  UserOf,    \* who sends each request: the user of its token, or Nobody
  RoleOf,    \* the role of each user
  Nobody,    \* no token, a token with a wrong signature, a wrong password
  RuleIds,   \* uuids
  NoRule,    \* the target of a request that has none
  Limit      \* audit entries kept

VARIABLES
  rules,     \* the hash vanguard:rules, by id
  target,    \* the rule each request creates or deletes
  pc,        \* the await each request is at, or how it ended
  ran,       \* history: requests whose action ran in Redis
  log, pushed, untrimmed  \* the audit log; an entry is its request

logVars == <<log, pushed, untrimmed>>
vars == <<rules, target, pc, ran, logVars>>

Audit == INSTANCE BoundedLog

Kinds == {"login", "create_rule", "delete_rule", "ban_ip", "unban_ip"}
Roles == {"admin", "analyst", "viewer"}

(***************************************************************************)
(* ROLE_PERMISSIONS and the permission each endpoint requires.             *)
(***************************************************************************)
Permissions(role) ==
  {"read_stats"}
  \cup (IF role = "viewer" THEN {} ELSE {"manage_blacklist", "view_audit_log"})
  \cup (IF role = "admin" THEN {"manage_rules", "manage_users"} ELSE {})

Required(kind) ==
  IF kind \in {"create_rule", "delete_rule"} THEN "manage_rules" ELSE "manage_blacklist"

HasPermission(r) == Required(KindOf[r]) \in Permissions(RoleOf[UserOf[r]])

ASSUME AdminAssumption ==
  /\ KindOf \in [Requests -> Kinds]
  /\ \A r \in Requests : UserOf[r] # Nobody => RoleOf[UserOf[r]] \in Roles
  /\ NoRule \notin RuleIds
  /\ Limit \in Nat \ {0}

Ended == {"answered", "unauthorized", "forbidden", "failed"}

(***************************************************************************)
(* Types; no request is logged twice.                                      *)
(***************************************************************************)
TypeOK ==
  /\ rules \subseteq RuleIds
  /\ target \in [Requests -> RuleIds \cup {NoRule}]
  /\ pc \in [Requests -> {"start", "action", "push", "trim"} \cup Ended]
  /\ ran \subseteq Requests
  /\ pushed \in Seq(Requests) /\ IsInjective(pushed)
  /\ log \in Seq(Requests) /\ untrimmed \in Nat

Init ==
  /\ rules = {}
  /\ target = [r \in Requests |-> NoRule]
  /\ pc = [r \in Requests |-> "start"]
  /\ ran = {}
  /\ Audit!LogInit

Goto(r, next) == pc' = [pc EXCEPT ![r] = next]

(***************************************************************************)
(* The rules ever stored, which GET /admin/rules may have shown.           *)
(***************************************************************************)
Created == {target[r] : r \in {q \in ran : KindOf[q] = "create_rule"}}

(***************************************************************************)
(* require_permission, or authenticate for a login.                        *)
(***************************************************************************)
Refuse(r) ==
  /\ pc[r] = "start"
  /\ \/ UserOf[r] = Nobody /\ Goto(r, "unauthorized")
     \/ /\ UserOf[r] # Nobody /\ KindOf[r] # "login" /\ ~HasPermission(r)
        /\ Goto(r, "forbidden")
  /\ UNCHANGED <<rules, target, ran, logVars>>

Login(r) ==
  /\ pc[r] = "start" /\ KindOf[r] = "login" /\ UserOf[r] # Nobody
  /\ Goto(r, "push")
  /\ UNCHANGED <<rules, target, ran, logVars>>

(***************************************************************************)
(* Up to the await of the action: create_rule draws a new uuid, a request  *)
(* to delete names a rule that was listed.                                 *)
(***************************************************************************)
FreshIds == RuleIds \ {target[r] : r \in Requests}

Begin(r) ==
  /\ pc[r] = "start" /\ KindOf[r] # "login"
  /\ UserOf[r] # Nobody /\ HasPermission(r)
  /\ \/ /\ KindOf[r] = "create_rule"
        /\ \E id \in FreshIds : target' = [target EXCEPT ![r] = id]
     \/ /\ KindOf[r] = "delete_rule"
        /\ \E id \in Created : target' = [target EXCEPT ![r] = id]
     \/ KindOf[r] \in {"ban_ip", "unban_ip"} /\ UNCHANGED target
  /\ Goto(r, "action")
  /\ UNCHANGED <<rules, ran, logVars>>

(***************************************************************************)
(* HSET, HDEL, or the commands of the Blacklist module.                    *)
(***************************************************************************)
Store(r) ==
  /\ rules' = CASE KindOf[r] = "create_rule" -> rules \cup {target[r]}
                [] KindOf[r] = "delete_rule" -> rules \ {target[r]}
                [] OTHER -> rules
  /\ ran' = ran \cup {r}

(***************************************************************************)
(* The action runs in Redis; its reply arrives or is lost.                 *)
(***************************************************************************)
ActionErrorIgnored(r) ==
  /\ pc[r] = "action"
  /\ Store(r) \/ UNCHANGED <<rules, ran>>
  /\ Goto(r, "push")
  /\ UNCHANGED <<target, logVars>>

Action(r) ==
  /\ pc[r] = "action"
  /\ Store(r)
  /\ Goto(r, "push") \/ Goto(r, "failed")
  /\ UNCHANGED <<target, logVars>>

(***************************************************************************)
(* audit_logger.record, command by command, then the answer.               *)
(***************************************************************************)
PushRetried(r) ==
  /\ pc[r] = "push"
  /\ Audit!Lpush(r)
  /\ Goto(r, "trim") \/ UNCHANGED pc
  /\ UNCHANGED <<rules, target, ran>>

PushEntry(r) ==
  /\ pc[r] = "push"
  /\ Audit!Lpush(r)
  /\ Goto(r, "trim") \/ Goto(r, "failed")
  /\ UNCHANGED <<rules, target, ran>>

TrimLog(r) ==
  /\ pc[r] = "trim"
  /\ Audit!Ltrim
  /\ Goto(r, "answered") \/ Goto(r, "failed")
  /\ UNCHANGED <<rules, target, ran>>

(***************************************************************************)
(* A command never reaches Redis: its await raises or is cancelled.        *)
(***************************************************************************)
Fail(r) ==
  /\ pc[r] \in {"action", "push", "trim"}
  /\ Goto(r, "failed")
  /\ UNCHANGED <<rules, target, ran, logVars>>

Next ==
  \E r \in Requests :
    \/ Refuse(r) \/ Login(r) \/ Begin(r) \/ Action(r)
    \/ PushEntry(r) \/ TrimLog(r) \/ Fail(r)

Spec == Init /\ [][Next]_vars
-----------------------------------------------------------------------------
Logged == {pushed[i] : i \in DOMAIN pushed}
Unlogged == {r \in ran : pc[r] \in {"push", "failed"} /\ r \notin Logged}
TargetsOf(S, kind) == {target[r] : r \in {q \in S : KindOf[q] = kind}}

(***************************************************************************)
(* The log explains the rules (main.py:118-131): a rule that stands was    *)
(* logged as created, one that is gone as deleted, and none that stands as *)
(* deleted.  The exceptions are actions not logged yet, and those whose    *)
(* request failed after the action: an administrator saw it fail.          *)
(***************************************************************************)
AuditExplainsRules ==
  /\ rules \cap TargetsOf(Logged, "delete_rule") = {}
  /\ rules \subseteq TargetsOf(Logged \cup Unlogged, "create_rule")
  /\ TargetsOf(Logged, "create_rule")
       \subseteq rules \cup TargetsOf(Logged \cup Unlogged, "delete_rule")

(***************************************************************************)
(* Whoever was answered is in the log, until Limit newer entries push the  *)
(* entry out (main.py:95, :102, :124, :131 and audit_log.py:18-19).        *)
(***************************************************************************)
AnsweredIsLogged ==
  \A r \in Requests : pc[r] = "answered" =>
    \/ r \in {log[i] : i \in DOMAIN log}
    \/ \E i \in DOMAIN pushed : pushed[i] = r /\ i > Limit

(***************************************************************************)
(* The bound of the audit log, with its lost LTRIMs.                       *)
(***************************************************************************)
LogBounded == Audit!LogBounded
=============================================================================
