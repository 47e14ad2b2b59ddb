------------------------------ MODULE AdminProofs ------------------------------
(***************************************************************************)
(* Proofs about the administration and its audit log, for all requests,    *)
(* roles, rules and limits that satisfy AdminAssumption.                   *)
(***************************************************************************)
EXTENDS Admin, TLAPS

(***************************************************************************)
(* The list is the newest part of what was pushed, at least Limit entries  *)
(* of it, and longer than that only by pushes not trimmed yet.             *)
(***************************************************************************)
LogIsRecent ==
  /\ Len(log) <= Len(pushed) /\ Len(log) <= Limit + untrimmed
  /\ \A i \in 1 .. Len(log) : log[i] = pushed[i]
  /\ Len(log) >= Limit \/ Len(log) = Len(pushed)

(***************************************************************************)
(* A request's entry is in what was pushed from its LPUSH on, and no       *)
(* earlier; its action ran before that, but a login has none.              *)
(***************************************************************************)
LoggedInTime ==
  \A r \in Requests :
    /\ pc[r] \in {"start", "action", "push"} => r \notin Logged
    /\ pc[r] \in {"trim", "answered"} => r \in Logged
    /\ pc[r] \in {"start", "action"} => r \notin ran
    /\ pc[r] \in {"push", "trim", "answered"} /\ KindOf[r] # "login" => r \in ran
    /\ r \in Logged /\ KindOf[r] # "login" => r \in ran
    /\ pc[r] \in {"unauthorized", "forbidden"} => r \notin ran /\ r \notin Logged

(***************************************************************************)
(* No two requests create the same rule, and only rules that were created  *)
(* are deleted.                                                            *)
(***************************************************************************)
TargetsAreProper ==
  /\ \A r \in Requests : target[r] # NoRule => KindOf[r] \in {"create_rule", "delete_rule"}
  /\ \A r \in Requests : pc[r] = "start" => target[r] = NoRule
  /\ \A r \in Requests : /\ KindOf[r] \in {"create_rule", "delete_rule"}
                         /\ pc[r] = "action" \/ r \in ran
                         => target[r] # NoRule
  /\ \A r, q \in Requests :
       r # q /\ KindOf[r] = "create_rule" /\ KindOf[q] = "create_rule" /\ target[r] # NoRule
         => target[r] # target[q]
  /\ \A r \in Requests : KindOf[r] = "delete_rule" /\ target[r] # NoRule => target[r] \in Created

(***************************************************************************)
(* The rules are those created and not deleted.                            *)
(***************************************************************************)
Deleted == {target[r] : r \in {q \in ran : KindOf[q] = "delete_rule"}}
RulesAreCreated == rules = Created \ Deleted

AdminInv == TypeOK /\ LogIsRecent /\ LoggedInTime /\ TargetsAreProper /\ RulesAreCreated
-----------------------------------------------------------------------------
LEMMA MinOfTwo ==
  ASSUME NEW a \in Int, NEW b \in Int
  PROVE  Audit!Min({a, b}) = IF a <= b THEN a ELSE b
<1> DEFINE m == IF a <= b THEN a ELSE b
<1>1. m \in {a, b} /\ \A y \in {a, b} : m <= y
  OBVIOUS
<1>2. \A x \in {a, b} : (\A y \in {a, b} : x <= y) => x = m
  OBVIOUS
<1> QED BY <1>1, <1>2 DEF Audit!Min

(***************************************************************************)
(* LPUSH puts an entry before all others.                                  *)
(***************************************************************************)
LEMMA LpushEntry ==
  ASSUME TypeOK, LogIsRecent, Limit \in Nat, NEW r \in Requests, Audit!Lpush(r)
  PROVE  /\ log' \in Seq(Requests) /\ pushed' \in Seq(Requests) /\ untrimmed' \in Nat
         /\ LogIsRecent'
         /\ Len(pushed') = Len(pushed) + 1 /\ pushed'[1] = r
         /\ \A i \in 2 .. Len(pushed) + 1 : pushed'[i] = pushed[i - 1]
<1>1. log \in Seq(Requests) /\ pushed \in Seq(Requests) /\ untrimmed \in Nat
  BY DEF TypeOK
<1>2. /\ log' = <<r>> \o log /\ pushed' = <<r>> \o pushed /\ untrimmed' = untrimmed + 1
  BY DEF Audit!Lpush
<1>3. /\ log' \in Seq(Requests) /\ Len(log') = Len(log) + 1
      /\ log'[1] = r /\ \A i \in 2 .. Len(log) + 1 : log'[i] = log[i - 1]
  BY <1>1, <1>2
<1>4. /\ pushed' \in Seq(Requests) /\ Len(pushed') = Len(pushed) + 1
      /\ pushed'[1] = r /\ \A i \in 2 .. Len(pushed) + 1 : pushed'[i] = pushed[i - 1]
  BY <1>1, <1>2
<1>5. LogIsRecent'
  <2>1. Len(log) \in Nat /\ Len(pushed) \in Nat /\ Len(log) <= Len(pushed)
    BY <1>1 DEF LogIsRecent
  <2>2. \A i \in 1 .. Len(log') : log'[i] = pushed'[i]
    <3> SUFFICES ASSUME NEW i \in 1 .. Len(log') PROVE log'[i] = pushed'[i]
      OBVIOUS
    <3>1. CASE i = 1
      BY <1>3, <1>4, <3>1
    <3>2. CASE i # 1
      <4>1. i - 1 \in 1 .. Len(log) /\ i \in 2 .. Len(log) + 1 /\ i \in 2 .. Len(pushed) + 1
        BY <1>3, <2>1, <3>2
      <4>2. log[i - 1] = pushed[i - 1]
        BY <4>1 DEF LogIsRecent
      <4> QED BY <1>3, <1>4, <4>1, <4>2
    <3> QED BY <3>1, <3>2
  <2>3. /\ Len(log') <= Len(pushed') /\ Len(log') <= Limit + untrimmed'
        /\ Len(log') >= Limit \/ Len(log') = Len(pushed')
    BY <1>1, <1>2, <1>3, <1>4, <2>1 DEF LogIsRecent
  <2> QED BY <2>2, <2>3 DEF LogIsRecent
<1> QED BY <1>1, <1>2, <1>3, <1>4, <1>5

(***************************************************************************)
(* LTRIM keeps the newest Limit entries.                                   *)
(***************************************************************************)
LEMMA LtrimLog ==
  ASSUME TypeOK, LogIsRecent, Limit \in Nat, Audit!Ltrim
  PROVE  log' \in Seq(Requests) /\ untrimmed' \in Nat /\ pushed' = pushed /\ LogIsRecent'
<1> DEFINE n == IF Limit <= Len(log) THEN Limit ELSE Len(log)
<1>1. log \in Seq(Requests) /\ pushed \in Seq(Requests) /\ Len(log) \in Nat /\ Len(pushed) \in Nat
  BY DEF TypeOK
<1>2. log' = SubSeq(log, 1, n) /\ untrimmed' = 0 /\ pushed' = pushed
  BY <1>1, MinOfTwo DEF Audit!Ltrim
<1>3. n \in 0 .. Len(log) /\ n <= Limit /\ (n = Limit \/ n = Len(log))
  BY <1>1
<1> HIDE DEF n
<1>4. log' \in Seq(Requests) /\ Len(log') = n
  BY <1>1, <1>2, <1>3
<1>5. \A i \in 1 .. n : log'[i] = log[i]
  BY <1>1, <1>2, <1>3
<1>6. /\ Len(log') <= Len(pushed') /\ Len(log') <= Limit + untrimmed'
      /\ Len(log') >= Limit \/ Len(log') = Len(pushed')
  BY <1>1, <1>2, <1>3, <1>4 DEF LogIsRecent
<1>7. \A i \in 1 .. Len(log') : log'[i] = pushed'[i]
  BY <1>1, <1>2, <1>3, <1>4, <1>5 DEF LogIsRecent
<1> QED BY <1>2, <1>4, <1>6, <1>7 DEF LogIsRecent

-----------------------------------------------------------------------------
(***************************************************************************)
(* Nothing is stored, asked for or logged yet.                             *)
(***************************************************************************)
LEMMA AdminInit ==
  ASSUME AdminAssumption, Init
  PROVE  AdminInv
<1>1. log = <<>> /\ pushed = <<>> /\ untrimmed = 0
  BY DEF Init, Audit!LogInit
<1>2. TypeOK
  BY <1>1 DEF Init, TypeOK, IsInjective
<1>3. LogIsRecent
  BY <1>1 DEF LogIsRecent, AdminAssumption
<1>4. LoggedInTime
  BY <1>1 DEF Init, LoggedInTime, Logged
<1>5. TargetsAreProper
  BY DEF Init, TargetsAreProper
<1>6. RulesAreCreated
  BY DEF Init, RulesAreCreated, Created, Deleted
<1> QED BY <1>2, <1>3, <1>4, <1>5, <1>6 DEF AdminInv

(***************************************************************************)
(* A request goes on, and nothing else changes: it is refused, logs in, or *)
(* fails before its next command.                                          *)
(***************************************************************************)
LEMMA GotoKeeps ==
  ASSUME AdminAssumption, AdminInv, NEW r \in Requests, NEW next, Goto(r, next),
         UNCHANGED <<rules, target, ran, logVars>>,
         \/ pc[r] = "start" /\ next \in {"unauthorized", "forbidden"}
         \/ pc[r] = "start" /\ KindOf[r] = "login" /\ next = "push"
         \/ pc[r] \in {"action", "push", "trim"} /\ next = "failed"
  PROVE  AdminInv'
<1>1. /\ TypeOK /\ LogIsRecent /\ LoggedInTime /\ TargetsAreProper /\ RulesAreCreated
      /\ Limit \in Nat
  BY DEF AdminInv, AdminAssumption
<1>2. /\ pc' \in [Requests -> {"start", "action", "push", "trim"} \cup Ended]
      /\ pc'[r] = next /\ \A q \in Requests : q # r => pc'[q] = pc[q]
  BY <1>1 DEF Goto, TypeOK, Ended
<1>3. TypeOK' /\ LogIsRecent'
  BY <1>1, <1>2 DEF TypeOK, LogIsRecent, logVars
<1>4. Logged' = Logged
  BY DEF Logged, logVars
<1>5. LoggedInTime'
  BY <1>1, <1>2, <1>4 DEF LoggedInTime
<1>6. Created' = Created /\ Deleted' = Deleted
  BY DEF Created, Deleted
<1>7. TargetsAreProper'
  BY <1>1, <1>2, <1>6 DEF TargetsAreProper
<1>8. RulesAreCreated'
  BY <1>1, <1>6 DEF RulesAreCreated
<1> QED BY <1>3, <1>5, <1>7, <1>8 DEF AdminInv

(***************************************************************************)
(* The request to create a rule draws a new id, the one to delete a rule   *)
(* names a rule that was created.                                          *)
(***************************************************************************)
LEMMA BeginKeeps ==
  ASSUME AdminAssumption, AdminInv, NEW r \in Requests, Begin(r)
  PROVE  AdminInv'
<1>1. /\ TypeOK /\ LogIsRecent /\ LoggedInTime /\ TargetsAreProper /\ RulesAreCreated
      /\ Limit \in Nat
  BY DEF AdminInv, AdminAssumption
<1>2. /\ pc[r] = "start" /\ KindOf[r] # "login" /\ target[r] = NoRule /\ r \notin ran
      /\ UNCHANGED <<rules, ran, log, pushed, untrimmed>>
  BY <1>1 DEF Begin, logVars, TargetsAreProper, LoggedInTime
<1>3. /\ pc' \in [Requests -> {"start", "action", "push", "trim"} \cup Ended]
      /\ pc'[r] = "action" /\ \A q \in Requests : q # r => pc'[q] = pc[q]
  BY <1>1 DEF Begin, Goto, TypeOK
<1>4. /\ target' \in [Requests -> RuleIds \cup {NoRule}]
      /\ \A q \in Requests : q # r => target'[q] = target[q]
      /\ \/ KindOf[r] = "create_rule" /\ target'[r] \in FreshIds
         \/ KindOf[r] = "delete_rule" /\ target'[r] \in Created
         \/ KindOf[r] \in {"ban_ip", "unban_ip"} /\ target'[r] = target[r]
  <2>1. FreshIds \subseteq RuleIds
    BY DEF FreshIds
  <2>2. Created \subseteq RuleIds \cup {NoRule}
    BY <1>1 DEF Created, TypeOK
  <2>3. CASE KindOf[r] = "create_rule"
    BY <1>1, <2>1, <2>3 DEF Begin, TypeOK
  <2>4. CASE KindOf[r] = "delete_rule"
    BY <1>1, <2>2, <2>4 DEF Begin, TypeOK
  <2>5. CASE KindOf[r] \notin {"create_rule", "delete_rule"}
    BY <1>1, <2>5 DEF Begin, TypeOK
  <2> QED BY <2>3, <2>4, <2>5
<1>5. NoRule \notin Created /\ NoRule \notin FreshIds
  <2>1. \A q \in ran : KindOf[q] = "create_rule" => target[q] # NoRule
    BY <1>1 DEF TypeOK, TargetsAreProper
  <2> QED BY <2>1 DEF Created, FreshIds, AdminAssumption
<1>6. Created' = Created /\ Deleted' = Deleted
  <2>1. ran' = ran /\ \A q \in ran : target'[q] = target[q]
    BY <1>1, <1>2, <1>4 DEF TypeOK
  <2> QED BY <2>1 DEF Created, Deleted
<1>7. TypeOK' /\ LogIsRecent'
  BY <1>1, <1>2, <1>3, <1>4 DEF TypeOK, LogIsRecent
<1>8. LoggedInTime'
  BY <1>1, <1>2, <1>3 DEF LoggedInTime, Logged
<1>9. TargetsAreProper'
  <2>1. \A q \in Requests : target'[q] # NoRule => KindOf[q] \in {"create_rule", "delete_rule"}
    BY <1>1, <1>2, <1>4 DEF TargetsAreProper
  <2>2. \A q \in Requests : pc'[q] = "start" => target'[q] = NoRule
    BY <1>1, <1>3, <1>4 DEF TargetsAreProper
  <2>3. \A q \in Requests : /\ KindOf[q] \in {"create_rule", "delete_rule"}
                            /\ pc'[q] = "action" \/ q \in ran
                            => target'[q] # NoRule
    BY <1>1, <1>2, <1>3, <1>4, <1>5 DEF TargetsAreProper
  <2>4. \A q, u \in Requests :
          q # u /\ KindOf[q] = "create_rule" /\ KindOf[u] = "create_rule" /\ target'[q] # NoRule
            => target'[q] # target'[u]
    BY <1>1, <1>4 DEF TargetsAreProper, FreshIds
  <2>5. \A q \in Requests : KindOf[q] = "delete_rule" /\ target'[q] # NoRule => target'[q] \in Created
    BY <1>1, <1>4 DEF TargetsAreProper
  <2> QED BY <1>2, <1>6, <2>1, <2>2, <2>3, <2>4, <2>5 DEF TargetsAreProper
<1>10. RulesAreCreated'
  BY <1>1, <1>2, <1>6 DEF RulesAreCreated
<1> QED BY <1>7, <1>8, <1>9, <1>10 DEF AdminInv

(***************************************************************************)
(* HSET and HDEL: a rule is created once, and deleted after it was.        *)
(***************************************************************************)
LEMMA ActionKeeps ==
  ASSUME AdminAssumption, AdminInv, NEW r \in Requests, Action(r)
  PROVE  AdminInv'
<1>1. /\ TypeOK /\ LogIsRecent /\ LoggedInTime /\ TargetsAreProper /\ RulesAreCreated
      /\ Limit \in Nat
  BY DEF AdminInv, AdminAssumption
<1>2. /\ pc[r] = "action" /\ r \notin ran /\ r \notin Logged
      /\ UNCHANGED <<target, log, pushed, untrimmed>> /\ ran' = ran \cup {r}
  BY <1>1 DEF Action, Store, logVars, LoggedInTime
<1>3. /\ pc' \in [Requests -> {"start", "action", "push", "trim"} \cup Ended]
      /\ pc'[r] \in {"push", "failed"} /\ \A q \in Requests : q # r => pc'[q] = pc[q]
  BY <1>1 DEF Action, Goto, TypeOK, Ended
<1>4. KindOf[r] \in Kinds /\ (KindOf[r] \in {"create_rule", "delete_rule"}
                               => target[r] # NoRule /\ target[r] \in RuleIds)
  BY <1>1, <1>2 DEF AdminAssumption, TargetsAreProper, TypeOK
<1>5. Created' = IF KindOf[r] = "create_rule" THEN Created \cup {target[r]} ELSE Created
  BY <1>2 DEF Created
<1>6. Deleted' = IF KindOf[r] = "delete_rule" THEN Deleted \cup {target[r]} ELSE Deleted
  BY <1>2 DEF Deleted
<1>7. rules' = IF KindOf[r] = "create_rule" THEN rules \cup {target[r]}
               ELSE IF KindOf[r] = "delete_rule" THEN rules \ {target[r]} ELSE rules
  BY <1>4 DEF Action, Store, Kinds
<1>8. TypeOK'
  BY <1>1, <1>2, <1>3, <1>4, <1>7 DEF TypeOK
<1>9. LogIsRecent'
  BY <1>1, <1>2 DEF LogIsRecent
<1>10. LoggedInTime'
  <2>1. Logged' = Logged
    BY <1>2 DEF Logged
  <2> QED BY <1>1, <1>2, <1>3, <2>1 DEF LoggedInTime
<1>11. TargetsAreProper'
  <2>1. /\ \A q \in Requests : target[q] # NoRule => KindOf[q] \in {"create_rule", "delete_rule"}
        /\ \A q \in Requests : pc'[q] = "start" => target[q] = NoRule
        /\ \A q \in Requests : /\ KindOf[q] \in {"create_rule", "delete_rule"}
                               /\ pc'[q] = "action" \/ q \in ran'
                               => target[q] # NoRule
    BY <1>1, <1>2, <1>3, <1>4 DEF TargetsAreProper
  <2>2. \A q \in Requests : KindOf[q] = "delete_rule" /\ target[q] # NoRule => target[q] \in Created'
    BY <1>1, <1>5 DEF TargetsAreProper
  <2> QED BY <1>1, <1>2, <2>1, <2>2 DEF TargetsAreProper
<1>12. RulesAreCreated'
  <2>1. CASE KindOf[r] = "create_rule"
    <3>1. target[r] \notin Created
      BY <1>1, <1>2, <1>4, <2>1 DEF Created, TargetsAreProper, TypeOK
    <3>2. Deleted \subseteq Created
      BY <1>1 DEF Deleted, TargetsAreProper, TypeOK
    <3> QED BY <1>1, <1>5, <1>6, <1>7, <2>1, <3>1, <3>2 DEF RulesAreCreated
  <2>2. CASE KindOf[r] = "delete_rule"
    BY <1>1, <1>5, <1>6, <1>7, <2>2 DEF RulesAreCreated
  <2>3. CASE KindOf[r] \notin {"create_rule", "delete_rule"}
    BY <1>1, <1>5, <1>6, <1>7, <2>3 DEF RulesAreCreated
  <2> QED BY <2>1, <2>2, <2>3
<1> QED BY <1>8, <1>9, <1>10, <1>11, <1>12 DEF AdminInv

(***************************************************************************)
(* The request's entry is pushed, once.                                    *)
(***************************************************************************)
LEMMA PushEntryKeeps ==
  ASSUME AdminAssumption, AdminInv, NEW r \in Requests, PushEntry(r)
  PROVE  AdminInv'
<1>1. /\ TypeOK /\ LogIsRecent /\ LoggedInTime /\ TargetsAreProper /\ RulesAreCreated
      /\ Limit \in Nat
  BY DEF AdminInv, AdminAssumption
<1>2. /\ pc[r] = "push" /\ r \notin Logged /\ (KindOf[r] # "login" => r \in ran)
      /\ UNCHANGED <<rules, target, ran>> /\ Audit!Lpush(r)
  BY <1>1 DEF PushEntry, LoggedInTime
<1>3. /\ pc' \in [Requests -> {"start", "action", "push", "trim"} \cup Ended]
      /\ pc'[r] \in {"trim", "failed"} /\ \A q \in Requests : q # r => pc'[q] = pc[q]
  BY <1>1 DEF PushEntry, Goto, TypeOK, Ended
<1>4. /\ log' \in Seq(Requests) /\ pushed' \in Seq(Requests) /\ untrimmed' \in Nat
      /\ LogIsRecent'
      /\ Len(pushed') = Len(pushed) + 1 /\ pushed'[1] = r
      /\ \A i \in 2 .. Len(pushed) + 1 : pushed'[i] = pushed[i - 1]
  BY <1>1, <1>2, LpushEntry
<1>5. pushed \in Seq(Requests) /\ Len(pushed) \in Nat /\ DOMAIN pushed = 1 .. Len(pushed)
      /\ DOMAIN pushed' = 1 .. Len(pushed) + 1
  BY <1>1, <1>4 DEF TypeOK
<1>6. \A i \in 2 .. Len(pushed) + 1 : i - 1 \in DOMAIN pushed /\ pushed'[i] = pushed[i - 1]
  BY <1>4, <1>5
<1>7. Logged' = Logged \cup {r}
  <2>1. \A q \in Logged' : q \in Logged \cup {r}
    <3> SUFFICES ASSUME NEW i \in DOMAIN pushed' PROVE pushed'[i] \in Logged \cup {r}
      BY DEF Logged
    <3>1. CASE i = 1
      BY <1>4, <3>1
    <3>2. CASE i # 1
      BY <1>5, <1>6, <3>2 DEF Logged
    <3> QED BY <3>1, <3>2
  <2>2. \A q \in Logged : q \in Logged'
    <3> SUFFICES ASSUME NEW i \in DOMAIN pushed PROVE pushed[i] \in Logged'
      BY DEF Logged
    <3>1. i + 1 \in DOMAIN pushed' /\ i + 1 \in 2 .. Len(pushed) + 1 /\ (i + 1) - 1 = i
      BY <1>5
    <3>2. pushed'[i + 1] = pushed[i]
      BY <1>4, <3>1
    <3> QED BY <3>1, <3>2 DEF Logged
  <2>3. r \in Logged'
    BY <1>4, <1>5 DEF Logged
  <2> QED BY <2>1, <2>2, <2>3
<1>8. IsInjective(pushed')
  <2> SUFFICES ASSUME NEW i \in DOMAIN pushed', NEW j \in DOMAIN pushed', pushed'[i] = pushed'[j]
               PROVE  i = j
    BY DEF IsInjective
  <2>1. \A k \in DOMAIN pushed : pushed[k] # r
    BY <1>2 DEF Logged
  <2>2. \A k \in DOMAIN pushed' : k # 1 => pushed'[k] # r
    <3> SUFFICES ASSUME NEW k \in DOMAIN pushed', k # 1 PROVE pushed'[k] # r
      OBVIOUS
    <3>1. k \in 2 .. Len(pushed) + 1
      BY <1>5
    <3>2. k - 1 \in DOMAIN pushed /\ pushed'[k] = pushed[k - 1]
      BY <1>6, <3>1
    <3> QED BY <2>1, <3>2
  <2>3. CASE i # 1 /\ j # 1
    <3>1. i - 1 \in DOMAIN pushed /\ j - 1 \in DOMAIN pushed /\ pushed[i - 1] = pushed[j - 1]
      BY <1>5, <1>6, <2>3
    <3>2. i - 1 = j - 1
      BY <1>1, <3>1 DEF TypeOK, IsInjective
    <3> QED BY <1>5, <3>2
  <2> QED BY <1>4, <2>2, <2>3
<1>9. TypeOK'
  BY <1>1, <1>2, <1>3, <1>4, <1>8 DEF TypeOK
<1>10. LoggedInTime'
  BY <1>1, <1>2, <1>3, <1>7 DEF LoggedInTime
<1>11. Created' = Created /\ Deleted' = Deleted
  BY <1>2 DEF Created, Deleted
<1>12. TargetsAreProper'
  BY <1>1, <1>2, <1>3, <1>11 DEF TargetsAreProper
<1>13. RulesAreCreated'
  BY <1>1, <1>2, <1>11 DEF RulesAreCreated
<1> QED BY <1>4, <1>9, <1>10, <1>12, <1>13 DEF AdminInv

(***************************************************************************)
(* The log is trimmed; what was pushed stays known.                        *)
(***************************************************************************)
LEMMA TrimLogKeeps ==
  ASSUME AdminAssumption, AdminInv, NEW r \in Requests, TrimLog(r)
  PROVE  AdminInv'
<1>1. /\ TypeOK /\ LogIsRecent /\ LoggedInTime /\ TargetsAreProper /\ RulesAreCreated
      /\ Limit \in Nat
  BY DEF AdminInv, AdminAssumption
<1>2. /\ pc[r] = "trim" /\ UNCHANGED <<rules, target, ran>> /\ Audit!Ltrim
  BY DEF TrimLog
<1>3. /\ pc' \in [Requests -> {"start", "action", "push", "trim"} \cup Ended]
      /\ pc'[r] \in {"answered", "failed"} /\ \A q \in Requests : q # r => pc'[q] = pc[q]
  BY <1>1 DEF TrimLog, Goto, TypeOK, Ended
<1>4. log' \in Seq(Requests) /\ untrimmed' \in Nat /\ pushed' = pushed /\ LogIsRecent'
  BY <1>1, <1>2, LtrimLog
<1>5. TypeOK'
  BY <1>1, <1>2, <1>3, <1>4 DEF TypeOK
<1>6. LoggedInTime'
  BY <1>1, <1>2, <1>3, <1>4 DEF LoggedInTime, Logged
<1>7. Created' = Created /\ Deleted' = Deleted
  BY <1>2 DEF Created, Deleted
<1>8. TargetsAreProper'
  BY <1>1, <1>2, <1>3, <1>7 DEF TargetsAreProper
<1>9. RulesAreCreated'
  BY <1>1, <1>2, <1>7 DEF RulesAreCreated
<1> QED BY <1>4, <1>5, <1>6, <1>8, <1>9 DEF AdminInv

(***************************************************************************)
(* The invariant is inductive.                                             *)
(***************************************************************************)
LEMMA AdminStep ==
  ASSUME AdminAssumption, AdminInv, [Next]_vars
  PROVE  AdminInv'
<1>1. CASE UNCHANGED vars
  BY <1>1 DEF AdminInv, vars, logVars, TypeOK, LogIsRecent, LoggedInTime, TargetsAreProper,
              RulesAreCreated, Logged, Created, Deleted
<1>2. ASSUME NEW r \in Requests, Refuse(r) \/ Login(r) \/ Fail(r)
      PROVE  AdminInv'
  <2>1. CASE Refuse(r)
    BY <2>1, GotoKeeps DEF Refuse
  <2>2. CASE Login(r)
    BY <2>2, GotoKeeps DEF Login
  <2>3. CASE Fail(r)
    BY <2>3, GotoKeeps DEF Fail
  <2> QED BY <1>2, <2>1, <2>2, <2>3
<1>3. ASSUME NEW r \in Requests, Begin(r) \/ Action(r) \/ PushEntry(r) \/ TrimLog(r)
      PROVE  AdminInv'
  BY <1>3, BeginKeeps, ActionKeeps, PushEntryKeeps, TrimLogKeeps
<1> QED BY <1>1, <1>2, <1>3 DEF Next

(***************************************************************************)
(* The administration keeps its invariant.                                 *)
(***************************************************************************)
THEOREM Administered == Spec => []AdminInv
<1>1. Init => AdminInv
  BY AdminAssumption, AdminInit
<1>2. AdminInv /\ [Next]_vars => AdminInv'
  BY AdminAssumption, AdminStep
<1> QED BY <1>1, <1>2, PTL DEF Spec

(***************************************************************************)
(* Requests, rules and log have their types, and no request is logged      *)
(* twice (main.py, audit_log.py).                                          *)
(***************************************************************************)
THEOREM TypeCorrect == Spec => []TypeOK
<1>1. AdminInv => TypeOK
  BY DEF AdminInv
<1> QED BY <1>1, Administered, PTL

(***************************************************************************)
(* The rules that stand and those that are gone are explained by what was  *)
(* logged, up to requests that are not logged yet or failed (main.py).     *)
(***************************************************************************)
THEOREM LogExplainsRules == Spec => []AuditExplainsRules
<1>1. AdminInv => AuditExplainsRules
  <2> SUFFICES ASSUME AdminInv PROVE AuditExplainsRules
    OBVIOUS
  <2>1. TypeOK /\ LoggedInTime /\ rules = Created \ Deleted
    BY DEF AdminInv, RulesAreCreated
  <2>2. Logged \subseteq Requests
    BY <2>1 DEF TypeOK, Logged
  <2>3. ran \subseteq Logged \cup Unlogged
    <3> SUFFICES ASSUME NEW r \in ran, r \notin Logged PROVE r \in Unlogged
      OBVIOUS
    <3>1. r \in Requests /\ pc[r] \in {"start", "action", "push", "trim"} \cup Ended
      BY <2>1 DEF TypeOK
    <3>2. pc[r] \in {"push", "failed"}
      BY <2>1, <3>1 DEF LoggedInTime, Ended
    <3> QED BY <3>2 DEF Unlogged
  <2>4. TargetsOf(Logged, "delete_rule") \subseteq Deleted
    BY <2>1, <2>2 DEF TargetsOf, Deleted, LoggedInTime
  <2>5. TargetsOf(Logged, "create_rule") \subseteq Created
    BY <2>1, <2>2 DEF TargetsOf, Created, LoggedInTime
  <2>6. Created \subseteq TargetsOf(Logged \cup Unlogged, "create_rule")
    BY <2>3 DEF TargetsOf, Created
  <2>7. Deleted \subseteq TargetsOf(Logged \cup Unlogged, "delete_rule")
    BY <2>3 DEF TargetsOf, Deleted
  <2> QED BY <2>1, <2>4, <2>5, <2>6, <2>7 DEF AuditExplainsRules
<1> QED BY <1>1, Administered, PTL

(***************************************************************************)
(* Who was answered is in the log until Limit newer entries push the entry *)
(* out (audit_log.py, record).                                             *)
(***************************************************************************)
THEOREM AnswersAreLogged == Spec => []AnsweredIsLogged
<1>1. AdminInv => AnsweredIsLogged
  <2> SUFFICES ASSUME AdminInv, NEW r \in Requests, pc[r] = "answered"
               PROVE  \/ r \in {log[i] : i \in DOMAIN log}
                      \/ \E i \in DOMAIN pushed : pushed[i] = r /\ i > Limit
    BY DEF AnsweredIsLogged
  <2>1. TypeOK /\ LogIsRecent /\ LoggedInTime /\ Limit \in Nat
    BY AdminAssumption DEF AdminInv, AdminAssumption
  <2>2. PICK i \in DOMAIN pushed : pushed[i] = r
    BY <2>1 DEF LoggedInTime, Logged
  <2>3. CASE i > Limit
    BY <2>2, <2>3
  <2>4. CASE ~(i > Limit)
    <3>1. log \in Seq(Requests) /\ pushed \in Seq(Requests) /\ i \in 1 .. Len(pushed)
      BY <2>1 DEF TypeOK
    <3>2. i \in 1 .. Len(log) /\ log[i] = pushed[i]
      BY <2>1, <2>4, <3>1 DEF LogIsRecent
    <3>3. i \in DOMAIN log
      BY <3>1, <3>2
    <3> QED BY <2>2, <3>2, <3>3
  <2> QED BY <2>3, <2>4
<1> QED BY <1>1, Administered, PTL

(***************************************************************************)
(* The log is longer than its limit only by pushes not trimmed yet         *)
(* (audit_log.py, record).                                                 *)
(***************************************************************************)
THEOREM LogStaysBounded == Spec => []LogBounded
<1>1. AdminInv => LogBounded
  BY DEF AdminInv, LogIsRecent, LogBounded, Audit!LogBounded
<1> QED BY <1>1, Administered, PTL
================================================================================
