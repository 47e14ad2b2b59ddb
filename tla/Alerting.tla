------------------------------- MODULE Alerting -------------------------------
(***************************************************************************)
(* AlertManager of app/observability/alerting.py: an alert when a process  *)
(* blocked too many requests within a minute, then silence for a cooldown. *)
(* There is no await in it: record_block is one step, the requests to      *)
(* Slack and to the mail server included.                                  *)
(***************************************************************************)
EXTENDS Integers, SequencesExt

CONSTANTS
  AlertWindow,  \* 60 s
  Threshold,    \* critical_attack_threshold_per_min: 50
  Cooldown      \* COOLDOWN_SECONDS: 300

VARIABLES
  clock,
  recent,    \* _recent_blocks: the times of blocks
  lastAlert, \* _last_alert_sent
  recorded,  \* history: the times of all blocks of this process
  alerts     \* history: the times at which this process sent alerts

alertVars == <<recent, lastAlert, recorded, alerts>>

AlertTypeOK ==
  /\ recent \in Seq(0 .. clock) /\ IsSuffix(recent, recorded)
  /\ recorded \in Seq(0 .. clock) /\ alerts \in Seq(0 .. clock)
  /\ lastAlert \in {-Cooldown} \cup 0 .. clock

(***************************************************************************)
(* The epoch, where _last_alert_sent starts, is long past.                 *)
(***************************************************************************)
AlertInit ==
  /\ recent = <<>> /\ recorded = <<>> /\ alerts = <<>>
  /\ lastAlert = -Cooldown

(***************************************************************************)
(* The popleft loop: to the first block not older than the window.         *)
(***************************************************************************)
OldAtTheEdge(t) == clock - t >= AlertWindow

Old(t) == clock - t > AlertWindow

Trimmed(times) ==
  LET Young == {i \in DOMAIN times : ~Old(times[i])}
  IN  IF Young = {} THEN <<>> ELSE SubSeq(times, Min(Young), Len(times))

(***************************************************************************)
(* record_block and _maybe_send_alert.  A message that Slack or the mail   *)
(* server does not take is logged, and changes nothing.                    *)
(***************************************************************************)
RecordBlock ==
  LET times == Trimmed(Append(recent, clock))
      due == Len(times) >= Threshold /\ clock - lastAlert >= Cooldown
  IN  /\ recent' = times
      /\ recorded' = Append(recorded, clock)
      /\ lastAlert' = IF due THEN clock ELSE lastAlert
      /\ alerts' = IF due THEN Append(alerts, clock) ELSE alerts

(***************************************************************************)
(* A new process starts without blocks and without a cooldown.             *)
(***************************************************************************)
ForgetBlocks ==
  /\ recent' = <<>> /\ recorded' = <<>> /\ alerts' = <<>>
  /\ lastAlert' = -Cooldown
-----------------------------------------------------------------------------
(***************************************************************************)
(* The blocks up to the i-th that are in the window which it ends.         *)
(***************************************************************************)
AttackAt(i) ==
  Cardinality({j \in 1 .. i : recorded[i] - recorded[j] <= AlertWindow}) >= Threshold

(***************************************************************************)
(* Alerts are the attacks (alerting.py:19-33): a block that completes an   *)
(* attack has an alert of the same process in the Cooldown that ends with  *)
(* it, sent or failed; an alert is sent at a block that completes one; and *)
(* alerts of a process are a Cooldown apart.                               *)
(***************************************************************************)
AlertsMatchAttacks ==
  /\ \A i \in DOMAIN recorded : AttackAt(i) =>
       \E k \in DOMAIN alerts : recorded[i] - alerts[k] \in 0 .. Cooldown - 1
  /\ \A k \in DOMAIN alerts :
       \E i \in DOMAIN recorded : recorded[i] = alerts[k] /\ AttackAt(i)
  /\ \A k \in DOMAIN alerts \ {1} : alerts[k] - alerts[k - 1] >= Cooldown
=============================================================================
