------------------------------ MODULE BoundedLog ------------------------------
(***************************************************************************)
(* The bounded logs in Redis: audit entries (app/admin/audit_log.py) and   *)
(* traffic events (app/admin/reports.py).  A record is an LPUSH and then   *)
(* an LTRIM, two commands between which other writers run.                 *)
(***************************************************************************)
EXTENDS Integers, SequencesExt

CONSTANT Limit   \* entries kept: 10000 audit entries, 50000 events

VARIABLES
  log,       \* the list, the newest entry first
  pushed,    \* history: every entry ever pushed, the newest first
  untrimmed  \* history: how many pushes ran since the last LTRIM

logVars == <<log, pushed, untrimmed>>

LogInit == log = <<>> /\ pushed = <<>> /\ untrimmed = 0

(***************************************************************************)
(* LPUSH: at the head.                                                     *)
(***************************************************************************)
Rpush(entry) ==
  /\ log' = Append(log, entry)
  /\ pushed' = <<entry>> \o pushed
  /\ untrimmed' = untrimmed + 1

Lpush(entry) ==
  /\ log' = <<entry>> \o log
  /\ pushed' = <<entry>> \o pushed
  /\ untrimmed' = untrimmed + 1

(***************************************************************************)
(* LTRIM 0 Limit-1: both ends are kept.                                    *)
(***************************************************************************)
LtrimInclusive ==
  /\ log' = SubSeq(log, 1, Min({Limit + 1, Len(log)}))
  /\ untrimmed' = 0
  /\ UNCHANGED pushed

Ltrim ==
  /\ log' = SubSeq(log, 1, Min({Limit, Len(log)}))
  /\ untrimmed' = 0
  /\ UNCHANGED pushed
-----------------------------------------------------------------------------
(***************************************************************************)
(* The list is longer than its limit by no more than the pushes since the  *)
(* last LTRIM, and an LTRIM lost in a failure is made up by the next one   *)
(* (audit_log.py:19, reports.py:18).                                       *)
(***************************************************************************)
LogBounded == Len(log) <= Limit + untrimmed
=============================================================================
