---------------------------- MODULE ObserversProofs ----------------------------
(***************************************************************************)
(* Proofs about what a process tells of its requests: the dashboards, the  *)
(* alerts, the feature lists and the report log, for any requests, sockets *)
(* and settings that satisfy ObserversAssumption, in any scene.            *)
(***************************************************************************)
EXTENDS Observers, FiniteSetTheorems, WellFoundedInduction, TLAPS

Senders == Requests \cup {Health}
Names == {AddressOf[r] : r \in Requests} \cup {IdOf[r] : r \in Requests}

(***************************************************************************)
(* What Observers adds to its components.                                  *)
(***************************************************************************)
RequestTypes ==
  /\ scene \in Scenes /\ clock \in 0 .. scene.horizon
  /\ pc \in [Requests -> {"start"} \cup Awaiting \cup Ended]
  /\ verdict \in [Requests -> {"none", "allowed", "blocked"}]
  /\ stamp \in [Requests -> -1 .. clock]
  /\ health \in {"list", "broadcast", "sleep", "ended", "down"}
  /\ health = "down" <=> trainer.at = "down"

SendsInBroadcast == \A r \in Requests : sends[r] # NoSend => pc[r] = "broadcast"

(***************************************************************************)
(* The report log is the newest part of what was pushed, at least Limit    *)
(* entries of it; a request's event is pushed by its LPUSH, and no other.  *)
(***************************************************************************)
LogIsRecent ==
  /\ Len(log) <= Len(pushed)
  /\ \A i \in 1 .. Len(log) : log[i] = pushed[i]
  /\ Len(log) >= Limit \/ Len(log) = Len(pushed)

LogTypes ==
  /\ pushed \in Seq(Requests) /\ log \in Seq(Requests) /\ untrimmed \in Nat
  /\ \A i, j \in 1 .. Len(pushed) : pushed[i] = pushed[j] => i = j

PushedInTime ==
  /\ \A i \in 1 .. Len(pushed) : pc[pushed[i]] \in {"trim_events", "publish", "answered", "failed"}
  /\ \A r \in Requests : pc[r] \in {"trim_events", "publish", "answered"} =>
       \E i \in 1 .. Len(pushed) : pushed[i] = r

LogInv == LogTypes /\ LogIsRecent /\ PushedInTime

(***************************************************************************)
(* Blocks are recorded in the order of time; the ones no longer kept are   *)
(* out of the window; the last alert is the one remembered.                *)
(***************************************************************************)
AlertTypes ==
  /\ clock \in Nat
  /\ recent \in Seq(0 .. clock) /\ recorded \in Seq(0 .. clock) /\ alerts \in Seq(0 .. clock)
  /\ lastAlert = IF alerts = <<>> THEN -Cooldown ELSE alerts[Len(alerts)]

Dropped == Len(recorded) - Len(recent)

RecordedInOrder ==
  /\ \A i, j \in 1 .. Len(recorded) : i <= j => recorded[i] <= recorded[j]
  /\ Len(recent) <= Len(recorded)
  /\ \A i \in 1 .. Len(recent) : recent[i] = recorded[Dropped + i]
  /\ \A j \in 1 .. Dropped : clock - recorded[j] > AlertWindow

AttackIn(times, i) == Cardinality({j \in 1 .. i : times[i] - times[j] <= AlertWindow}) >= Threshold

Matches(times, sent) ==
  /\ \A i \in 1 .. Len(times) : AttackIn(times, i) =>
       \E k \in 1 .. Len(sent) : times[i] - sent[k] \in 0 .. Cooldown - 1
  /\ \A k \in 1 .. Len(sent) :
       \E i \in 1 .. Len(times) : times[i] = sent[k] /\ AttackIn(times, i)
  /\ \A k \in 2 .. Len(sent) : sent[k] - sent[k - 1] >= Cooldown

AlertInv == AlertTypes /\ RecordedInOrder /\ Matches(recorded, alerts)

(***************************************************************************)
(* A broadcast's index is accounted for by the dashboards it reached and   *)
(* those removed behind it; the ones it reached are not ahead of it; and   *)
(* dashboards still to come, connected or removed are no more than exist.  *)
(***************************************************************************)
NewSockets == {w \in Sockets : peer[w] = "new"}
ReachedIn(places, reached) == {i \in 1 .. Len(places) : places[i] \in reached}

SocketsFit(places, fresh) ==
  /\ places \in Seq(Sockets) /\ fresh \subseteq Sockets
  /\ \A i, j \in 1 .. Len(places) : places[i] = places[j] => i = j
  /\ \A i \in 1 .. Len(places) : places[i] \notin fresh
  /\ Len(places) + Cardinality(fresh) <= Cardinality(Sockets)

SendFits(places, fresh, send) ==
  /\ send.reached \cap fresh = {}
  /\ \A i \in ReachedIn(places, send.reached) : i <= send.place
  /\ send.place <= Cardinality(ReachedIn(places, send.reached)) + send.skips
  /\ send.skips + Len(places) + Cardinality(fresh) <= Cardinality(Sockets)

SendsFit(places, fresh, all) ==
  /\ all \in [Senders -> Dashboards!Send \cup {NoSend}]
  /\ \A s \in Senders : all[s] # NoSend => SendFits(places, fresh, all[s])

BroadcastInv ==
  /\ peer \in [Sockets -> {"new", "open", "closed", "gone"}]
  /\ SocketsFit(connections, NewSockets)
  /\ SendsFit(connections, NewSockets, sends)

(***************************************************************************)
(* The feature lists, and the retrainer, which reads those of clients it   *)
(* knows.                                                                  *)
(***************************************************************************)
StoreTypes ==
  /\ rows \in [Names -> Nat] /\ untrimmedRows \in [Names -> Nat] /\ unexpired \in [Names -> Nat]
  /\ mortal \subseteq {n \in Names : rows[n] > 0}

TrainerTypes ==
  /\ known \subseteq Names
  /\ trainer \in [at : {"sleep", "read", "ended", "down"}, todo : SUBSET known, got : Nat]
  /\ trained \in BOOLEAN
  /\ file \in {"none", "whole", "torn"}

RowsInv == StoreTypes /\ TrainerTypes /\ RowsAreKeptShort

-----------------------------------------------------------------------------
(***************************************************************************)
(* The smaller of two numbers.                                             *)
(***************************************************************************)
LEMMA MinOfTwo ==
  ASSUME NEW a \in Int, NEW b \in Int
  PROVE  /\ AI!Min({a, b}) = IF a <= b THEN a ELSE b
         /\ Reports!Min({a, b}) = IF a <= b THEN a ELSE b
<1> DEFINE m == IF a <= b THEN a ELSE b
<1>1. m \in {a, b} /\ \A y \in {a, b} : m <= y
  OBVIOUS
<1>2. \A x \in {a, b} : (\A y \in {a, b} : x <= y) => x = m
  OBVIOUS
<1> QED BY <1>1, <1>2 DEF AI!Min, Reports!Min

(***************************************************************************)
(* The commands of append() keep the lists short and mortal.               *)
(***************************************************************************)
LEMMA StoreStep ==
  ASSUME ObserversAssumption, StoreTypes, RowsAreKeptShort, NEW n \in Names,
         AI!PushRow(n) \/ AI!TrimRows(n) \/ AI!ExpireRows(n) \/ AI!RowsExpire(n)
  PROVE  StoreTypes' /\ RowsAreKeptShort'
<1>1. /\ rows \in [Names -> Nat] /\ untrimmedRows \in [Names -> Nat] /\ unexpired \in [Names -> Nat]
      /\ mortal \subseteq {m \in Names : rows[m] > 0} /\ RowsKept \in Nat /\ RowsKept > 0
      /\ \A m \in Names : /\ rows[m] <= RowsKept + untrimmedRows[m]
                          /\ rows[m] > 0 /\ m \notin mortal => unexpired[m] > 0
  BY DEF StoreTypes, RowsAreKeptShort, AI!RowsAreKeptShort, ObserversAssumption, Names
<1>2. /\ rows' \in [Names -> Nat] /\ untrimmedRows' \in [Names -> Nat] /\ unexpired' \in [Names -> Nat]
      /\ mortal' \subseteq {m \in Names : rows'[m] > 0}
      /\ \A m \in Names : /\ rows'[m] <= RowsKept + untrimmedRows'[m]
                          /\ rows'[m] > 0 /\ m \notin mortal' => unexpired'[m] > 0
  <2>1. CASE AI!PushRow(n)
    BY <1>1, <2>1 DEF AI!PushRow
  <2>2. CASE AI!TrimRows(n)
    <3>1. rows' = [rows EXCEPT ![n] = IF rows[n] <= RowsKept THEN rows[n] ELSE RowsKept]
      <4>1. rows[n] \in Int /\ RowsKept \in Int
        BY <1>1
      <4>2. AI!Min({rows[n], RowsKept}) = IF rows[n] <= RowsKept THEN rows[n] ELSE RowsKept
        BY <4>1, MinOfTwo
      <4> QED BY <2>2, <4>2, Zenon DEF AI!TrimRows
    <3> QED BY <1>1, <2>2, <3>1 DEF AI!TrimRows
  <2>3. CASE AI!ExpireRows(n)
    BY <1>1, <2>3 DEF AI!ExpireRows
  <2>4. CASE AI!RowsExpire(n)
    BY <1>1, <2>4 DEF AI!RowsExpire
  <2> QED BY <2>1, <2>2, <2>3, <2>4
<1> QED BY <1>2 DEF StoreTypes, RowsAreKeptShort, AI!RowsAreKeptShort, Names

(***************************************************************************)
(* The retrainer reads lists of clients it knows.                          *)
(***************************************************************************)
LEMMA TrainerStep ==
  ASSUME ObserversAssumption, StoreTypes, TrainerTypes,
         \/ \E n \in Names : AI!TrackClient(n)
         \/ AI!BeginCycle \/ AI!ReadRows \/ AI!EndTrainer \/ AI!StopTrainer \/ AI!StartTrainer
  PROVE  TrainerTypes'
<1>1. CASE \E n \in Names : AI!TrackClient(n)
  BY <1>1 DEF TrainerTypes, AI!TrackClient
<1>2. CASE AI!BeginCycle
  <2>1. CASE AI!Skip
    BY <2>1 DEF TrainerTypes, AI!Skip, AI!Sleep
  <2>2. CASE \E some \in SUBSET known :
               /\ trainer' = [at |-> "read", todo |-> some, got |-> 0]
               /\ UNCHANGED <<known, trained, file>>
    BY <2>2 DEF TrainerTypes
  <2> QED BY <1>2, <2>1, <2>2 DEF AI!BeginCycle, AI!kSubset
<1>3. CASE AI!ReadRows
  <2>1. PICK n \in trainer.todo :
          LET got == trainer.got + AI!RowsRead(n)
              todo == trainer.todo \ {n}
          IN  IF todo # {}
              THEN /\ trainer' = [at |-> "read", todo |-> todo, got |-> got]
                   /\ UNCHANGED <<known, trained, file>>
              ELSE IF AI!TooFew(got) THEN AI!Skip ELSE AI!Fit
    BY <1>3 DEF AI!ReadRows
  <2>2. trainer.todo \subseteq known /\ trainer.got \in Nat /\ n \in Names
    BY DEF TrainerTypes
  <2>3. trainer.got + AI!RowsRead(n) \in Nat
    <3>1. rows[n] \in Nat /\ ReadLimit \in Nat
      BY <2>2 DEF StoreTypes, ObserversAssumption
    <3>2. AI!Min({ReadLimit, rows[n]}) = IF ReadLimit <= rows[n] THEN ReadLimit ELSE rows[n]
      BY <3>1, MinOfTwo
    <3> QED BY <2>2, <3>1, <3>2 DEF AI!RowsRead
  <2>4. CASE AI!Skip \/ AI!Fit
    <3>1. trained' \in BOOLEAN
      BY <2>4, Zenon DEF AI!Skip, AI!Fit
    <3>2. /\ trainer' = [at |-> "sleep", todo |-> {}, got |-> 0] /\ known' = known
          /\ file' \in {file, "whole"}
      BY <2>4 DEF AI!Skip, AI!Fit, AI!Sleep
    <3> QED BY <3>1, <3>2 DEF TrainerTypes
  <2>5. ASSUME NEW todo \in SUBSET known, NEW got \in Nat,
               trainer' = [at |-> "read", todo |-> todo, got |-> got],
               UNCHANGED <<known, trained, file>>
        PROVE  TrainerTypes'
    BY <2>5 DEF TrainerTypes
  <2> QED BY <2>1, <2>2, <2>3, <2>4, <2>5
<1>4. CASE AI!EndTrainer \/ AI!StopTrainer
  <2>1. trained' \in BOOLEAN
    BY <1>4, Zenon DEF AI!EndTrainer, AI!StopTrainer, TrainerTypes
  <2>2. file' \in {file, "torn"}
    BY <1>4 DEF AI!EndTrainer, AI!StopTrainer, AI!FileAfterFailure
  <2>3. /\ known' \subseteq known
        /\ \E at \in {"ended", "down"} : trainer' = [at |-> at, todo |-> {}, got |-> 0]
    BY <1>4 DEF AI!EndTrainer, AI!StopTrainer, AI!Sleep, AI!Down
  <2> QED BY <2>1, <2>2, <2>3 DEF TrainerTypes
<1>5. CASE AI!StartTrainer
  BY <1>5 DEF TrainerTypes, AI!StartTrainer, AI!Sleep
<1> QED BY <1>1, <1>2, <1>3, <1>4, <1>5

(***************************************************************************)
(* What a step of the process does to the lists and to the retrainer.      *)
(***************************************************************************)
LEMMA StoreEffect ==
  ASSUME [Next]_vars
  PROVE  \/ UNCHANGED storeVars
         \/ \E n \in Names : AI!PushRow(n) \/ AI!TrimRows(n) \/ AI!ExpireRows(n) \/ AI!RowsExpire(n)
<1>1. \A r \in Requests : IdOf[r] \in Names
  BY DEF Names
<1>2. ASSUME NEW r \in Requests, Arrive(r) \/ Request(r) \/ Fail(r)
      PROVE  \/ UNCHANGED storeVars
             \/ \E n \in Names : AI!PushRow(n) \/ AI!TrimRows(n) \/ AI!ExpireRows(n)
  BY <1>1, <1>2 DEF Arrive, Request, PushRow, TrimRows, ExpireRows, Stamp, EmitEvent,
       BroadcastEvent, PushEvent, TrimEvents, Publish, Fail
<1>3. CASE RowsExpire
  BY <1>1, <1>3 DEF RowsExpire
<1>4. CASE \/ \E w \in Sockets : Browse(w) \/ Handle(w)
           \/ HealthStep \/ HealthEnds \/ Retrain \/ RetrainerEnds \/ Stop \/ Start \/ Tick
           \/ UNCHANGED vars
  BY <1>4 DEF Browse, Handle, HealthStep, HealthEnds, Retrain, RetrainerEnds, Stop, Start, Tick, vars
<1> QED BY <1>2, <1>3, <1>4 DEF Next

LEMMA TrainerEffect ==
  ASSUME [Next]_vars
  PROVE  \/ UNCHANGED trainerVars
         \/ \E n \in Names : AI!TrackClient(n)
         \/ AI!BeginCycle \/ AI!ReadRows \/ AI!EndTrainer \/ AI!StopTrainer \/ AI!StartTrainer
<1>1. \A r \in Requests : AddressOf[r] \in Names
  BY DEF Names
<1>2. ASSUME NEW r \in Requests, Arrive(r) \/ Request(r) \/ Fail(r)
      PROVE  UNCHANGED trainerVars \/ \E n \in Names : AI!TrackClient(n)
  BY <1>1, <1>2 DEF Arrive, Request, PushRow, TrimRows, ExpireRows, Stamp, EmitEvent,
       BroadcastEvent, PushEvent, TrimEvents, Publish, Fail
<1>3. CASE Retrain \/ RetrainerEnds \/ Stop \/ Start
  BY <1>3 DEF Retrain, RetrainerEnds, Stop, Start
<1>4. CASE \/ \E w \in Sockets : Browse(w) \/ Handle(w)
           \/ HealthStep \/ HealthEnds \/ RowsExpire \/ Tick \/ UNCHANGED vars
  BY <1>4 DEF Browse, Handle, HealthStep, HealthEnds, RowsExpire, Tick, vars
<1> QED BY <1>2, <1>3, <1>4 DEF Next

LEMMA RowsStep ==
  ASSUME ObserversAssumption, RowsInv, [Next]_vars
  PROVE  RowsInv'
<1>1. StoreTypes /\ TrainerTypes /\ RowsAreKeptShort
  BY DEF RowsInv
<1>2. StoreTypes' /\ RowsAreKeptShort'
  <2>1. CASE UNCHANGED storeVars
    BY <1>1, <2>1 DEF storeVars, StoreTypes, RowsAreKeptShort, AI!RowsAreKeptShort
  <2> QED BY <1>1, <2>1, StoreEffect, StoreStep
<1>3. TrainerTypes'
  <2>1. CASE UNCHANGED trainerVars
    BY <1>1, <2>1 DEF trainerVars, TrainerTypes
  <2> QED BY <1>1, <2>1, TrainerEffect, TrainerStep
<1> QED BY <1>2, <1>3 DEF RowsInv

-----------------------------------------------------------------------------
(***************************************************************************)
(* What a step does to a request: it stays where it is, or it goes on, by  *)
(* itself or with the end of the process.                                  *)
(***************************************************************************)
LEMMA RequestStep ==
  ASSUME ObserversAssumption, RequestTypes, [Next]_vars
  PROVE  RequestTypes'
<1> USE DEF Awaiting, Ended
<1>1. /\ scene \in Scenes /\ scene.horizon \in Nat /\ clock \in 0 .. scene.horizon
      /\ scene.ends \subseteq {"rejected", "bad_gateway", "allowed", "blocked"}
  BY DEF RequestTypes, ObserversAssumption
<1>2. scene' \in Scenes /\ clock' \in 0 .. scene'.horizon /\ clock <= clock'
  <2>1. scene' = scene /\ (clock' = clock \/ (clock < scene.horizon /\ clock' = clock + 1))
    BY DEF Next, vars, Arrive, Request, PushRow, TrimRows, ExpireRows, Stamp, EmitEvent,
           BroadcastEvent, PushEvent, TrimEvents, Publish, Fail, Browse, Handle, HealthStep,
           HealthEnds, Retrain, RetrainerEnds, RowsExpire, Stop, Start, Tick
  <2> QED BY <1>1, <2>1
<1>3. /\ pc' \in [Requests -> {"start"} \cup Awaiting \cup Ended]
      /\ verdict' \in [Requests -> {"none", "allowed", "blocked"}]
  <2>1. UNCHANGED <<pc, verdict>> \/ Stop \/ \E r \in Requests : Arrive(r) \/ Request(r) \/ Fail(r)
    BY DEF Next, vars, requestVars, Browse, Handle, HealthStep, HealthEnds, Retrain, RetrainerEnds,
           RowsExpire, Start, Tick
  <2>2. CASE UNCHANGED <<pc, verdict>>
    BY <2>2 DEF RequestTypes
  <2>3. CASE Stop
    BY <2>3 DEF RequestTypes, Stop
  <2>4. ASSUME NEW r \in Requests, Arrive(r)
        PROVE  /\ pc' \in [Requests -> {"start"} \cup Awaiting \cup Ended]
               /\ verdict' \in [Requests -> {"none", "allowed", "blocked"}]
    BY <2>4 DEF RequestTypes, Arrive, Goto
  <2>5. ASSUME NEW r \in Requests, Request(r) \/ Fail(r)
        PROVE  pc' \in [Requests -> {"start"} \cup Awaiting \cup Ended]
    BY <2>5 DEF RequestTypes, Request, PushRow, TrimRows, ExpireRows, Stamp, EmitEvent,
         BroadcastEvent, PushEvent, TrimEvents, Publish, Fail, Goto, Answer
  <2>6. ASSUME NEW r \in Requests, Request(r) \/ Fail(r)
        PROVE  verdict' \in [Requests -> {"none", "allowed", "blocked"}]
    <3>1. CASE ExpireRows(r)
      BY <1>1, <3>1 DEF RequestTypes, ExpireRows
    <3>2. CASE UNCHANGED verdict
      BY <3>2 DEF RequestTypes
    <3> QED BY <2>6, <3>1, <3>2 DEF Request, PushRow, TrimRows, Stamp, EmitEvent,
         BroadcastEvent, PushEvent, TrimEvents, Publish, Fail
  <2> QED BY <2>1, <2>2, <2>3, <2>4, <2>5, <2>6
<1>4. stamp' \in [Requests -> -1 .. clock']
  <2>1. UNCHANGED stamp \/ \E r \in Requests : stamp' = [stamp EXCEPT ![r] = clock]
    BY DEF Next, vars, requestVars, Arrive, Request, PushRow, TrimRows, ExpireRows, Stamp, EmitEvent,
           BroadcastEvent, PushEvent, TrimEvents, Publish, Fail, Browse, Handle, HealthStep,
           HealthEnds, Retrain, RetrainerEnds, RowsExpire, Stop, Start, Tick
  <2>2. stamp \in [Requests -> -1 .. clock] /\ clock \in Nat /\ clock' \in Nat
    BY <1>1, <1>2 DEF RequestTypes, ObserversAssumption
  <2> QED BY <1>2, <2>1, <2>2
<1>5. /\ health' \in {"list", "broadcast", "sleep", "ended", "down"}
      /\ health' = "down" <=> trainer'.at = "down"
  <2>1. CASE UNCHANGED <<health, trainer>>
    BY <2>1 DEF RequestTypes
  <2>2. CASE Stop \/ Start
    BY <2>2 DEF RequestTypes, Stop, Start, AI!StopTrainer, AI!StartTrainer, AI!Down, AI!Sleep
  <2>3. CASE HealthStep \/ HealthEnds
    BY <2>3 DEF RequestTypes, HealthStep, HealthEnds, trainerVars
  <2>4. CASE Retrain \/ RetrainerEnds
    BY <2>4 DEF RequestTypes, Retrain, RetrainerEnds, AI!BeginCycle, AI!ReadRows, AI!EndTrainer,
         AI!Skip, AI!Fit, AI!Sleep
  <2> QED BY <2>1, <2>2, <2>3, <2>4
       DEF Next, vars, trainerVars, Arrive, AI!TrackClient, Request, PushRow, TrimRows, ExpireRows,
           Stamp, EmitEvent, BroadcastEvent, PushEvent, TrimEvents, Publish, Fail, Browse, Handle,
           RowsExpire, Tick
<1> QED BY <1>2, <1>3, <1>4, <1>5 DEF RequestTypes

-----------------------------------------------------------------------------
(***************************************************************************)
(* LPUSH puts an entry before all others, LTRIM keeps the newest ones.     *)
(***************************************************************************)
LEMMA LpushEntry ==
  ASSUME LogTypes, LogIsRecent, Limit \in Nat, NEW r \in Requests, Reports!Lpush(r),
         \A i \in 1 .. Len(pushed) : pushed[i] # r
  PROVE  /\ LogTypes' /\ LogIsRecent'
         /\ Len(pushed') = Len(pushed) + 1 /\ pushed'[1] = r
         /\ \A i \in 2 .. Len(pushed) + 1 : pushed'[i] = pushed[i - 1]
<1>1. /\ log \in Seq(Requests) /\ pushed \in Seq(Requests) /\ untrimmed \in Nat
      /\ Len(log) \in Nat /\ Len(pushed) \in Nat
  BY DEF LogTypes
<1>2. /\ log' = <<r>> \o log /\ pushed' = <<r>> \o pushed /\ untrimmed' = untrimmed + 1
  BY DEF Reports!Lpush
<1>3. /\ log' \in Seq(Requests) /\ Len(log') = Len(log) + 1
      /\ log'[1] = r /\ \A i \in 2 .. Len(log) + 1 : log'[i] = log[i - 1]
  BY <1>1, <1>2
<1>4. /\ pushed' \in Seq(Requests) /\ Len(pushed') = Len(pushed) + 1
      /\ pushed'[1] = r /\ \A i \in 2 .. Len(pushed) + 1 : pushed'[i] = pushed[i - 1]
  BY <1>1, <1>2
<1>5. ASSUME NEW i \in 1 .. Len(pushed'), NEW j \in 1 .. Len(pushed'), pushed'[i] = pushed'[j]
      PROVE  i = j
  <2>1. CASE i = 1 \/ j = 1
    <3>1. ASSUME NEW k \in 2 .. Len(pushed) + 1
          PROVE  pushed'[k] # r
      <4>1. k - 1 \in 1 .. Len(pushed)
        BY <1>1
      <4> QED BY <1>4, <4>1
    <3> QED BY <1>1, <1>4, <1>5, <2>1, <3>1
  <2>2. CASE i # 1 /\ j # 1
    <3>1. /\ i \in 2 .. Len(pushed) + 1 /\ j \in 2 .. Len(pushed) + 1
          /\ i - 1 \in 1 .. Len(pushed) /\ j - 1 \in 1 .. Len(pushed)
      BY <1>1, <1>4, <2>2
    <3>2. pushed[i - 1] = pushed[j - 1]
      BY <1>4, <1>5, <3>1
    <3>3. i - 1 = j - 1
      BY <3>1, <3>2 DEF LogTypes
    <3> QED BY <3>1, <3>3
  <2> QED BY <2>1, <2>2
<1>6. \A i \in 1 .. Len(log') : log'[i] = pushed'[i]
  <2> SUFFICES ASSUME NEW i \in 1 .. Len(log') PROVE log'[i] = pushed'[i]
    OBVIOUS
  <2>1. CASE i = 1
    BY <1>3, <1>4, <2>1
  <2>2. CASE i # 1
    <3>1. i - 1 \in 1 .. Len(log) /\ i \in 2 .. Len(log) + 1 /\ i \in 2 .. Len(pushed) + 1
      BY <1>1, <1>3, <2>2 DEF LogIsRecent
    <3>2. log[i - 1] = pushed[i - 1]
      BY <3>1 DEF LogIsRecent
    <3> QED BY <1>3, <1>4, <3>1, <3>2
  <2> QED BY <2>1, <2>2
<1>7. /\ Len(log') <= Len(pushed')
      /\ Len(log') >= Limit \/ Len(log') = Len(pushed')
  BY <1>1, <1>3, <1>4 DEF LogIsRecent
<1>8. untrimmed' \in Nat
  BY <1>1, <1>2
<1> QED BY <1>3, <1>4, <1>5, <1>6, <1>7, <1>8 DEF LogTypes, LogIsRecent

LEMMA LtrimLog ==
  ASSUME LogTypes, LogIsRecent, Limit \in Nat, Reports!Ltrim
  PROVE  LogTypes' /\ LogIsRecent' /\ pushed' = pushed
<1> DEFINE n == IF Limit <= Len(log) THEN Limit ELSE Len(log)
<1>1. log \in Seq(Requests) /\ pushed \in Seq(Requests) /\ Len(log) \in Nat /\ Len(pushed) \in Nat
  BY DEF LogTypes
<1>2. log' = SubSeq(log, 1, n) /\ untrimmed' = 0 /\ pushed' = pushed
  <2>1. Reports!Min({Limit, Len(log)}) = n
    <3>1. Limit \in Int /\ Len(log) \in Int
      BY <1>1
    <3> QED BY <3>1, MinOfTwo
  <2> HIDE DEF n
  <2> QED BY <2>1 DEF Reports!Ltrim
<1>3. n \in 0 .. Len(log) /\ (n = Limit \/ n = Len(log))
  BY <1>1
<1> HIDE DEF n
<1>4. log' \in Seq(Requests) /\ Len(log') = n
  BY <1>1, <1>2, <1>3
<1>5. \A i \in 1 .. n : log'[i] = log[i]
  BY <1>1, <1>2, <1>3
<1>6. /\ Len(log') <= Len(pushed')
      /\ Len(log') >= Limit \/ Len(log') = Len(pushed')
  BY <1>1, <1>2, <1>3, <1>4 DEF LogIsRecent
<1>7. \A i \in 1 .. Len(log') : log'[i] = pushed'[i]
  BY <1>1, <1>2, <1>3, <1>4, <1>5 DEF LogIsRecent
<1>8. LogTypes'
  BY <1>2, <1>4 DEF LogTypes
<1> QED BY <1>2, <1>6, <1>7, <1>8 DEF LogIsRecent

(***************************************************************************)
(* Only a request at its LPUSH pushes, and its own event.                  *)
(***************************************************************************)
LEMMA LogEffect ==
  ASSUME [Next]_vars
  PROVE  \/ UNCHANGED logVars \/ Reports!Ltrim
         \/ \E r \in Requests :
              /\ pc[r] = "push_event" /\ Reports!Lpush(r)
              /\ Goto(r, "trim_events") \/ Goto(r, "failed")
<1>1. ASSUME NEW r \in Requests, Arrive(r) \/ Request(r)
      PROVE  \/ UNCHANGED logVars \/ Reports!Ltrim
             \/ pc[r] = "push_event" /\ Reports!Lpush(r) /\ Goto(r, "trim_events")
  BY <1>1 DEF Arrive, Request, PushRow, TrimRows, ExpireRows, Stamp, EmitEvent,
       BroadcastEvent, PushEvent, TrimEvents, Publish
<1>2. ASSUME NEW r \in Requests, Fail(r)
      PROVE  \/ UNCHANGED logVars \/ Reports!Ltrim
             \/ pc[r] = "push_event" /\ Reports!Lpush(r) /\ Goto(r, "failed")
  BY <1>2 DEF Fail
<1>3. CASE \/ \E w \in Sockets : Browse(w) \/ Handle(w)
           \/ HealthStep \/ HealthEnds \/ Retrain \/ RetrainerEnds \/ RowsExpire
           \/ Stop \/ Start \/ Tick \/ UNCHANGED vars
  BY <1>3 DEF Browse, Handle, HealthStep, HealthEnds, Retrain, RetrainerEnds, RowsExpire, Stop,
       Start, Tick, vars
<1> QED BY <1>1, <1>2, <1>3 DEF Next

(***************************************************************************)
(* No step takes a request back before its LPUSH, or past it without one.  *)
(***************************************************************************)
Pushed == {"trim_events", "publish", "answered"}

LEMMA PcEffect ==
  ASSUME RequestTypes, [Next]_vars, NEW r \in Requests
  PROVE  /\ pc[r] \in Pushed \cup {"failed"} => pc'[r] \in Pushed \cup {"failed"}
         /\ pc'[r] \in Pushed => pc[r] \in Pushed \/ (pc[r] = "push_event" /\ Reports!Lpush(r))
<1> DEFINE Keeps(q) == /\ pc[q] \in Pushed \cup {"failed"} => pc'[q] \in Pushed \cup {"failed"}
                       /\ pc'[q] \in Pushed =>
                            pc[q] \in Pushed \/ (pc[q] = "push_event" /\ Reports!Lpush(q))
<1>0. pc \in [Requests -> {"start"} \cup Awaiting \cup Ended]
  BY DEF RequestTypes
<1>1. CASE UNCHANGED pc
  BY <1>1
<1>2. CASE Stop
  BY <1>0, <1>2 DEF Stop, Pushed, Awaiting, Ended
<1>3. ASSUME NEW q \in Requests, NEW next, Goto(q, next),
             \/ pc[q] \notin Pushed \cup {"failed"} /\ next \notin Pushed
             \/ pc[q] \in Pushed /\ next \in Pushed \cup {"failed"}
             \/ pc[q] = "push_event" /\ Reports!Lpush(q)
      PROVE  Keeps(r)
  <2>1. pc'[q] = next /\ \A p \in Requests : p # q => pc'[p] = pc[p]
    BY <1>0, <1>3 DEF Goto
  <2> QED BY <1>3, <2>1 DEF Pushed
<1>4. ASSUME NEW q \in Requests, Arrive(q)
      PROVE  Keeps(r)
  <2>1. \E next \in {"stamp", "push_row"} : pc[q] = "start" /\ Goto(q, next)
    BY <1>4 DEF Arrive
  <2> QED BY <1>3, <2>1 DEF Pushed
<1>5. ASSUME NEW q \in Requests, Request(q)
      PROVE  Keeps(r)
  <2>1. \/ UNCHANGED pc
        \/ \E next \in Awaiting \cup {"bad_gateway"} :
             Goto(q, next) /\ pc[q] \notin Pushed \cup {"failed"} /\ next \notin Pushed
        \/ \E next \in Pushed : Goto(q, next) /\ pc[q] \in Pushed
        \/ pc[q] = "push_event" /\ Reports!Lpush(q) /\ Goto(q, "trim_events")
    BY <1>5 DEF Request, PushRow, TrimRows, ExpireRows, Stamp, EmitEvent, BroadcastEvent,
         PushEvent, TrimEvents, Publish, Answer, Pushed, Awaiting
  <2> QED BY <1>1, <1>3, <2>1
<1>6. ASSUME NEW q \in Requests, Fail(q)
      PROVE  Keeps(r)
  <2>1. Goto(q, "failed") /\ pc[q] \in Awaiting
    BY <1>6 DEF Fail
  <2> QED BY <1>3, <2>1 DEF Pushed, Awaiting
<1>7. CASE \/ \E w \in Sockets : Browse(w) \/ Handle(w)
           \/ HealthStep \/ HealthEnds \/ Retrain \/ RetrainerEnds \/ RowsExpire
           \/ Start \/ Tick \/ UNCHANGED vars
  BY <1>1, <1>7 DEF Browse, Handle, HealthStep, HealthEnds, Retrain, RetrainerEnds, RowsExpire,
       Start, Tick, vars, requestVars
<1> QED BY <1>2, <1>4, <1>5, <1>6, <1>7 DEF Next

LEMMA LogStep ==
  ASSUME ObserversAssumption, RequestTypes, LogInv, [Next]_vars
  PROVE  LogInv'
<1>1. LogTypes /\ LogIsRecent /\ PushedInTime /\ Limit \in Nat
  BY DEF LogInv, ObserversAssumption
<1>2. pushed \in Seq(Requests) /\ Len(pushed) \in Nat
  BY <1>1 DEF LogTypes
<1>3. CASE pushed' = pushed /\ LogTypes' /\ LogIsRecent'
  <2>1. ASSUME NEW i \in 1 .. Len(pushed)
        PROVE  pc'[pushed[i]] \in {"trim_events", "publish", "answered", "failed"}
    <3>1. pushed[i] \in Requests
      BY <1>2
    <3> QED BY <1>1, <3>1, PcEffect DEF PushedInTime, Pushed
  <2>2. ASSUME NEW r \in Requests, pc'[r] \in {"trim_events", "publish", "answered"}
        PROVE  \E i \in 1 .. Len(pushed) : pushed[i] = r
    <3>1. ~Reports!Lpush(r)
      <4>1. Len(<<r>> \o pushed) = Len(pushed) + 1
        BY <1>2
      <4> QED BY <1>2, <1>3, <4>1 DEF Reports!Lpush
    <3> QED BY <1>1, <2>2, <3>1, PcEffect DEF PushedInTime, Pushed
  <2> QED BY <1>3, <2>1, <2>2 DEF LogInv, PushedInTime
<1>4. ASSUME NEW r \in Requests, pc[r] = "push_event", Reports!Lpush(r),
             Goto(r, "trim_events") \/ Goto(r, "failed")
      PROVE  LogInv'
  <2>1. \A i \in 1 .. Len(pushed) : pushed[i] # r
    BY <1>1, <1>4 DEF PushedInTime
  <2>2. /\ LogTypes' /\ LogIsRecent'
        /\ Len(pushed') = Len(pushed) + 1 /\ pushed'[1] = r
        /\ \A i \in 2 .. Len(pushed) + 1 : pushed'[i] = pushed[i - 1]
    BY <1>1, <1>4, <2>1, LpushEntry
  <2>3. /\ pc'[r] \in {"trim_events", "failed"}
        /\ \A q \in Requests : q # r => pc'[q] = pc[q]
    BY <1>4 DEF RequestTypes, Goto
  <2>4. ASSUME NEW i \in 1 .. Len(pushed')
        PROVE  pc'[pushed'[i]] \in {"trim_events", "publish", "answered", "failed"}
    <3>1. CASE i = 1
      BY <2>2, <2>3, <3>1
    <3>2. CASE i # 1
      <4>1. i \in 2 .. Len(pushed) + 1 /\ i - 1 \in 1 .. Len(pushed)
        BY <1>2, <2>2, <3>2
      <4>2. pushed'[i] = pushed[i - 1] /\ pushed[i - 1] \in Requests
        BY <1>2, <2>2, <4>1
      <4> QED BY <1>1, <4>1, <4>2, PcEffect DEF PushedInTime, Pushed
    <3> QED BY <3>1, <3>2
  <2>5. ASSUME NEW q \in Requests, pc'[q] \in {"trim_events", "publish", "answered"}
        PROVE  \E i \in 1 .. Len(pushed') : pushed'[i] = q
    <3>1. CASE q = r
      BY <1>2, <2>2, <3>1
    <3>2. CASE q # r
      <4>1. PICK i \in 1 .. Len(pushed) : pushed[i] = q
        BY <1>1, <2>3, <2>5, <3>2 DEF PushedInTime
      <4>2. i + 1 \in 2 .. Len(pushed) + 1 /\ (i + 1) - 1 = i
        BY <1>2
      <4>3. pushed'[i + 1] = pushed[(i + 1) - 1]
        BY <2>2, <4>2
      <4>4. i + 1 \in 1 .. Len(pushed')
        BY <1>2, <2>2
      <4> QED BY <4>1, <4>2, <4>3, <4>4
    <3> QED BY <3>1, <3>2
  <2> QED BY <2>2, <2>4, <2>5 DEF LogInv, PushedInTime
<1>5. CASE UNCHANGED logVars
  BY <1>1, <1>3, <1>5 DEF logVars, LogTypes, LogIsRecent
<1>6. CASE Reports!Ltrim
  BY <1>1, <1>3, <1>6, LtrimLog
<1> QED BY <1>4, <1>5, <1>6, LogEffect

(***************************************************************************)
(* What the log shows of a period is complete.                             *)
(***************************************************************************)
LEMMA CompleteSummaries ==
  ASSUME ObserversAssumption, RequestTypes, LogInv
  PROVE  SummariesAreComplete
<1>1. LogTypes /\ LogIsRecent /\ PushedInTime /\ Limit \in Nat
  BY DEF LogInv, ObserversAssumption
<1>2. Len(pushed) \in Nat /\ Len(log) \in Nat /\ Len(log) <= Len(pushed)
  BY <1>1 DEF LogTypes, LogIsRecent
<1>5. DOMAIN pushed = 1 .. Len(pushed) /\ DOMAIN log = 1 .. Len(log)
  BY <1>1 DEF LogTypes
<1> SUFFICES ASSUME NEW period \in 0 .. clock
             PROVE  /\ \A i, j \in Summary(period) : log[i] = log[j] => i = j
                    /\ \A r \in Requests :
                         pc[r] = "answered" /\ stamp[r] >= clock - period =>
                           \/ \E i \in Summary(period) : log[i] = r
                           \/ \E i \in DOMAIN pushed : pushed[i] = r /\ i > Limit
  BY DEF SummariesAreComplete
<1>3. ASSUME NEW i \in Summary(period), NEW j \in Summary(period), log[i] = log[j]
      PROVE  i = j
  <2>1. i \in 1 .. Len(log) /\ j \in 1 .. Len(log)
    BY <1>5 DEF Summary
  <2>2. i \in 1 .. Len(pushed) /\ j \in 1 .. Len(pushed) /\ pushed[i] = pushed[j]
    BY <1>1, <1>2, <1>3, <2>1 DEF LogIsRecent
  <2> QED BY <1>1, <2>2 DEF LogTypes
<1>4. ASSUME NEW r \in Requests, pc[r] = "answered", stamp[r] >= clock - period
      PROVE  \/ \E i \in Summary(period) : log[i] = r
             \/ \E i \in DOMAIN pushed : pushed[i] = r /\ i > Limit
  <2>1. PICK i \in 1 .. Len(pushed) : pushed[i] = r
    BY <1>1, <1>4 DEF PushedInTime
  <2>2. CASE i <= Len(log)
    <3>1. i \in 1 .. Len(log) /\ log[i] = r
      BY <1>1, <1>2, <2>1, <2>2 DEF LogIsRecent
    <3> QED BY <1>4, <1>5, <3>1 DEF Summary
  <2>3. CASE i > Len(log)
    <3>1. i > Limit
      BY <1>1, <1>2, <2>1, <2>3 DEF LogIsRecent
    <3> QED BY <1>5, <2>1, <3>1
  <2> QED BY <1>2, <2>2, <2>3
<1> QED BY <1>3, <1>4

-----------------------------------------------------------------------------
(***************************************************************************)
(* Every nonempty set of naturals has a least element, which Min is.       *)
(***************************************************************************)
LEMMA LeastIsMin ==
  ASSUME NEW T \in SUBSET Nat, T # {}
  PROVE  Alert!Min(T) \in T /\ \A y \in T : Alert!Min(T) <= y
<1> DEFINE R == {ss \in Nat \X Nat : ss[1] < ss[2]}
<1>1. IsWellFoundedOn(R, Nat)
  BY NatLessThanWellFounded DEF OpToRel
<1>2. \A x, y \in T : ~(<<y, x>> \in R) => x <= y
  OBVIOUS
<1> HIDE DEF R
<1>3. PICK x \in T : \A y \in T : ~(<<y, x>> \in R)
  BY <1>1, WFMin
<1>4. \E z \in T : \A y \in T : z <= y
  BY <1>2, <1>3
<1> QED BY <1>4, Zenon DEF Alert!Min

(***************************************************************************)
(* Instances count as FiniteSets does.                                     *)
(***************************************************************************)
LEMMA SameCount == \A S : Alert!Cardinality(S) = Cardinality(S) /\ Dashboards!Cardinality(S) = Cardinality(S)
BY DEF Alert!Cardinality, Dashboards!Cardinality, Cardinality

(***************************************************************************)
(* The popleft loop leaves the end of the recorded blocks that is in the   *)
(* window.                                                                 *)
(***************************************************************************)
LEMMA TrimmedBlocks ==
  ASSUME ObserversAssumption, NEW times \in Seq(0 .. clock), clock \in Nat,
         times # <<>>, times[Len(times)] = clock,
         \A i, j \in 1 .. Len(times) : i <= j => times[i] <= times[j]
  PROVE  LET kept == Alert!Trimmed(times)
             d == Len(times) - Len(kept)
         IN  /\ kept \in Seq(0 .. clock) /\ Len(kept) \in 1 .. Len(times)
             /\ \A i \in 1 .. Len(kept) : kept[i] = times[d + i] /\ clock - kept[i] <= AlertWindow
             /\ \A j \in 1 .. d : clock - times[j] > AlertWindow
<1> DEFINE Young == {i \in DOMAIN times : ~Alert!Old(times[i])}
           m == Alert!Min(Young)
           kept == Alert!Trimmed(times)
<1>1. /\ Len(times) \in Nat /\ Len(times) > 0 /\ DOMAIN times = 1 .. Len(times)
      /\ \A i \in 1 .. Len(times) : times[i] \in Int
      /\ AlertWindow \in Nat
  BY DEF ObserversAssumption
<1>2. Len(times) \in Young
  BY <1>1 DEF Alert!Old
<1>3. Young \in SUBSET Nat
  BY <1>1
<1>4. m \in Young /\ \A i \in Young : m <= i
  <2> HIDE DEF Young
  <2> QED BY <1>2, <1>3, LeastIsMin
<1>5. m \in 1 .. Len(times) /\ clock - times[m] <= AlertWindow
  BY <1>1, <1>4 DEF Alert!Old
<1>6. \A j \in 1 .. m - 1 : clock - times[j] > AlertWindow
  <2> SUFFICES ASSUME NEW j \in 1 .. m - 1
               PROVE  clock - times[j] > AlertWindow
    OBVIOUS
  <2>1. j \in 1 .. Len(times) /\ j \notin Young
    <3> HIDE DEF m, Young
    <3>1. m \in Nat /\ m <= Len(times) /\ j \in Nat /\ 1 <= j /\ j < m
      BY <1>1, <1>5
    <3> QED BY <1>1, <1>4, <3>1
  <2> QED BY <1>1, <2>1 DEF Alert!Old
<1>7. kept = SubSeq(times, m, Len(times))
  BY <1>2 DEF Alert!Trimmed
<1> HIDE DEF m, kept, Young
<1>8. /\ kept \in Seq(0 .. clock) /\ Len(kept) = Len(times) - m + 1
      /\ \A i \in 1 .. Len(kept) : kept[i] = times[m - 1 + i]
  <2>1. m \in 1 .. Len(times) /\ Len(times) \in 1 .. Len(times)
    BY <1>1, <1>5
  <2> DEFINE T == 0 .. clock
  <2>2. times \in Seq(T)
    OBVIOUS
  <2> HIDE DEF T
  <2>3. kept \in Seq(T) /\ Len(kept) = Len(times) - m + 1
    BY <1>1, <1>7, <2>1, <2>2
  <2>4. ASSUME NEW i \in 1 .. Len(kept)
        PROVE  kept[i] = times[m - 1 + i]
    <3>1. i \in Int /\ m \in Int /\ m + i - 1 = m - 1 + i
      BY <2>1
    <3>2. kept[i] = times[m + i - 1]
      BY <1>1, <1>7, <2>1, <2>2, <2>3
    <3> QED BY <3>1, <3>2
  <2> QED BY <2>3, <2>4 DEF T
<1>9. Len(times) - Len(kept) = m - 1 /\ Len(kept) \in 1 .. Len(times)
  BY <1>1, <1>5, <1>8
<1>10. ASSUME NEW i \in 1 .. Len(kept)
       PROVE  clock - kept[i] <= AlertWindow
  <2>1. m - 1 + i \in 1 .. Len(times) /\ m <= m - 1 + i
    BY <1>1, <1>5, <1>9
  <2>2. times[m] <= times[m - 1 + i]
    BY <1>5, <2>1
  <2>3. kept[i] = times[m - 1 + i] /\ times[m] \in Int /\ times[m - 1 + i] \in Int
    BY <1>1, <1>5, <1>8, <2>1
  <2>4. clock - times[m] <= AlertWindow /\ AlertWindow \in Int
    BY <1>1, <1>5
  <2>5. ASSUME NEW a \in Int, NEW b \in Int, a <= b, clock - a <= AlertWindow
        PROVE  clock - b <= AlertWindow
    BY <2>4, <2>5
  <2> QED BY <2>2, <2>3, <2>4, <2>5
<1> QED BY <1>6, <1>8, <1>9, <1>10 DEF kept

(***************************************************************************)
(* record_block: the blocks kept are the attack the new one may complete.  *)
(***************************************************************************)
LEMMA RecordStep ==
  ASSUME ObserversAssumption, AlertInv, Alert!RecordBlock, UNCHANGED clock
  PROVE  AlertInv'
<1> DEFINE n == Len(recorded)
           all == Append(recent, clock)
           times == Alert!Trimmed(all)
           due == Len(times) >= Threshold /\ clock - lastAlert >= Cooldown
<1>1. /\ clock \in Nat /\ recent \in Seq(0 .. clock) /\ recorded \in Seq(0 .. clock)
      /\ alerts \in Seq(0 .. clock) /\ RecordedInOrder /\ Matches(recorded, alerts)
      /\ lastAlert = IF alerts = <<>> THEN -Cooldown ELSE alerts[Len(alerts)]
      /\ AlertWindow \in Nat /\ Threshold \in Nat /\ Cooldown \in Nat /\ Cooldown > 0
  BY DEF AlertInv, AlertTypes, ObserversAssumption
<1>2. /\ recent' = times /\ recorded' = Append(recorded, clock)
      /\ lastAlert' = IF due THEN clock ELSE lastAlert
      /\ alerts' = IF due THEN Append(alerts, clock) ELSE alerts
  BY DEF Alert!RecordBlock
<1>3. /\ n \in Nat /\ Len(recent) \in Nat /\ Len(alerts) \in Nat /\ Len(recent) <= n
      /\ \A i \in 1 .. n : recorded[i] \in 0 .. clock
      /\ \A i \in 1 .. Len(recent) : recent[i] \in 0 .. clock /\ recent[i] = recorded[n - Len(recent) + i]
      /\ \A k \in 1 .. Len(alerts) : alerts[k] \in 0 .. clock
  <2>1. n \in Nat /\ Len(recent) \in Nat /\ Len(alerts) \in Nat /\ Len(recent) <= n
    BY <1>1 DEF RecordedInOrder
  <2>2. /\ \A i \in 1 .. n : recorded[i] \in 0 .. clock
        /\ \A i \in 1 .. Len(recent) : recent[i] \in 0 .. clock
        /\ \A k \in 1 .. Len(alerts) : alerts[k] \in 0 .. clock
    <3> DEFINE T == 0 .. clock
    <3>1. recorded \in Seq(T) /\ recent \in Seq(T) /\ alerts \in Seq(T)
      BY <1>1
    <3> HIDE DEF T
    <3>2. /\ \A i \in 1 .. n : recorded[i] \in T
          /\ \A i \in 1 .. Len(recent) : recent[i] \in T
          /\ \A k \in 1 .. Len(alerts) : alerts[k] \in T
      BY <3>1
    <3> QED BY <3>2 DEF T
  <2>3. \A i \in 1 .. Len(recent) : recent[i] = recorded[n - Len(recent) + i]
    BY <1>1 DEF RecordedInOrder, Dropped
  <2> QED BY <2>1, <2>2, <2>3
<1>4. /\ all \in Seq(0 .. clock) /\ Len(all) = Len(recent) + 1 /\ all[Len(recent) + 1] = clock
      /\ \A i \in 1 .. Len(recent) : all[i] = recent[i]
  BY <1>1, <1>3
<1>5. /\ recorded' \in Seq(0 .. clock) /\ Len(recorded') = n + 1 /\ recorded'[n + 1] = clock
      /\ \A i \in 1 .. n : recorded'[i] = recorded[i]
  BY <1>1, <1>2
<1>0. n \in Nat /\ Len(recent) \in 0 .. n /\ Len(all) = Len(recent) + 1 /\ Len(recorded') = n + 1
  BY <1>3, <1>4, <1>5
<1> HIDE DEF n, all, due
<1>6. \A i, j \in 1 .. Len(recorded') : i <= j => recorded'[i] <= recorded'[j]
  <2> SUFFICES ASSUME NEW i \in 1 .. n + 1, NEW j \in 1 .. n + 1, i <= j
               PROVE  recorded'[i] <= recorded'[j]
    BY <1>5
  <2>1. CASE j = n + 1
    BY <1>1, <1>3, <1>5, <2>1
  <2>2. CASE j # n + 1
    <3>1. i \in 1 .. n /\ j \in 1 .. n
      BY <1>3, <2>2
    <3> QED BY <1>1, <1>5, <3>1 DEF RecordedInOrder, n
  <2> QED BY <2>1, <2>2
<1>7. \A i \in 1 .. Len(all) : all[i] = recorded'[n + 1 - Len(all) + i]
  <2> SUFFICES ASSUME NEW i \in 1 .. Len(all)
               PROVE  all[i] = recorded'[n + 1 - Len(all) + i]
    OBVIOUS
  <2>1. CASE i = Len(recent) + 1
    BY <1>3, <1>4, <1>5, <2>1
  <2>2. CASE i # Len(recent) + 1
    <3>1. i \in 1 .. Len(recent) /\ n + 1 - Len(all) + i = n - Len(recent) + i
      BY <1>3, <1>4, <2>2
    <3>2. n - Len(recent) + i \in 1 .. n
      BY <1>3, <3>1
    <3> QED BY <1>3, <1>4, <1>5, <3>1, <3>2
  <2> QED BY <2>1, <2>2
<1>8. \A i, j \in 1 .. Len(all) : i <= j => all[i] <= all[j]
  <2> SUFFICES ASSUME NEW i \in 1 .. Len(all), NEW j \in 1 .. Len(all), i <= j
               PROVE  all[i] <= all[j]
    OBVIOUS
  <2> DEFINE s == n + 1 - Len(all)
  <2>1. /\ s \in Int /\ s >= 0 /\ s + Len(all) = Len(recorded')
        /\ Len(all) \in Int /\ Len(recorded') \in Int
    BY <1>0
  <2>2. all[i] = recorded'[s + i] /\ all[j] = recorded'[s + j]
    BY <1>7
  <2> HIDE DEF s
  <2>3. s + i \in 1 .. Len(recorded') /\ s + j \in 1 .. Len(recorded') /\ s + i <= s + j
    <3> DEFINE a == Len(all)
               r == Len(recorded')
    <3>1. i \in 1 .. a /\ j \in 1 .. a /\ a \in Int /\ r \in Int /\ s + a = r
      BY <2>1
    <3> HIDE DEF a, r
    <3>2. s + i \in 1 .. r /\ s + j \in 1 .. r /\ s + i <= s + j
      BY <2>1, <3>1
    <3> QED BY <3>2 DEF r
  <2> QED BY <1>6, <2>2, <2>3
<1>9. /\ times \in Seq(0 .. clock) /\ Len(times) \in 1 .. Len(all)
      /\ \A i \in 1 .. Len(times) : /\ times[i] = all[Len(all) - Len(times) + i]
                                    /\ clock - times[i] <= AlertWindow
      /\ \A j \in 1 .. Len(all) - Len(times) : clock - all[j] > AlertWindow
  <2>1. all # <<>> /\ all[Len(all)] = clock
    BY <1>3, <1>4
  <2> QED BY <1>1, <1>4, <1>8, <2>1, TrimmedBlocks
<1> HIDE DEF times
<1> DEFINE d == n + 1 - Len(times)
<1>10. d \in 0 .. n /\ Len(times) <= n + 1 /\ Len(times) \in Nat
  BY <1>3, <1>4, <1>9
<1>11. \A i \in 1 .. Len(times) : times[i] = recorded'[d + i]
  <2> SUFFICES ASSUME NEW i \in 1 .. Len(times)
               PROVE  times[i] = recorded'[d + i]
    OBVIOUS
  <2>1. Len(all) - Len(times) + i \in 1 .. Len(all)
    BY <1>3, <1>4, <1>9
  <2>2. n + 1 - Len(all) + (Len(all) - Len(times) + i) = d + i
    BY <1>3, <1>4, <1>9
  <2> QED BY <1>7, <1>9, <2>1, <2>2
<1>12. \A j \in 1 .. d : clock - recorded'[j] > AlertWindow
  <2> SUFFICES ASSUME NEW j \in 1 .. d
               PROVE  clock - recorded'[j] > AlertWindow
    OBVIOUS
  <2> DEFINE s == n + 1 - Len(all)
  <2>0. s \in Nat /\ j \in 1 .. n
    BY <1>3, <1>4, <1>10
  <2>1. CASE j <= s
    <3>1. j \in 1 .. n - Len(recent)
      BY <1>3, <1>4, <2>1
    <3> QED BY <1>1, <1>5, <2>0, <3>1 DEF RecordedInOrder, Dropped, n
  <2>2. CASE j > s
    <3>1. j - s \in 1 .. Len(all) - Len(times) /\ j - s \in 1 .. Len(all) /\ s + (j - s) = j
      <4>1. Len(times) \in 1 .. Len(all)
        BY <1>9
      <4> QED BY <1>0, <2>0, <2>2, <4>1
    <3>2. all[j - s] = recorded'[s + (j - s)]
      BY <1>7, <3>1
    <3> QED BY <1>9, <3>1, <3>2
  <2> QED BY <2>0, <2>1, <2>2
<1>13. AlertTypes' /\ RecordedInOrder'
  <2>1. /\ alerts' \in Seq(0 .. clock)
        /\ lastAlert' = IF alerts' = <<>> THEN -Cooldown ELSE alerts'[Len(alerts')]
    <3>1. CASE due
      <4>1. /\ alerts' = Append(alerts, clock) /\ lastAlert' = clock
            /\ alerts' # <<>> /\ Len(alerts') = Len(alerts) + 1 /\ alerts'[Len(alerts) + 1] = clock
        BY <1>1, <1>2, <3>1
      <4> QED BY <1>1, <4>1
    <3>2. CASE ~due
      BY <1>1, <1>2, <3>2
    <3> QED BY <3>1, <3>2
  <2>2. AlertTypes'
    BY <1>1, <1>2, <1>5, <1>9, <2>1 DEF AlertTypes
  <2>3. Dropped' = d /\ Len(recent') = Len(times)
    BY <1>2, <1>5 DEF Dropped, n
  <2> HIDE DEF d
  <2>4. RecordedInOrder'
    BY <1>2, <1>5, <1>6, <1>10, <1>11, <1>12, <2>3 DEF RecordedInOrder
  <2> QED BY <2>2, <2>4
<1>14. ASSUME NEW i \in 1 .. n
       PROVE  AttackIn(recorded', i) <=> AttackIn(recorded, i)
  <2>1. {j \in 1 .. i : recorded'[i] - recorded'[j] <= AlertWindow}
          = {j \in 1 .. i : recorded[i] - recorded[j] <= AlertWindow}
    <3>1. \A j \in 1 .. i : j \in 1 .. n
      BY <1>0
    <3> QED BY <1>5, <3>1
  <2> QED BY <2>1 DEF AttackIn
<1>15. AttackIn(recorded', n + 1) <=> Len(times) >= Threshold
  <2>1. {j \in 1 .. n + 1 : recorded'[n + 1] - recorded'[j] <= AlertWindow} = d + 1 .. n + 1
    <3>1. ASSUME NEW j \in 1 .. n + 1
          PROVE  (recorded'[n + 1] - recorded'[j] <= AlertWindow) <=> j > d
      <4>1. recorded'[j] \in 0 .. clock
        <5>1. CASE j = n + 1
          BY <1>1, <1>5, <5>1
        <5>2. CASE j # n + 1
          <6>1. j \in 1 .. n
            BY <1>0, <5>2
          <6> QED BY <1>3, <1>5, <6>1
        <5> QED BY <5>1, <5>2
      <4>2. CASE j \in 1 .. d
        <5>1. clock - recorded'[j] > AlertWindow
          BY <1>12, <4>2
        <5>2. recorded'[n + 1] = clock /\ d \in Nat /\ j <= d
          BY <1>5, <1>10, <4>2
        <5> HIDE DEF d
        <5> QED BY <1>1, <4>1, <5>1, <5>2
      <4>3. CASE j > d
        <5>1. j - d \in 1 .. Len(times) /\ d + (j - d) = j
          BY <1>3, <1>10, <4>3
        <5>2. times[j - d] = recorded'[d + (j - d)]
          BY <1>11, <5>1
        <5>3. clock - times[j - d] <= AlertWindow
          BY <1>9, <5>1
        <5> QED BY <1>5, <4>3, <5>1, <5>2, <5>3
      <4> QED BY <1>10, <4>2, <4>3
    <3>2. d + 1 .. n + 1 = {j \in 1 .. n + 1 : j > d}
      BY <1>3, <1>10
    <3> HIDE DEF d
    <3> QED BY <3>1, <3>2
  <2>2. Cardinality(d + 1 .. n + 1) = Len(times)
    <3>1. d + 1 \in Int /\ n + 1 \in Int /\ ~(d + 1 > n + 1) /\ (n + 1) - (d + 1) + 1 = Len(times)
      BY <1>3, <1>9, <1>10
    <3> HIDE DEF d
    <3> QED BY <3>1, FS_Interval
  <2> HIDE DEF d
  <2> QED BY <2>1, <2>2 DEF AttackIn
<1> HIDE DEF d
<1>16. Matches(recorded, alerts) /\ n + 1 \in 1 .. Len(recorded') /\ n = Len(recorded)
  BY <1>1, <1>3, <1>5 DEF n
<1>17. \A i \in 1 .. Len(recorded') : i = n + 1 \/ (i \in 1 .. n /\ recorded'[i] = recorded[i])
  BY <1>3, <1>5
<1>18. \A i \in 1 .. n : i \in 1 .. Len(recorded')
  BY <1>3, <1>5
<1>19. CASE due
  <2>1. /\ Len(alerts') = Len(alerts) + 1 /\ alerts'[Len(alerts) + 1] = clock
        /\ \A k \in 1 .. Len(alerts) : alerts'[k] = alerts[k]
    BY <1>1, <1>2, <1>19
  <2>2. ASSUME NEW i \in 1 .. Len(recorded'), AttackIn(recorded', i)
        PROVE  \E k \in 1 .. Len(alerts') : recorded'[i] - alerts'[k] \in 0 .. Cooldown - 1
    <3>1. CASE i = n + 1
      <4>1. Len(alerts) + 1 \in 1 .. Len(alerts') /\ recorded'[i] - alerts'[Len(alerts) + 1] = 0
        BY <1>1, <1>3, <1>5, <2>1, <3>1
      <4>2. 0 \in 0 .. Cooldown - 1
        BY <1>1
      <4> QED BY <4>1, <4>2
    <3>2. CASE i \in 1 .. n /\ recorded'[i] = recorded[i]
      <4>1. AttackIn(recorded, i)
        BY <1>14, <2>2, <3>2
      <4>2. PICK k \in 1 .. Len(alerts) : recorded[i] - alerts[k] \in 0 .. Cooldown - 1
        BY <1>16, <3>2, <4>1 DEF Matches
      <4>3. k \in 1 .. Len(alerts') /\ alerts'[k] = alerts[k]
        BY <1>3, <2>1
      <4> QED BY <3>2, <4>2, <4>3
    <3> QED BY <1>17, <3>1, <3>2
  <2>3. ASSUME NEW k \in 1 .. Len(alerts')
        PROVE  \E i \in 1 .. Len(recorded') : recorded'[i] = alerts'[k] /\ AttackIn(recorded', i)
    <3>1. CASE k = Len(alerts) + 1
      <4>1. AttackIn(recorded', n + 1)
        BY <1>15, <1>19 DEF due
      <4> QED BY <1>5, <1>16, <2>1, <3>1, <4>1
    <3>2. CASE k # Len(alerts) + 1
      <4>1. k \in 1 .. Len(alerts) /\ alerts'[k] = alerts[k]
        BY <1>3, <2>1, <3>2
      <4>2. PICK i \in 1 .. n : recorded[i] = alerts[k] /\ AttackIn(recorded, i)
        BY <1>16, <4>1 DEF Matches
      <4>3. AttackIn(recorded', i) /\ recorded'[i] = recorded[i] /\ i \in 1 .. Len(recorded')
        BY <1>5, <1>14, <1>18, <4>2
      <4> QED BY <4>1, <4>2, <4>3
    <3> QED BY <3>1, <3>2
  <2>4. ASSUME NEW k \in 2 .. Len(alerts')
        PROVE  alerts'[k] - alerts'[k - 1] >= Cooldown
    <3>1. CASE k = Len(alerts) + 1
      <4>1. Len(alerts) \in 1 .. Len(alerts) /\ alerts # <<>> /\ k - 1 = Len(alerts)
        BY <1>1, <1>3, <2>1, <2>4, <3>1
      <4>2. lastAlert = alerts[Len(alerts)] /\ clock - lastAlert >= Cooldown
        BY <1>1, <1>19, <4>1 DEF due
      <4> QED BY <2>1, <3>1, <4>1, <4>2
    <3>2. CASE k # Len(alerts) + 1
      <4>1. k \in 2 .. Len(alerts) /\ k \in 1 .. Len(alerts) /\ k - 1 \in 1 .. Len(alerts)
        BY <1>3, <2>1, <2>4, <3>2
      <4>2. alerts[k] - alerts[k - 1] >= Cooldown
        BY <1>16, <4>1 DEF Matches
      <4> QED BY <2>1, <4>1, <4>2
    <3> QED BY <3>1, <3>2
  <2>5. Matches(recorded', alerts')
    BY <2>2, <2>3, <2>4 DEF Matches
  <2> QED BY <1>13, <2>5 DEF AlertInv
<1>20. CASE ~due
  <2>1. alerts' = alerts
    BY <1>2, <1>20
  <2>2. ASSUME NEW i \in 1 .. Len(recorded'), AttackIn(recorded', i)
        PROVE  \E k \in 1 .. Len(alerts) : recorded'[i] - alerts[k] \in 0 .. Cooldown - 1
    <3>1. CASE i = n + 1
      <4>1. lastAlert \in Int
        BY <1>1, <1>3
      <4>2. Len(times) >= Threshold
        BY <1>15, <2>2, <3>1
      <4>3. clock - lastAlert < Cooldown
        <5>1. ~(clock - lastAlert >= Cooldown)
          BY <1>20, <4>2 DEF due
        <5> QED BY <1>1, <4>1, <5>1
      <4>4. alerts # <<>>
        BY <1>1, <4>3
      <4>5. Len(alerts) \in 1 .. Len(alerts) /\ lastAlert = alerts[Len(alerts)]
        BY <1>1, <1>3, <4>4
      <4>6. recorded'[i] - alerts[Len(alerts)] \in 0 .. Cooldown - 1
        <5>1. recorded'[i] = clock /\ lastAlert \in 0 .. clock
          BY <1>3, <1>5, <3>1, <4>5
        <5>2. clock - lastAlert \in 0 .. Cooldown - 1
          <6>1. clock \in Nat /\ Cooldown \in Nat
            BY <1>1
          <6> QED BY <4>1, <4>3, <5>1, <6>1
        <5> QED BY <4>5, <5>1, <5>2
      <4> QED BY <4>5, <4>6
    <3>2. CASE i \in 1 .. n /\ recorded'[i] = recorded[i]
      <4>1. AttackIn(recorded, i)
        BY <1>14, <2>2, <3>2
      <4>2. PICK k \in 1 .. Len(alerts) : recorded[i] - alerts[k] \in 0 .. Cooldown - 1
        BY <1>16, <3>2, <4>1 DEF Matches
      <4> QED BY <3>2, <4>2
    <3> QED BY <1>17, <3>1, <3>2
  <2>3. ASSUME NEW k \in 1 .. Len(alerts)
        PROVE  \E i \in 1 .. Len(recorded') : recorded'[i] = alerts[k] /\ AttackIn(recorded', i)
    <3>1. PICK i \in 1 .. n : recorded[i] = alerts[k] /\ AttackIn(recorded, i)
      BY <1>16 DEF Matches
    <3>2. AttackIn(recorded', i) /\ recorded'[i] = recorded[i] /\ i \in 1 .. Len(recorded')
      BY <1>5, <1>14, <1>18, <3>1
    <3> QED BY <3>1, <3>2
  <2>4. \A k \in 2 .. Len(alerts) : alerts[k] - alerts[k - 1] >= Cooldown
    BY <1>16 DEF Matches
  <2>5. Matches(recorded', alerts')
    BY <2>1, <2>2, <2>3, <2>4 DEF Matches
  <2> QED BY <1>13, <2>5 DEF AlertInv
<1> QED BY <1>19, <1>20

(***************************************************************************)
(* Sequences over any set: their elements, their prefixes, and functions   *)
(* that are sequences.                                                     *)
(***************************************************************************)
LEMMA SeqElements ==
  ASSUME NEW T, NEW s \in Seq(T)
  PROVE  Len(s) \in Nat /\ (\A i \in 1 .. Len(s) : s[i] \in T)
OBVIOUS

LEMMA SeqFromFunction ==
  ASSUME NEW T, NEW m \in Nat, NEW s, s = [i \in 1 .. m |-> s[i]],
         \A i \in 1 .. m : s[i] \in T
  PROVE  s \in Seq(T) /\ Len(s) = m
OBVIOUS

LEMMA SamePrefix ==
  ASSUME NEW T, NEW s \in Seq(T), NEW t \in Seq(T), NEW m \in Nat,
         m <= Len(s), m <= Len(t), \A i \in 1 .. m : s[i] = t[i]
  PROVE  SubSeq(s, 1, m) = SubSeq(t, 1, m)
<1>1. SubSeq(s, 1, m) = [i \in 1 .. m |-> s[i]]
  OBVIOUS
<1>2. SubSeq(t, 1, m) = [i \in 1 .. m |-> t[i]]
  OBVIOUS
<1> QED BY <1>1, <1>2

(***************************************************************************)
(* Time passes, and the process ends.                                      *)
(***************************************************************************)
LEMMA WaitStep ==
  ASSUME ObserversAssumption, AlertInv, UNCHANGED alertVars, clock' \in Nat, clock <= clock'
  PROVE  AlertInv'
<1>1. /\ clock \in Nat /\ recent \in Seq(0 .. clock) /\ recorded \in Seq(0 .. clock)
      /\ alerts \in Seq(0 .. clock) /\ AlertWindow \in Nat
      /\ lastAlert = IF alerts = <<>> THEN -Cooldown ELSE alerts[Len(alerts)]
  BY DEF AlertInv, AlertTypes, ObserversAssumption
<1>2. /\ recent' = recent /\ recorded' = recorded /\ alerts' = alerts /\ lastAlert' = lastAlert
  BY DEF alertVars
<1>3. 0 .. clock \subseteq 0 .. clock'
  BY <1>1
<1>4. \A s \in Seq(0 .. clock) : s \in Seq(0 .. clock')
  <2> DEFINE S == 0 .. clock
             T == 0 .. clock'
  <2>1. S \subseteq T
    BY <1>3
  <2> HIDE DEF S, T
  <2>2. Seq(S) \subseteq Seq(T)
    BY <2>1
  <2> QED BY <2>2 DEF S, T
<1>5. AlertTypes'
  BY <1>1, <1>2, <1>4 DEF AlertTypes
<1>6. Dropped' = Dropped
  BY <1>2 DEF Dropped
<1>7. \A j \in 1 .. Dropped : clock' - recorded[j] > AlertWindow
  <2> SUFFICES ASSUME NEW j \in 1 .. Dropped
               PROVE  clock' - recorded[j] > AlertWindow
    OBVIOUS
  <2>0. Len(recorded) \in Nat /\ Len(recent) \in Nat /\ Len(recent) <= Len(recorded)
    BY <1>1, SeqElements DEF AlertInv, RecordedInOrder
  <2>1. j \in 1 .. Len(recorded) /\ clock - recorded[j] > AlertWindow
    BY <2>0 DEF AlertInv, RecordedInOrder, Dropped
  <2>2. recorded[j] \in 0 .. clock
    BY <1>1, <2>1, SeqElements
  <2>3. recorded[j] \in Int /\ clock \in Int /\ clock' \in Int /\ AlertWindow \in Int
    BY <1>1, <2>2
  <2>4. clock - recorded[j] > AlertWindow
    BY <2>1
  <2> QED BY <2>3, <2>4
<1>8. RecordedInOrder'
  BY <1>2, <1>6, <1>7 DEF AlertInv, RecordedInOrder
<1>9. Matches(recorded', alerts')
  BY <1>2 DEF AlertInv
<1> QED BY <1>5, <1>8, <1>9 DEF AlertInv

LEMMA NoBlocks ==
  ASSUME ObserversAssumption, clock \in Nat,
         recent = <<>>, recorded = <<>>, alerts = <<>>, lastAlert = -Cooldown
  PROVE  AlertInv
<1>1. AlertTypes
  BY DEF AlertTypes
<1>2. RecordedInOrder
  BY DEF RecordedInOrder, Dropped
<1>3. Matches(recorded, alerts)
  BY DEF Matches
<1> QED BY <1>1, <1>2, <1>3 DEF AlertInv

LEMMA AlertEffect ==
  ASSUME RequestTypes, ObserversAssumption, [Next]_vars
  PROVE  \/ UNCHANGED alertVars /\ clock' \in Nat /\ clock <= clock'
         \/ Alert!RecordBlock /\ UNCHANGED clock
         \/ Alert!ForgetBlocks /\ UNCHANGED clock
<1>0. clock \in Nat
  BY DEF RequestTypes, ObserversAssumption
<1>1. ASSUME NEW r \in Requests, Arrive(r) \/ Request(r) \/ Fail(r)
      PROVE  (UNCHANGED alertVars \/ Alert!RecordBlock) /\ UNCHANGED clock
  BY <1>1 DEF Arrive, Request, PushRow, TrimRows, ExpireRows, Stamp, EmitEvent,
       BroadcastEvent, PushEvent, TrimEvents, Publish, Answer, Fail
<1>2. CASE Stop
  BY <1>2 DEF Stop
<1>3. CASE Tick
  BY <1>0, <1>3 DEF Tick
<1>4. CASE \/ \E w \in Sockets : Browse(w) \/ Handle(w)
           \/ HealthStep \/ HealthEnds \/ Retrain \/ RetrainerEnds \/ RowsExpire
           \/ Start \/ UNCHANGED vars
  BY <1>0, <1>4 DEF Browse, Handle, HealthStep, HealthEnds, Retrain, RetrainerEnds, RowsExpire,
       Start, vars
<1> QED BY <1>0, <1>1, <1>2, <1>3, <1>4 DEF Next

LEMMA AlertStep ==
  ASSUME ObserversAssumption, RequestTypes, AlertInv, [Next]_vars
  PROVE  AlertInv'
<1>1. CASE Alert!ForgetBlocks /\ UNCHANGED clock
  <2>1. clock' \in Nat
    BY <1>1 DEF AlertInv, AlertTypes
  <2>2. recent' = <<>> /\ recorded' = <<>> /\ alerts' = <<>> /\ lastAlert' = -Cooldown
    BY <1>1 DEF Alert!ForgetBlocks
  <2>3. AlertTypes'
    BY <2>1, <2>2 DEF AlertTypes
  <2>4. RecordedInOrder'
    BY <2>2 DEF RecordedInOrder, Dropped
  <2>5. Matches(recorded', alerts')
    BY <2>2 DEF Matches
  <2> QED BY <2>3, <2>4, <2>5 DEF AlertInv
<1> QED BY <1>1, RecordStep, WaitStep, AlertEffect

(***************************************************************************)
(* The invariant in the terms of Alerting.                                 *)
(***************************************************************************)
LEMMA AlertFacts ==
  ASSUME ObserversAssumption, AlertInv
  PROVE  Alert!AlertTypeOK /\ AlertsMatchAttacks
<1>1. /\ clock \in Nat /\ recent \in Seq(0 .. clock) /\ recorded \in Seq(0 .. clock)
      /\ alerts \in Seq(0 .. clock) /\ RecordedInOrder /\ Matches(recorded, alerts)
      /\ lastAlert = IF alerts = <<>> THEN -Cooldown ELSE alerts[Len(alerts)]
  BY DEF AlertInv, AlertTypes
<1>2. /\ DOMAIN recorded = 1 .. Len(recorded) /\ DOMAIN alerts = 1 .. Len(alerts)
      /\ Len(recorded) \in Nat /\ Len(recent) \in Nat /\ Len(alerts) \in Nat
  BY <1>1
<1>3. \A i : Alert!AttackAt(i) <=> AttackIn(recorded, i)
  BY SameCount, Zenon DEF Alert!AttackAt, AttackIn
<1>4. AlertsMatchAttacks
  <2>1. \A k \in DOMAIN alerts \ {1} : k \in 2 .. Len(alerts)
    BY <1>2
  <2> QED BY <1>1, <1>2, <1>3, <2>1 DEF AlertsMatchAttacks, Alert!AlertsMatchAttacks, Matches
<1>5. lastAlert \in {-Cooldown} \cup 0 .. clock
  <2>1. CASE alerts = <<>>
    BY <1>1, <2>1
  <2>2. CASE alerts # <<>>
    <3>1. Len(alerts) \in 1 .. Len(alerts)
      BY <1>1, <2>2
    <3>2. alerts[Len(alerts)] \in 0 .. clock
      BY <1>1, <3>1, SeqElements
    <3> QED BY <1>1, <2>2, <3>2
  <2> QED BY <2>1, <2>2
<1>6. Alert!IsSuffix(recent, recorded)
  <2> DEFINE m == Len(recent)
             n == Len(recorded)
             s == Alert!Reverse(recent)
             t == Alert!Reverse(recorded)
  <2>1. m \in Nat /\ n \in Nat /\ m <= n
    BY <1>1, <1>2 DEF RecordedInOrder
  <2>2. \A i \in 1 .. m : recent[i] = recorded[n - m + i]
    BY <1>1 DEF RecordedInOrder, Dropped
  <2> HIDE DEF m, n
  <2>3. s = [i \in 1 .. m |-> recent[m - i + 1]] /\ t = [i \in 1 .. n |-> recorded[n - i + 1]]
    BY DEF Alert!Reverse, m, n
  <2> HIDE DEF s, t
  <2>4. \A i \in 1 .. m : s[i] = t[i]
    <3> SUFFICES ASSUME NEW i \in 1 .. m
                 PROVE  s[i] = t[i]
      OBVIOUS
    <3>1. m - i + 1 \in 1 .. m /\ i \in 1 .. n /\ n - m + (m - i + 1) = n - i + 1
      BY <2>1
    <3> QED BY <2>2, <2>3, <3>1
  <2>5. s \in Seq(0 .. clock) /\ t \in Seq(0 .. clock) /\ Len(s) = m /\ Len(t) = n
    <3> DEFINE T == 0 .. clock
    <3>1. \A i \in 1 .. m : m - i + 1 \in 1 .. m
      BY <2>1
    <3>2. \A i \in 1 .. n : n - i + 1 \in 1 .. n
      BY <2>1
    <3>3. recent \in Seq(T) /\ recorded \in Seq(T)
      BY <1>1
    <3> HIDE DEF T
    <3>4. \A i \in 1 .. m : recent[m - i + 1] \in T
      BY <3>1, <3>3 DEF m
    <3>5. \A i \in 1 .. n : recorded[n - i + 1] \in T
      BY <3>2, <3>3 DEF n
    <3>6. s \in Seq(T) /\ Len(s) = m
      <4>1. s = [i \in 1 .. m |-> s[i]] /\ \A i \in 1 .. m : s[i] \in T
        BY <2>3, <3>4
      <4> QED BY <2>1, <4>1, SeqFromFunction
    <3>7. t \in Seq(T) /\ Len(t) = n
      <4>1. t = [i \in 1 .. n |-> t[i]] /\ \A i \in 1 .. n : t[i] \in T
        BY <2>3, <3>5
      <4> QED BY <2>1, <4>1, SeqFromFunction
    <3> QED BY <3>6, <3>7 DEF T
  <2>6. SubSeq(s, 1, m) = SubSeq(t, 1, m)
    BY <2>1, <2>4, <2>5, SamePrefix
  <2> QED BY <2>1, <2>5, <2>6 DEF Alert!IsSuffix, Alert!IsPrefix, s, t
<1> QED BY <1>1, <1>4, <1>5, <1>6 DEF Alert!AlertTypeOK

-----------------------------------------------------------------------------
(***************************************************************************)
(* The number of elements up to each one numbers a set of places from 1.   *)
(***************************************************************************)
LEMMA SameRank == \A i, places : Dashboards!Rank(i, places) = Cardinality({j \in places : j <= i})
BY SameCount DEF Dashboards!Rank

LEMMA PlacesFinite ==
  ASSUME NEW n \in Nat, NEW S \in SUBSET (1 .. n)
  PROVE  IsFiniteSet(S) /\ Cardinality(S) \in Nat /\ Cardinality(S) <= n
<1>1. IsFiniteSet(1 .. n) /\ Cardinality(1 .. n) = n
  BY FS_Interval
<1> QED BY <1>1, FS_Subset, FS_CardinalityType

LEMMA Ranks ==
  ASSUME NEW n \in Nat, NEW S \in SUBSET (1 .. n)
  PROVE  /\ \A i \in S : /\ Dashboards!Rank(i, S) \in 1 .. Cardinality(S)
                         /\ Dashboards!Rank(i, S) <= i
         /\ \A i, j \in S : Dashboards!Rank(i, S) = Dashboards!Rank(j, S) => i = j
         /\ \A k \in 1 .. Cardinality(S) : \E i \in S : Dashboards!Rank(i, S) = k
<1> DEFINE UpTo(i) == {j \in S : j <= i}
           rank == [i \in S |-> Cardinality(UpTo(i))]
<1>1. IsFiniteSet(S) /\ Cardinality(S) \in Nat
  BY PlacesFinite
<1>2. \A i \in S : UpTo(i) \in SUBSET S /\ UpTo(i) \in SUBSET (1 .. i) /\ i \in UpTo(i) /\ i \in Nat
  <2> SUFFICES ASSUME NEW i \in S
               PROVE  UpTo(i) \in SUBSET S /\ UpTo(i) \in SUBSET (1 .. i) /\ i \in UpTo(i) /\ i \in Nat
    OBVIOUS
  <2>1. \A j \in S : j \in Nat /\ j >= 1
    OBVIOUS
  <2>2. UpTo(i) \in SUBSET S
    OBVIOUS
  <2>3. \A j \in UpTo(i) : j \in 1 .. i
    BY <2>1
  <2>4. i \in UpTo(i) /\ i \in Nat
    BY <2>1
  <2> HIDE DEF UpTo
  <2> QED BY <2>2, <2>3, <2>4
<1>3. \A i \in S : IsFiniteSet(UpTo(i)) /\ Cardinality(UpTo(i)) \in 1 .. Cardinality(S)
                   /\ Cardinality(UpTo(i)) <= i
  <2> SUFFICES ASSUME NEW i \in S
               PROVE  IsFiniteSet(UpTo(i)) /\ Cardinality(UpTo(i)) \in 1 .. Cardinality(S)
                      /\ Cardinality(UpTo(i)) <= i
    OBVIOUS
  <2>0. UpTo(i) \in SUBSET S /\ UpTo(i) \in SUBSET (1 .. i) /\ i \in UpTo(i) /\ i \in Nat
    BY <1>2
  <2> HIDE DEF UpTo
  <2>1. IsFiniteSet(UpTo(i)) /\ Cardinality(UpTo(i)) \in Nat /\ Cardinality(UpTo(i)) <= i
    BY <2>0, PlacesFinite
  <2>2. Cardinality(UpTo(i)) <= Cardinality(S)
    BY <1>1, <2>0, FS_Subset
  <2>3. Cardinality(UpTo(i)) # 0
    BY <2>0, <2>1, FS_EmptySet
  <2> QED BY <1>1, <2>1, <2>2, <2>3
<1>4. \A i, j \in S : i < j => Cardinality(UpTo(i)) # Cardinality(UpTo(j))
  <2> SUFFICES ASSUME NEW i \in S, NEW j \in S, i < j
               PROVE  Cardinality(UpTo(i)) # Cardinality(UpTo(j))
    OBVIOUS
  <2>1. UpTo(i) \in SUBSET UpTo(j) /\ j \in UpTo(j) /\ j \notin UpTo(i)
    BY <1>2
  <2> HIDE DEF UpTo
  <2> QED BY <1>3, <2>1, FS_Subset
<1>5. rank \in Injection(S, 1 .. Cardinality(S))
  <2> HIDE DEF UpTo
  <2>1. rank \in [S -> 1 .. Cardinality(S)]
    BY <1>3
  <2>2. \A i, j \in S : rank[i] = rank[j] => i = j
    <3>1. \A i, j \in S : i \in Int /\ j \in Int /\ (i < j \/ j < i \/ i = j)
      OBVIOUS
    <3> QED BY <1>4, <3>1
  <2> HIDE DEF rank
  <2> QED BY <2>1, <2>2 DEF Injection, IsInjective
<1>6. rank \in Surjection(S, 1 .. Cardinality(S))
  <2>1. IsFiniteSet(1 .. Cardinality(S)) /\ Cardinality(1 .. Cardinality(S)) = Cardinality(S)
    BY <1>1, FS_Interval
  <2> HIDE DEF rank
  <2> QED BY <1>5, <2>1, FS_Injection
<1>7. \A i \in S : Dashboards!Rank(i, S) = rank[i]
  BY SameRank
<1>8. \A i \in S : rank[i] \in 1 .. Cardinality(S) /\ rank[i] <= i
  BY <1>3
<1>9. /\ \A i, j \in S : rank[i] = rank[j] => i = j
      /\ \A k \in 1 .. Cardinality(S) : \E i \in S : rank[i] = k
  <2> HIDE DEF rank
  <2> QED BY <1>5, <1>6 DEF Injection, IsInjective, Surjection
<1> HIDE DEF rank
<1> QED BY <1>7, <1>8, <1>9

(***************************************************************************)
(* disconnect(): who stays is listed once, in a place no later than before;*)
(* and what a broadcast reached in the list shrinks by no more than the    *)
(* dashboards removed behind its index.                                    *)
(***************************************************************************)
LEMMA RemovalList ==
  ASSUME NEW fresh, SocketsFit(connections, fresh), NEW gone
  PROVE  LET kept == Dashboards!Staying(gone)
             list == Dashboards!Without(gone)
         IN  /\ kept \in SUBSET (1 .. Len(connections))
             /\ list \in Seq(Sockets) /\ Len(list) = Cardinality(kept)
             /\ \A k \in 1 .. Len(list) :
                  \E i \in kept : Dashboards!Rank(i, kept) = k /\ list[k] = connections[i]
             /\ \A i \in kept : /\ Dashboards!Rank(i, kept) \in 1 .. Len(list)
                                /\ list[Dashboards!Rank(i, kept)] = connections[i]
<1> DEFINE kept == Dashboards!Staying(gone)
           list == Dashboards!Without(gone)
           from(k) == CHOOSE i \in kept : Dashboards!Rank(i, kept) = k
           m == Cardinality(kept)
<1>1. connections \in Seq(Sockets) /\ Len(connections) \in Nat
  BY DEF SocketsFit
<1>2. kept \in SUBSET (1 .. Len(connections))
  BY <1>1 DEF Dashboards!Staying
<1>3. list = [k \in 1 .. m |-> connections[from(k)]]
  BY SameCount DEF Dashboards!Without
<1> HIDE DEF kept, list
<1>4. m \in Nat
  BY <1>1, <1>2, PlacesFinite
<1>5. \A k \in 1 .. m : from(k) \in kept /\ Dashboards!Rank(from(k), kept) = k
  BY <1>1, <1>2, Ranks
<1>6. \A i \in kept : Dashboards!Rank(i, kept) \in 1 .. m /\ from(Dashboards!Rank(i, kept)) = i
  <2>1. \A i \in kept : Dashboards!Rank(i, kept) \in 1 .. m
    BY <1>1, <1>2, Ranks
  <2>2. \A i, j \in kept : Dashboards!Rank(i, kept) = Dashboards!Rank(j, kept) => i = j
    BY <1>1, <1>2, Ranks
  <2> HIDE DEF from, m
  <2> QED BY <1>5, <2>1, <2>2
<1> HIDE DEF from, m
<1>7. \A k \in 1 .. m : list[k] = connections[from(k)] /\ list[k] \in Sockets
  <2>1. \A k \in 1 .. m : list[k] = connections[from(k)]
    BY <1>3
  <2>2. \A k \in 1 .. m : from(k) \in 1 .. Len(connections)
    BY <1>2, <1>5
  <2> QED BY <1>1, <2>1, <2>2, SeqElements
<1>8. list \in Seq(Sockets) /\ Len(list) = m
  BY <1>3, <1>4, <1>7
<1>9. \A k \in 1 .. m : \E i \in kept : Dashboards!Rank(i, kept) = k /\ list[k] = connections[i]
  BY <1>5, <1>7
<1>10. \A i \in kept : /\ Dashboards!Rank(i, kept) \in 1 .. m
                       /\ list[Dashboards!Rank(i, kept)] = connections[i]
  BY <1>6, <1>7
<1> QED BY <1>2, <1>8, <1>9, <1>10 DEF kept, list, m

LEMMA RemovalFits ==
  ASSUME ObserversAssumption, NEW fresh, SocketsFit(connections, fresh), NEW gone
  PROVE  SocketsFit(Dashboards!Without(gone), fresh)
<1> DEFINE kept == Dashboards!Staying(gone)
           list == Dashboards!Without(gone)
<1>1. connections \in Seq(Sockets) /\ Len(connections) \in Nat
  BY DEF SocketsFit
<1>2. /\ kept \in SUBSET (1 .. Len(connections))
      /\ list \in Seq(Sockets) /\ Len(list) = Cardinality(kept)
      /\ \A k \in 1 .. Len(list) :
           \E i \in kept : Dashboards!Rank(i, kept) = k /\ list[k] = connections[i]
  BY RemovalList
<1> HIDE DEF kept, list
<1>3. Len(list) \in Nat /\ Len(list) <= Len(connections)
  BY <1>1, <1>2, PlacesFinite
<1>4. \A k, l \in 1 .. Len(list) : list[k] = list[l] => k = l
  BY <1>2 DEF SocketsFit
<1>5. \A k \in 1 .. Len(list) : list[k] \notin fresh
  BY <1>2 DEF SocketsFit
<1>6. Len(list) + Cardinality(fresh) <= Cardinality(Sockets)
  <2>1. Cardinality(fresh) \in Nat /\ Cardinality(Sockets) \in Nat
    BY FS_Subset, FS_CardinalityType DEF SocketsFit, ObserversAssumption
  <2>2. Len(connections) + Cardinality(fresh) <= Cardinality(Sockets)
    BY DEF SocketsFit
  <2> QED BY <1>1, <1>3, <2>1, <2>2
<1> QED BY <1>2, <1>4, <1>5, <1>6 DEF SocketsFit, list

LEMMA RemovalReached ==
  ASSUME NEW fresh, SocketsFit(connections, fresh), NEW gone, NEW reached, NEW p \in Nat,
         \A i \in ReachedIn(connections, reached) : i <= p
  PROVE  LET list == Dashboards!Without(gone)
             behind == {i \in DOMAIN connections : i <= p /\ connections[i] \in gone}
             now == ReachedIn(list, reached)
         IN  /\ \A k \in now : k <= p
             /\ Cardinality(ReachedIn(connections, reached)) <= Cardinality(now) + Cardinality(behind)
             /\ Cardinality(behind) \in Nat
             /\ Cardinality(behind) + Len(list) <= Len(connections)
<1> DEFINE n == Len(connections)
           kept == Dashboards!Staying(gone)
           list == Dashboards!Without(gone)
           behind == {i \in DOMAIN connections : i <= p /\ connections[i] \in gone}
           before == ReachedIn(connections, reached)
           now == ReachedIn(list, reached)
           rank == [i \in before \cap kept |-> Dashboards!Rank(i, kept)]
<1>1. connections \in Seq(Sockets) /\ n \in Nat /\ DOMAIN connections = 1 .. n
  BY DEF SocketsFit
<1>2. /\ kept \in SUBSET (1 .. n)
      /\ list \in Seq(Sockets) /\ Len(list) = Cardinality(kept)
      /\ \A k \in 1 .. Len(list) :
           \E i \in kept : Dashboards!Rank(i, kept) = k /\ list[k] = connections[i]
      /\ \A i \in kept : /\ Dashboards!Rank(i, kept) \in 1 .. Len(list)
                         /\ list[Dashboards!Rank(i, kept)] = connections[i]
  BY RemovalList
<1>3. /\ \A i \in kept : Dashboards!Rank(i, kept) <= i
      /\ \A i, j \in kept : Dashboards!Rank(i, kept) = Dashboards!Rank(j, kept) => i = j
  BY <1>1, <1>2, Ranks
<1>4. /\ behind \in SUBSET (1 .. n) /\ before \in SUBSET (1 .. n)
      /\ kept \cap behind = {} /\ before \subseteq (before \cap kept) \cup behind
  BY <1>1 DEF Dashboards!Staying, ReachedIn
<1>5. now \in SUBSET (1 .. Len(list)) /\ \A k \in now : list[k] \in reached
  BY DEF ReachedIn
<1>6. \A i \in kept : Dashboards!Rank(i, kept) \in now <=> i \in before
  BY <1>1, <1>2 DEF ReachedIn
<1> HIDE DEF kept, list, behind, before, now, n
<1>7. \A k \in now : k <= p
  <2> SUFFICES ASSUME NEW k \in now
               PROVE  k <= p
    OBVIOUS
  <2>1. PICK i \in kept : Dashboards!Rank(i, kept) = k
    BY <1>2, <1>5
  <2>2. i \in before /\ k <= i /\ i \in 1 .. n /\ k \in Int
    BY <1>2, <1>3, <1>4, <1>5, <1>6, <2>1
  <2>3. i <= p
    BY <2>2 DEF before
  <2> QED BY <1>1, <2>2, <2>3
<1>8. /\ IsFiniteSet(kept) /\ IsFiniteSet(behind) /\ IsFiniteSet(before) /\ IsFiniteSet(now)
      /\ IsFiniteSet(before \cap kept)
  <2>1. Len(list) \in Nat
    BY <1>2
  <2>2. before \cap kept \in SUBSET (1 .. n)
    BY <1>4
  <2> QED BY <1>1, <1>2, <1>4, <1>5, <2>1, <2>2, PlacesFinite
<1>9. Cardinality(before \cap kept) <= Cardinality(now)
  <2>1. rank \in [before \cap kept -> now]
    BY <1>6
  <2>2. \A i, j \in before \cap kept : rank[i] = rank[j] => i = j
    BY <1>3
  <2> HIDE DEF rank
  <2>3. rank \in Injection(before \cap kept, now)
    BY <2>1, <2>2 DEF Injection, IsInjective
  <2> QED BY <1>8, <2>3, FS_Injection
<1>10. /\ Cardinality(before) \in Nat /\ Cardinality(now) \in Nat /\ Cardinality(behind) \in Nat
       /\ Cardinality(kept) \in Nat /\ Cardinality(before \cap kept) \in Nat
  BY <1>8, FS_CardinalityType
<1>11. Cardinality(before) <= Cardinality(before \cap kept) + Cardinality(behind)
  <2>1. /\ IsFiniteSet((before \cap kept) \cup behind)
        /\ Cardinality((before \cap kept) \cup behind) =
             Cardinality(before \cap kept) + Cardinality(behind)
               - Cardinality((before \cap kept) \cap behind)
    BY <1>8, FS_Union
  <2>2. (before \cap kept) \cap behind = {}
    BY <1>4
  <2>3. Cardinality((before \cap kept) \cap behind) = 0
    BY <2>2, FS_EmptySet
  <2>4. Cardinality(before) <= Cardinality((before \cap kept) \cup behind)
    BY <1>4, <2>1, FS_Subset
  <2> QED BY <1>10, <2>1, <2>3, <2>4
<1>12. Cardinality(kept) + Cardinality(behind) <= n
  <2>1. /\ Cardinality(kept \cup behind) =
             Cardinality(kept) + Cardinality(behind) - Cardinality(kept \cap behind)
    BY <1>8, FS_Union
  <2>2. Cardinality(kept \cap behind) = 0
    BY <1>4, FS_EmptySet
  <2>3. Cardinality(kept \cup behind) <= n
    BY <1>1, <1>2, <1>4, PlacesFinite
  <2> QED BY <1>10, <2>1, <2>2, <2>3
<1>13. Cardinality(before) <= Cardinality(now) + Cardinality(behind)
  BY <1>9, <1>10, <1>11
<1>14. Cardinality(behind) + Len(list) <= n
  BY <1>1, <1>2, <1>10, <1>12
<1> QED BY <1>7, <1>10, <1>13, <1>14 DEF list, behind, before, now, n

(***************************************************************************)
(* A broadcast that starts, goes on, loses dashboards or ends.             *)
(***************************************************************************)
LEMMA SocketsFinite ==
  ASSUME ObserversAssumption, NEW fresh \in SUBSET Sockets
  PROVE  /\ Cardinality(Sockets) \in Nat /\ IsFiniteSet(fresh) /\ Cardinality(fresh) \in Nat
         /\ Dashboards!Cardinality(Sockets) = Cardinality(Sockets)
<1>1. IsFiniteSet(Sockets)
  BY DEF ObserversAssumption
<1> QED BY <1>1, FS_Subset, FS_CardinalityType, SameCount

LEMMA SendsChange ==
  ASSUME NEW places, NEW fresh, NEW all, NEW s, SendsFit(places, fresh, all), NEW x,
         x \in Dashboards!Send, SendFits(places, fresh, x),
         NEW changed, changed = [all EXCEPT ![s] = x]
  PROVE  SendsFit(places, fresh, changed)
BY DEF SendsFit

LEMMA SendsEnd ==
  ASSUME NEW places, NEW fresh, NEW all, NEW s, SendsFit(places, fresh, all),
         NEW changed, changed = [all EXCEPT ![s] = NoSend]
  PROVE  SendsFit(places, fresh, changed)
BY DEF SendsFit

LEMMA FirstSend ==
  ASSUME ObserversAssumption, BroadcastInv, connections # <<>>
  PROVE  LET x == Dashboards!SendTo(1, {}, {}, 0)
         IN  x \in Dashboards!Send /\ SendFits(connections, NewSockets, x)
<1> DEFINE w == connections[1]
           open == peer[w] = "open"
           x == [place |-> 1, to |-> w, live |-> open, dead |-> {}, reached |-> {w}, skips |-> 0]
           R == ReachedIn(connections, {w})
<1>1. /\ connections \in Seq(Sockets) /\ Len(connections) \in Nat /\ NewSockets \in SUBSET Sockets
      /\ \A i, j \in 1 .. Len(connections) : connections[i] = connections[j] => i = j
      /\ \A i \in 1 .. Len(connections) : connections[i] \notin NewSockets
      /\ Len(connections) + Cardinality(NewSockets) <= Cardinality(Sockets)
  BY DEF BroadcastInv, SocketsFit
<1>2. 1 \in 1 .. Len(connections) /\ Len(connections) >= 1
  BY <1>1
<1>3. w \in Sockets /\ w \notin NewSockets
  BY <1>1, <1>2
<1>4. R = {1}
  BY <1>1, <1>2 DEF ReachedIn
<1>5. Cardinality(R) = 1
  BY <1>4, FS_Singleton
<1>6. Dashboards!SendTo(1, {}, {}, 0) = x
  BY Zenon DEF Dashboards!SendTo
<1>7. open \in BOOLEAN
  OBVIOUS
<1> HIDE DEF w, open, R
<1>8. Cardinality(Sockets) \in Nat /\ Cardinality(NewSockets) \in Nat
      /\ Dashboards!Cardinality(Sockets) = Cardinality(Sockets)
  BY <1>1, SocketsFinite
<1>9. x \in Dashboards!Send
  BY <1>1, <1>2, <1>3, <1>7, <1>8 DEF Dashboards!Send
<1>10. x.reached = {w} /\ x.place = 1 /\ x.skips = 0
  OBVIOUS
<1> HIDE DEF x
<1>11. SendFits(connections, NewSockets, x)
  <2>1. x.reached \cap NewSockets = {}
    BY <1>3, <1>10
  <2>2. ReachedIn(connections, x.reached) = R
    BY <1>10 DEF R
  <2>3. \A i \in R : i <= 1
    BY <1>4
  <2>4. x.place <= Cardinality(R) + x.skips
    BY <1>5, <1>10
  <2>5. x.skips + Len(connections) + Cardinality(NewSockets) <= Cardinality(Sockets)
    BY <1>1, <1>8, <1>10
  <2> QED BY <1>10, <2>1, <2>2, <2>3, <2>4, <2>5 DEF SendFits
<1> QED BY <1>6, <1>9, <1>11

LEMMA NextSend ==
  ASSUME ObserversAssumption, BroadcastInv, NEW s \in Senders, sends[s] # NoSend,
         sends[s].place + 1 <= Len(connections), NEW dead \in SUBSET Sockets
  PROVE  LET x == Dashboards!SendTo(sends[s].place + 1, dead, sends[s].reached, sends[s].skips)
         IN  /\ x \in Dashboards!Send /\ SendFits(connections, NewSockets, x)
             /\ x.to \notin sends[s].reached
<1> DEFINE old == sends[s]
           p == old.place + 1
           w == connections[p]
           open == peer[w] = "open"
           reached == old.reached \cup {w}
           x == [place |-> p, to |-> w, live |-> open, dead |-> dead, reached |-> reached,
                 skips |-> old.skips]
           before == ReachedIn(connections, old.reached)
           now == ReachedIn(connections, reached)
<1>1. /\ connections \in Seq(Sockets) /\ Len(connections) \in Nat /\ NewSockets \in SUBSET Sockets
      /\ \A i, j \in 1 .. Len(connections) : connections[i] = connections[j] => i = j
      /\ \A i \in 1 .. Len(connections) : connections[i] \notin NewSockets
      /\ Len(connections) + Cardinality(NewSockets) <= Cardinality(Sockets)
  BY DEF BroadcastInv, SocketsFit
<1>2. old \in Dashboards!Send /\ SendFits(connections, NewSockets, old)
  BY DEF BroadcastInv, SendsFit
<1>3. /\ Cardinality(Sockets) \in Nat /\ Cardinality(NewSockets) \in Nat
      /\ Dashboards!Cardinality(Sockets) = Cardinality(Sockets)
  BY <1>1, SocketsFinite
<1>4. /\ old.place \in Nat /\ old.skips \in Nat /\ old.reached \in SUBSET Sockets
      /\ old.place >= 1 /\ old.skips <= Cardinality(Sockets)
  BY <1>2, <1>3 DEF Dashboards!Send
<1>5. Dashboards!SendTo(sends[s].place + 1, dead, sends[s].reached, sends[s].skips) = x
  BY Zenon DEF Dashboards!SendTo
<1>6. open \in BOOLEAN
  OBVIOUS
<1>7. p <= Len(connections)
  OBVIOUS
<1> HIDE DEF old
<1>8. p \in 1 .. Len(connections) /\ p > old.place /\ p \in Nat
  BY <1>1, <1>4, <1>7
<1> HIDE DEF p
<1>9. w \in Sockets /\ w \notin NewSockets
  BY <1>1, <1>8
<1>10. p \notin before /\ w \notin old.reached
  <2>1. p \notin before
    BY <1>2, <1>4, <1>8 DEF SendFits
  <2> QED BY <1>8, <2>1 DEF ReachedIn
<1>11. now = before \cup {p}
  BY <1>1, <1>8 DEF ReachedIn
<1>12. before \in SUBSET (1 .. Len(connections))
  BY DEF ReachedIn
<1> HIDE DEF w, open, before, now
<1>13. Cardinality(now) = Cardinality(before) + 1 /\ Cardinality(before) \in Nat
  BY <1>1, <1>10, <1>11, <1>12, PlacesFinite, FS_AddElement
<1>14. \A i \in now : i <= p
  <2>1. \A i \in before : i <= old.place /\ i \in Nat
    BY <1>2, <1>12 DEF SendFits, before
  <2> QED BY <1>4, <1>8, <1>11, <2>1
<1>15. p <= Cardinality(Sockets)
  BY <1>1, <1>3, <1>8
<1>16. x \in Dashboards!Send
  BY <1>3, <1>4, <1>6, <1>8, <1>9, <1>15 DEF Dashboards!Send
<1>17. x.reached = reached /\ x.place = p /\ x.skips = old.skips /\ x.to = w
  OBVIOUS
<1>18. p <= Cardinality(now) + old.skips
  <2>1. old.place <= Cardinality(before) + old.skips
    BY <1>2 DEF SendFits, before
  <2>2. p = old.place + 1
    BY DEF p
  <2> DEFINE b == Cardinality(before)
             a == Cardinality(now)
             i == old.place
             k == old.skips
  <2>3. a = b + 1 /\ b \in Int /\ i \in Int /\ k \in Int /\ i <= b + k /\ p = i + 1
    BY <1>4, <1>13, <2>1, <2>2
  <2>4. p <= a + k
    <3> HIDE DEF x, b, a, i, k
    <3> QED BY <2>3
  <2> QED BY <2>4
<1>19. reached \cap NewSockets = {}
  BY <1>2, <1>9 DEF SendFits
<1>20. old.skips + Len(connections) + Cardinality(NewSockets) <= Cardinality(Sockets)
  BY <1>2 DEF SendFits
<1> HIDE DEF x, reached
<1>21. SendFits(connections, NewSockets, x)
  BY <1>14, <1>17, <1>18, <1>19, <1>20 DEF SendFits, now
<1> QED BY <1>5, <1>10, <1>16, <1>17, <1>21 DEF old

LEMMA ShiftedFits ==
  ASSUME ObserversAssumption, BroadcastInv, NEW gone
  PROVE  SendsFit(Dashboards!Without(gone), NewSockets, Dashboards!Shifted(gone))
<1> DEFINE list == Dashboards!Without(gone)
           after == Dashboards!Shifted(gone)
<1>1. sends \in [Senders -> Dashboards!Send \cup {NoSend}] /\ SocketsFit(connections, NewSockets)
  BY DEF BroadcastInv, SendsFit
<1>2. SocketsFit(list, NewSockets)
  BY <1>1, RemovalFits
<1>3. Len(connections) \in Nat /\ Len(list) \in Nat /\ NewSockets \in SUBSET Sockets
  BY <1>1, <1>2 DEF SocketsFit
<1>4. /\ Cardinality(Sockets) \in Nat /\ Cardinality(NewSockets) \in Nat
      /\ Dashboards!Cardinality(Sockets) = Cardinality(Sockets)
  BY <1>3, SocketsFinite
<1>5. after = [s \in Senders |-> IF sends[s] = NoSend THEN NoSend
                 ELSE [sends[s] EXCEPT !.skips = @ + Dashboards!RemovedBefore(s, gone)]]
  BY DEF Dashboards!Shifted, Senders
<1> HIDE DEF list, after
<1>6. ASSUME NEW s \in Senders, sends[s] # NoSend
      PROVE  after[s] \in Dashboards!Send /\ SendFits(list, NewSockets, after[s])
  <2> DEFINE old == sends[s]
             before == ReachedIn(connections, old.reached)
             now == ReachedIn(list, old.reached)
             behind == {i \in DOMAIN connections : i <= old.place /\ connections[i] \in gone}
             b == Cardinality(behind)
             x == [old EXCEPT !.skips = @ + b]
  <2>1. old \in Dashboards!Send /\ SendFits(connections, NewSockets, old)
    BY <1>1, <1>6 DEF BroadcastInv, SendsFit
  <2>2. /\ old.place \in Nat /\ old.skips \in Nat /\ old.reached \in SUBSET Sockets
    BY <1>4, <2>1 DEF Dashboards!Send
  <2>3. Dashboards!RemovedBefore(s, gone) = b
    BY SameCount, Zenon DEF Dashboards!RemovedBefore
  <2>4. after[s] = x
    BY <1>5, <1>6, <2>3
  <2>5. \A i \in before : i <= old.place
    BY <2>1 DEF SendFits
  <2>6. /\ \A k \in now : k <= old.place
        /\ Cardinality(before) <= Cardinality(now) + b
        /\ b \in Nat /\ b + Len(list) <= Len(connections)
    BY <1>1, <2>2, <2>5, RemovalReached DEF list
  <2>7. /\ old.place <= Cardinality(before) + old.skips
        /\ old.skips + Len(connections) + Cardinality(NewSockets) <= Cardinality(Sockets)
        /\ old.reached \cap NewSockets = {}
    BY <2>1 DEF SendFits
  <2>8. Cardinality(before) \in Nat /\ Cardinality(now) \in Nat
    <3>1. before \in SUBSET (1 .. Len(connections)) /\ now \in SUBSET (1 .. Len(list))
      BY DEF ReachedIn
    <3> QED BY <1>3, <3>1, PlacesFinite
  <2> HIDE DEF before, now, b, behind
  <2>9. /\ x.reached = old.reached /\ x.place = old.place /\ x.skips = old.skips + b
    BY <2>1 DEF Dashboards!Send
  <2>10. /\ old.place <= Cardinality(now) + (old.skips + b)
         /\ (old.skips + b) + Len(list) + Cardinality(NewSockets) <= Cardinality(Sockets)
         /\ old.skips + b \in 0 .. Cardinality(Sockets)
    <3>1. b \in Nat /\ b + Len(list) <= Len(connections)
          /\ Cardinality(before) <= Cardinality(now) + b
      BY <2>6
    <3>2. old.place \in Nat /\ old.skips \in Nat
      BY <2>2
    <3> HIDE DEF old
    <3>3. /\ old.place <= Cardinality(before) + old.skips
          /\ old.skips + Len(connections) + Cardinality(NewSockets) <= Cardinality(Sockets)
      BY <2>7
    <3> HIDE DEF x
    <3>4. Len(list) \in Nat /\ Len(connections) \in Nat
          /\ Cardinality(NewSockets) \in Nat /\ Cardinality(Sockets) \in Nat
      BY <1>3, <1>4
    <3>5. b \in Nat /\ Cardinality(before) <= Cardinality(now) + b
      BY <3>1
    <3>6. b + Len(list) <= Len(connections)
      BY <3>1
    <3>7. old.place <= Cardinality(before) + old.skips
      BY <3>3
    <3>8. old.skips + Len(connections) + Cardinality(NewSockets) <= Cardinality(Sockets)
      BY <3>3
    <3>9. old.place <= Cardinality(now) + (old.skips + b)
      BY <2>8, <3>2, <3>5, <3>7
    <3> DEFINE m == Len(list)
               n == Len(connections)
               f == Cardinality(NewSockets)
               all == Cardinality(Sockets)
               k == old.skips
    <3>10. m \in Int /\ n \in Int /\ f \in Int /\ all \in Int /\ k \in Int /\ b \in Int
           /\ m >= 0 /\ f >= 0 /\ k >= 0 /\ b >= 0
           /\ b + m <= n /\ k + n + f <= all
      BY <3>2, <3>4, <3>5, <3>6, <3>8
    <3> HIDE DEF m, n, f, all, k
    <3>11. (k + b) + m + f <= all
      BY <3>10
    <3>12. k + b \in 0 .. all
      BY <3>10
    <3> QED BY <3>9, <3>11, <3>12 DEF m, n, f, all, k
  <2>11. x \in Dashboards!Send
    BY <1>4, <2>1, <2>10 DEF Dashboards!Send
  <2> HIDE DEF x
  <2> HIDE DEF old
  <2>12. SendFits(list, NewSockets, x)
    BY <2>6, <2>7, <2>9, <2>10 DEF SendFits, now
  <2> QED BY <2>4, <2>11, <2>12
<1>7. \A s \in Senders : after[s] # NoSend => sends[s] # NoSend
  BY <1>5
<1>8. after \in [Senders -> Dashboards!Send \cup {NoSend}]
  <2>1. \A s \in Senders : after[s] \in Dashboards!Send \cup {NoSend}
    <3>1. \A s \in Senders : sends[s] = NoSend => after[s] = NoSend
      BY <1>5
    <3> QED BY <1>6, <3>1
  <2> QED BY <1>5, <2>1
<1> QED BY <1>6, <1>7, <1>8 DEF SendsFit, list, after

(***************************************************************************)
(* What a step of the process does to the dashboards.                      *)
(***************************************************************************)
LEMMA BroadcastEffect ==
  ASSUME [Next]_vars
  PROVE  \/ UNCHANGED broadcastVars
         \/ \E s \in Senders : Dashboards!Begin(s) \/ Dashboards!Resume(s) \/ Dashboards!Cancel(s)
         \/ \E w \in Sockets : \/ Dashboards!Connect(w) \/ Dashboards!Close(w)
                               \/ Dashboards!Abort(w) \/ Dashboards!Disconnect(w)
         \/ Dashboards!LoseSockets
<1>1. Health \in Senders /\ \A r \in Requests : r \in Senders
  BY DEF Senders
<1>2. ASSUME NEW r \in Requests, Arrive(r) \/ Request(r) \/ Fail(r)
      PROVE  \/ UNCHANGED broadcastVars
             \/ \E s \in Senders : Dashboards!Begin(s) \/ Dashboards!Resume(s) \/ Dashboards!Cancel(s)
  BY <1>1, <1>2 DEF Arrive, Request, PushRow, TrimRows, ExpireRows, Stamp, EmitEvent,
       BroadcastEvent, PushEvent, TrimEvents, Publish, Fail
<1>3. CASE HealthStep
  BY <1>1, <1>3 DEF HealthStep
<1>4. CASE \E w \in Sockets : Browse(w) \/ Handle(w)
  BY <1>4 DEF Browse, Handle
<1>5. CASE Stop
  BY <1>5 DEF Stop
<1>6. CASE \/ HealthEnds \/ Retrain \/ RetrainerEnds \/ RowsExpire \/ Start \/ Tick \/ UNCHANGED vars
  BY <1>6 DEF HealthEnds, Retrain, RetrainerEnds, RowsExpire, Start, Tick, vars
<1> QED BY <1>2, <1>3, <1>4, <1>5, <1>6 DEF Next

(***************************************************************************)
(* A dashboard connects: it is in no broadcast's past.                     *)
(***************************************************************************)
LEMMA ConnectFits ==
  ASSUME ObserversAssumption, BroadcastInv, NEW w \in NewSockets
  PROVE  LET list == Append(connections, w)
             fresh == NewSockets \ {w}
         IN  SocketsFit(list, fresh) /\ SendsFit(list, fresh, sends)
<1> DEFINE list == Append(connections, w)
           fresh == NewSockets \ {w}
<1>1. /\ connections \in Seq(Sockets) /\ Len(connections) \in Nat /\ NewSockets \in SUBSET Sockets
      /\ \A i, j \in 1 .. Len(connections) : connections[i] = connections[j] => i = j
      /\ \A i \in 1 .. Len(connections) : connections[i] \notin NewSockets
      /\ Len(connections) + Cardinality(NewSockets) <= Cardinality(Sockets)
  BY DEF BroadcastInv, SocketsFit
<1>2. /\ Cardinality(Sockets) \in Nat /\ Cardinality(NewSockets) \in Nat
      /\ IsFiniteSet(NewSockets) /\ fresh \in SUBSET Sockets
  BY <1>1, SocketsFinite
<1>3. Cardinality(fresh) = Cardinality(NewSockets) - 1
  BY <1>2, FS_RemoveElement
<1>4. /\ list \in Seq(Sockets) /\ Len(list) = Len(connections) + 1
      /\ list[Len(connections) + 1] = w
      /\ \A i \in 1 .. Len(connections) : list[i] = connections[i]
  BY <1>1
<1>5. \A i \in 1 .. Len(list) : i \in 1 .. Len(connections) \/ i = Len(connections) + 1
  BY <1>1, <1>4
<1> HIDE DEF list
<1>6. \A i, j \in 1 .. Len(list) : list[i] = list[j] => i = j
  <2>1. \A i \in 1 .. Len(connections) : list[i] \notin NewSockets
    BY <1>1, <1>4
  <2> QED BY <1>1, <1>4, <1>5, <2>1
<1>7. \A i \in 1 .. Len(list) : list[i] \notin fresh
  BY <1>1, <1>4, <1>5
<1> DEFINE m == Len(list)
           n == Len(connections)
           f == Cardinality(fresh)
           g == Cardinality(NewSockets)
           all == Cardinality(Sockets)
<1>8. m = n + 1 /\ f = g - 1 /\ n \in Int /\ g \in Int /\ all \in Int /\ n + g <= all
  BY <1>1, <1>2, <1>3, <1>4
<1>9. m + f <= all
  <2> HIDE DEF m, n, f, g, all
  <2> QED BY <1>8
<1>10. SocketsFit(list, fresh)
  BY <1>2, <1>4, <1>6, <1>7, <1>9 DEF SocketsFit
<1>11. ASSUME NEW s \in Senders, sends[s] # NoSend
       PROVE  SendFits(list, fresh, sends[s])
  <2> DEFINE send == sends[s]
             k == send.skips
  <2>1. send \in Dashboards!Send /\ SendFits(connections, NewSockets, send)
    BY <1>11 DEF BroadcastInv, SendsFit
  <2>2. Dashboards!Cardinality(Sockets) = Cardinality(Sockets)
    BY SameCount
  <2>3. k \in Int
    BY <1>2, <2>1, <2>2 DEF Dashboards!Send
  <2>4. /\ send.reached \cap NewSockets = {}
        /\ \A i \in ReachedIn(connections, send.reached) : i <= send.place
        /\ send.place <= Cardinality(ReachedIn(connections, send.reached)) + k
        /\ k + n + g <= all
    BY <2>1 DEF SendFits
  <2> HIDE DEF send
  <2>5. ReachedIn(list, send.reached) = ReachedIn(connections, send.reached)
    <3>1. \A i \in 1 .. Len(connections) : i \in 1 .. Len(list)
      BY <1>1, <1>4
    <3>2. w \notin send.reached
      BY <2>4
    <3> HIDE DEF m, n, f, g, all, k
    <3> QED BY <1>4, <1>5, <3>1, <3>2 DEF ReachedIn
  <2>6. send.reached \cap fresh = {}
    BY <2>4
  <2>7. k + n + g <= all
    BY <2>4
  <2> HIDE DEF k
  <2>8. k + m + f <= all
    <3> HIDE DEF m, n, f, g, all
    <3> QED BY <1>8, <2>3, <2>7
  <2> QED BY <2>4, <2>5, <2>6, <2>8 DEF SendFits, send, k
<1>12. SendsFit(list, fresh, sends)
  BY <1>11 DEF BroadcastInv, SendsFit
<1> QED BY <1>10, <1>12 DEF list

LEMMA NoSockets ==
  ASSUME ObserversAssumption, NEW fresh \in SUBSET Sockets
  PROVE  /\ SocketsFit(<<>>, fresh)
         /\ SendsFit(<<>>, fresh, [s \in Senders |-> NoSend])
<1>1. Cardinality(fresh) \in Nat /\ Cardinality(fresh) <= Cardinality(Sockets)
  BY FS_Subset, SocketsFinite DEF ObserversAssumption
<1>2. Len(<<>>) = 0 /\ <<>> \in Seq(Sockets)
  OBVIOUS
<1>3. SocketsFit(<<>>, fresh)
  BY <1>1, <1>2 DEF SocketsFit
<1>4. SendsFit(<<>>, fresh, [s \in Senders |-> NoSend])
  BY DEF SendsFit
<1> QED BY <1>3, <1>4

(***************************************************************************)
(* A send that returns or raises: the next one, or the end.                *)
(***************************************************************************)
LEMMA ResumeCases ==
  ASSUME ObserversAssumption, BroadcastInv, NEW s \in Senders, Dashboards!Resume(s)
  PROVE  /\ peer' = peer /\ sends[s] # NoSend
         /\ \E dead \in SUBSET Sockets :
              \/ /\ sends[s].place + 1 <= Len(connections)
                 /\ sends' = [sends EXCEPT ![s] =
                      Dashboards!SendTo(sends[s].place + 1, dead, sends[s].reached, sends[s].skips)]
                 /\ connections' = connections
              \/ /\ connections' = Dashboards!Without(dead)
                 /\ sends' = [Dashboards!Shifted(dead) EXCEPT ![s] = NoSend]
<1>1. peer' = peer /\ sends[s] # NoSend
  BY DEF Dashboards!Resume
<1>2. sends[s] \in Dashboards!Send
  BY <1>1 DEF BroadcastInv, SendsFit
<1>3. sends[s].to \in Sockets /\ sends[s].dead \in SUBSET Sockets
  BY <1>2 DEF Dashboards!Send
<1>4. PICK raises \in BOOLEAN :
        LET send == sends[s]
            dead == IF raises THEN send.dead \cup {send.to} ELSE send.dead
            place == Dashboards!NextPlace(send, dead)
        IN  IF place <= Len(connections)
            THEN /\ sends' = [sends EXCEPT ![s] =
                                Dashboards!SendTo(place, dead, send.reached, send.skips)]
                 /\ UNCHANGED connections
            ELSE Dashboards!End(s, dead)
  BY Zenon DEF Dashboards!Resume
<1> DEFINE dead == IF raises THEN sends[s].dead \cup {sends[s].to} ELSE sends[s].dead
<1>5. dead \in SUBSET Sockets
  BY <1>3
<1>6. Dashboards!NextPlace(sends[s], dead) = sends[s].place + 1
  BY DEF Dashboards!NextPlace
<1>7. IF sends[s].place + 1 <= Len(connections)
      THEN /\ sends' = [sends EXCEPT ![s] =
                Dashboards!SendTo(sends[s].place + 1, dead, sends[s].reached, sends[s].skips)]
           /\ UNCHANGED connections
      ELSE Dashboards!End(s, dead)
  BY <1>4, <1>6, Zenon
<1> HIDE DEF dead
<1> QED BY <1>1, <1>5, <1>7, Zenon DEF Dashboards!End

LEMMA BroadcastStep ==
  ASSUME ObserversAssumption, BroadcastInv, [Next]_vars
  PROVE  BroadcastInv'
<1>1. /\ peer \in [Sockets -> {"new", "open", "closed", "gone"}]
      /\ SocketsFit(connections, NewSockets) /\ SendsFit(connections, NewSockets, sends)
  BY DEF BroadcastInv
<1>2. SUFFICES /\ peer' \in [Sockets -> {"new", "open", "closed", "gone"}]
               /\ SocketsFit(connections', NewSockets') /\ SendsFit(connections', NewSockets', sends')
  BY DEF BroadcastInv, SocketsFit, SendsFit, SendFits, ReachedIn, NewSockets
<1>3. CASE UNCHANGED broadcastVars
  BY <1>1, <1>3 DEF broadcastVars, NewSockets
<1>4. ASSUME NEW s \in Senders, Dashboards!Begin(s)
      PROVE  /\ peer' = peer /\ SocketsFit(connections', NewSockets)
             /\ SendsFit(connections', NewSockets, sends')
  <2>1. connections' = connections /\ peer' = peer
    BY <1>4 DEF Dashboards!Begin
  <2>2. CASE connections = <<>>
    <3>1. sends' = [sends EXCEPT ![s] = NoSend]
      BY <1>4, <2>2 DEF Dashboards!Begin
    <3>2. SendsFit(connections, NewSockets, sends')
      BY <1>1, <3>1, SendsEnd
    <3> QED BY <1>1, <2>1, <3>2
  <2>3. CASE connections # <<>>
    <3> DEFINE x == Dashboards!SendTo(1, {}, {}, 0)
    <3>1. sends' = [sends EXCEPT ![s] = x]
      BY <1>4, <2>3 DEF Dashboards!Begin
    <3>2. x \in Dashboards!Send /\ SendFits(connections, NewSockets, x)
      BY <2>3, FirstSend
    <3> HIDE DEF x
    <3>3. SendsFit(connections, NewSockets, sends')
      BY <1>1, <3>1, <3>2, SendsChange
    <3> QED BY <1>1, <2>1, <3>3
  <2> QED BY <2>2, <2>3
<1>5. ASSUME NEW s \in Senders, Dashboards!Resume(s)
      PROVE  /\ peer' = peer /\ SocketsFit(connections', NewSockets)
             /\ SendsFit(connections', NewSockets, sends')
  <2>1. peer' = peer /\ sends[s] # NoSend
    BY <1>5, ResumeCases
  <2>2. PICK dead \in SUBSET Sockets :
          \/ /\ sends[s].place + 1 <= Len(connections)
             /\ sends' = [sends EXCEPT ![s] =
                  Dashboards!SendTo(sends[s].place + 1, dead, sends[s].reached, sends[s].skips)]
             /\ connections' = connections
          \/ /\ connections' = Dashboards!Without(dead)
             /\ sends' = [Dashboards!Shifted(dead) EXCEPT ![s] = NoSend]
    BY <1>5, ResumeCases
  <2>3. CASE /\ sends[s].place + 1 <= Len(connections)
             /\ sends' = [sends EXCEPT ![s] =
                  Dashboards!SendTo(sends[s].place + 1, dead, sends[s].reached, sends[s].skips)]
             /\ connections' = connections
    <3> DEFINE x == Dashboards!SendTo(sends[s].place + 1, dead, sends[s].reached, sends[s].skips)
    <3>1. x \in Dashboards!Send /\ SendFits(connections, NewSockets, x)
      BY <2>1, <2>3, NextSend
    <3>2. sends' = [sends EXCEPT ![s] = x]
      BY <2>3
    <3> HIDE DEF x
    <3>3. SendsFit(connections, NewSockets, sends')
      BY <1>1, <3>1, <3>2, SendsChange
    <3> QED BY <1>1, <2>1, <2>3, <3>3
  <2>4. CASE /\ connections' = Dashboards!Without(dead)
             /\ sends' = [Dashboards!Shifted(dead) EXCEPT ![s] = NoSend]
    <3>1. SocketsFit(Dashboards!Without(dead), NewSockets)
      BY <1>1, RemovalFits
    <3>2. SendsFit(Dashboards!Without(dead), NewSockets, Dashboards!Shifted(dead))
      BY ShiftedFits
    <3>3. SendsFit(Dashboards!Without(dead), NewSockets, sends')
      BY <2>4, <3>2, SendsEnd
    <3> QED BY <2>1, <2>4, <3>1, <3>3
  <2> QED BY <2>2, <2>3, <2>4
<1>6. ASSUME NEW s \in Senders, Dashboards!Cancel(s)
      PROVE  /\ peer' = peer /\ SocketsFit(connections', NewSockets)
             /\ SendsFit(connections', NewSockets, sends')
  <2>1. /\ connections' = connections /\ peer' = peer
        /\ sends' = [sends EXCEPT ![s] = NoSend]
    BY <1>6 DEF Dashboards!Cancel
  <2>2. SendsFit(connections, NewSockets, sends')
    BY <1>1, <2>1, SendsEnd
  <2> QED BY <1>1, <2>1, <2>2
<1>7. CASE \E s \in Senders : Dashboards!Begin(s) \/ Dashboards!Resume(s) \/ Dashboards!Cancel(s)
  <2>1. /\ peer' = peer /\ SocketsFit(connections', NewSockets)
        /\ SendsFit(connections', NewSockets, sends')
    BY <1>4, <1>5, <1>6, <1>7
  <2>2. NewSockets' = NewSockets
    BY <2>1 DEF NewSockets
  <2> QED BY <1>1, <2>1, <2>2
<1>8. ASSUME NEW w \in Sockets, Dashboards!Connect(w)
      PROVE  /\ peer' \in [Sockets -> {"new", "open", "closed", "gone"}]
             /\ SocketsFit(connections', NewSockets') /\ SendsFit(connections', NewSockets', sends')
  <2>1. /\ peer[w] = "new" /\ connections' = Append(connections, w) /\ sends' = sends
        /\ peer' = [peer EXCEPT ![w] = "open"]
    BY <1>8 DEF Dashboards!Connect
  <2>2. w \in NewSockets
    BY <2>1 DEF NewSockets
  <2>3. NewSockets' = NewSockets \ {w}
    BY <1>1, <2>1 DEF NewSockets
  <2>4. peer' \in [Sockets -> {"new", "open", "closed", "gone"}]
    BY <1>1, <2>1
  <2> QED BY <2>1, <2>2, <2>3, <2>4, ConnectFits
<1>9. ASSUME NEW w \in Sockets, Dashboards!Close(w) \/ Dashboards!Abort(w)
      PROVE  /\ peer' \in [Sockets -> {"new", "open", "closed", "gone"}]
             /\ SocketsFit(connections', NewSockets') /\ SendsFit(connections', NewSockets', sends')
  <2>1. /\ connections' = connections /\ sends' = sends /\ peer[w] = "open"
        /\ peer' = [peer EXCEPT ![w] = "closed"] \/ peer' = [peer EXCEPT ![w] = "gone"]
    BY <1>9 DEF Dashboards!Close, Dashboards!Abort
  <2>2. NewSockets' = NewSockets
    BY <1>1, <2>1 DEF NewSockets
  <2>3. peer' \in [Sockets -> {"new", "open", "closed", "gone"}]
    BY <1>1, <2>1
  <2> QED BY <1>1, <2>1, <2>2, <2>3
<1>10. ASSUME NEW w \in Sockets, Dashboards!Disconnect(w)
       PROVE  /\ peer' \in [Sockets -> {"new", "open", "closed", "gone"}]
              /\ SocketsFit(connections', NewSockets') /\ SendsFit(connections', NewSockets', sends')
  <2>1. /\ connections' = Dashboards!Without({w}) /\ sends' = Dashboards!Shifted({w})
        /\ peer[w] = "closed" /\ peer' = [peer EXCEPT ![w] = "gone"]
    BY <1>10 DEF Dashboards!Disconnect
  <2>2. NewSockets' = NewSockets
    BY <1>1, <2>1 DEF NewSockets
  <2>3. peer' \in [Sockets -> {"new", "open", "closed", "gone"}]
    BY <1>1, <2>1
  <2>4. /\ SocketsFit(Dashboards!Without({w}), NewSockets)
        /\ SendsFit(Dashboards!Without({w}), NewSockets, Dashboards!Shifted({w}))
    BY <1>1, RemovalFits, ShiftedFits
  <2> QED BY <2>1, <2>2, <2>3, <2>4
<1>11. CASE Dashboards!LoseSockets
  <2>1. /\ connections' = <<>> /\ sends' = [s \in Senders |-> NoSend]
        /\ peer' = [w \in Sockets |-> IF peer[w] = "new" THEN "new" ELSE "gone"]
    BY <1>11 DEF Dashboards!LoseSockets, Senders
  <2>2. NewSockets' \in SUBSET Sockets
    BY DEF NewSockets
  <2> QED BY <2>1, <2>2, NoSockets
<1> QED BY <1>3, <1>7, <1>8, <1>9, <1>10, <1>11, BroadcastEffect

(***************************************************************************)
(* The invariant in the terms of Broadcaster.                              *)
(***************************************************************************)
LEMMA BroadcastFacts ==
  ASSUME ObserversAssumption, BroadcastInv
  PROVE  Dashboards!BroadcastTypeOK /\ MissedWereSkipped
<1>1. /\ peer \in [Sockets -> {"new", "open", "closed", "gone"}]
      /\ connections \in Seq(Sockets) /\ Len(connections) \in Nat
      /\ NewSockets \in SUBSET Sockets /\ DOMAIN connections = 1 .. Len(connections)
      /\ \A i, j \in 1 .. Len(connections) : connections[i] = connections[j] => i = j
      /\ sends \in [Senders -> Dashboards!Send \cup {NoSend}]
  BY DEF BroadcastInv, SocketsFit, SendsFit
<1>2. Dashboards!BroadcastTypeOK
  BY <1>1 DEF Dashboards!BroadcastTypeOK, Dashboards!IsInjective, Senders
<1>3. ASSUME NEW s \in Senders, sends[s] # NoSend
      PROVE  Dashboards!Cardinality({i \in DOMAIN connections :
               i <= sends[s].place /\ connections[i] \notin sends[s].reached}) <= sends[s].skips
  <2> DEFINE send == sends[s]
             missed == {i \in DOMAIN connections :
                          i <= sends[s].place /\ connections[i] \notin sends[s].reached}
             R == ReachedIn(connections, send.reached)
             p == send.place
             k == send.skips
  <2>1. send \in Dashboards!Send /\ SendFits(connections, NewSockets, send)
    BY <1>3 DEF BroadcastInv, SendsFit
  <2>2. p \in Nat /\ k \in Nat
    <3>1. Dashboards!Cardinality(Sockets) \in Nat
      BY SocketsFinite
    <3> QED BY <2>1, <3>1 DEF Dashboards!Send
  <2>3. (\A i \in R : i <= p) /\ p <= Cardinality(R) + k
    BY <2>1 DEF SendFits
  <2>4. R \in SUBSET (1 .. Len(connections)) /\ missed \in SUBSET (1 .. Len(connections))
    BY <1>1 DEF ReachedIn
  <2>5. R \cap missed = {}
    BY DEF ReachedIn
  <2>6. \A i \in missed : i <= p
    OBVIOUS
  <2> HIDE DEF R, missed, p, k
  <2>7. R \cup missed \in SUBSET (1 .. p)
    BY <1>1, <2>2, <2>3, <2>4, <2>6
  <2>8. IsFiniteSet(R) /\ IsFiniteSet(missed) /\ Cardinality(R) \in Nat /\ Cardinality(missed) \in Nat
    BY <1>1, <2>4, PlacesFinite
  <2>9. Cardinality(R \cup missed) <= p
    BY <2>2, <2>7, PlacesFinite
  <2>10. Cardinality(R \cup missed) = Cardinality(R) + Cardinality(missed) - Cardinality(R \cap missed)
    BY <2>8, FS_Union
  <2>11. Cardinality(R \cap missed) = 0
    BY <2>5, FS_EmptySet
  <2>12. Cardinality(missed) <= k
    BY <2>2, <2>3, <2>8, <2>9, <2>10, <2>11
  <2> QED BY <2>12, SameCount DEF missed, k
<1>4. MissedWereSkipped
  BY <1>3 DEF MissedWereSkipped, Dashboards!MissedWereSkipped, Senders
<1> QED BY <1>2, <1>4

(***************************************************************************)
(* The next dashboard a broadcast sends to is not one it reached.          *)
(***************************************************************************)
LEMMA SendsMoveOn ==
  ASSUME ObserversAssumption, BroadcastInv, [Next]_vars,
         NEW q \in Senders, sends[q] # NoSend, sends'[q] # NoSend
  PROVE  sends'[q].place = sends[q].place \/ sends'[q].to \notin sends[q].reached
<1>1. sends \in [Senders -> Dashboards!Send \cup {NoSend}] /\ sends[q] \in Dashboards!Send
  BY DEF BroadcastInv, SendsFit
<1>2. CASE UNCHANGED broadcastVars
  BY <1>2 DEF broadcastVars
<1>3. ASSUME NEW gone
      PROVE  /\ Dashboards!Shifted(gone)[q].place = sends[q].place
             /\ Dashboards!Shifted(gone) = [s \in Senders |-> Dashboards!Shifted(gone)[s]]
  <2>1. Dashboards!Shifted(gone) = [s \in Senders |-> IF sends[s] = NoSend THEN NoSend
          ELSE [sends[s] EXCEPT !.skips = @ + Dashboards!RemovedBefore(s, gone)]]
    BY DEF Dashboards!Shifted, Senders
  <2>2. Dashboards!Shifted(gone)[q] = [sends[q] EXCEPT !.skips = @ + Dashboards!RemovedBefore(q, gone)]
    BY <2>1
  <2>3. Dashboards!Shifted(gone)[q].place = sends[q].place
    BY <1>1, <2>2 DEF Dashboards!Send
  <2> QED BY <2>1, <2>3
<1>4. ASSUME NEW s \in Senders, Dashboards!Begin(s) \/ Dashboards!Cancel(s)
      PROVE  sends'[q].place = sends[q].place
  <2>1. s # q
    BY <1>1, <1>4 DEF Dashboards!Begin, Dashboards!Cancel
  <2>2. sends'[q] = sends[q]
    BY <1>1, <1>4, <2>1 DEF Dashboards!Begin, Dashboards!Cancel
  <2> QED BY <2>2
<1>5. ASSUME NEW s \in Senders, Dashboards!Resume(s)
      PROVE  sends'[q].place = sends[q].place \/ sends'[q].to \notin sends[q].reached
  <2>1. sends[s] # NoSend
    BY <1>5, ResumeCases
  <2>2. PICK dead \in SUBSET Sockets :
          \/ /\ sends[s].place + 1 <= Len(connections)
             /\ sends' = [sends EXCEPT ![s] =
                  Dashboards!SendTo(sends[s].place + 1, dead, sends[s].reached, sends[s].skips)]
             /\ connections' = connections
          \/ /\ connections' = Dashboards!Without(dead)
             /\ sends' = [Dashboards!Shifted(dead) EXCEPT ![s] = NoSend]
    BY <1>5, ResumeCases
  <2>3. CASE /\ sends[s].place + 1 <= Len(connections)
             /\ sends' = [sends EXCEPT ![s] =
                  Dashboards!SendTo(sends[s].place + 1, dead, sends[s].reached, sends[s].skips)]
    <3> DEFINE x == Dashboards!SendTo(sends[s].place + 1, dead, sends[s].reached, sends[s].skips)
    <3>1. x.to \notin sends[s].reached
      BY <2>1, <2>3, NextSend
    <3>2. sends' = [sends EXCEPT ![s] = x]
      BY <2>3
    <3> HIDE DEF x
    <3>3. CASE q = s
      BY <1>1, <3>1, <3>2, <3>3
    <3>4. CASE q # s
      BY <1>1, <3>2, <3>4
    <3> QED BY <3>3, <3>4
  <2>4. CASE sends' = [Dashboards!Shifted(dead) EXCEPT ![s] = NoSend]
    <3>1. q # s
      BY <1>3, <2>4
    <3>2. sends'[q] = Dashboards!Shifted(dead)[q]
      BY <2>4, <3>1
    <3> QED BY <1>3, <3>2
  <2> QED BY <2>2, <2>3, <2>4
<1>6. ASSUME NEW w \in Sockets,
             \/ Dashboards!Connect(w) \/ Dashboards!Close(w) \/ Dashboards!Abort(w)
             \/ Dashboards!Disconnect(w)
      PROVE  sends'[q].place = sends[q].place
  BY <1>3, <1>6 DEF Dashboards!Connect, Dashboards!Close, Dashboards!Abort, Dashboards!Disconnect
<1>7. CASE Dashboards!LoseSockets
  BY <1>7 DEF Dashboards!LoseSockets, Senders
<1> QED BY <1>2, <1>4, <1>5, <1>6, <1>7, BroadcastEffect

(***************************************************************************)
(* A request is in a broadcast only at that await.                         *)
(***************************************************************************)
LEMMA NotSending ==
  ASSUME ObserversAssumption, BroadcastInv, NEW q \in Senders, sends[q] = NoSend
  PROVE  /\ \A s \in Senders \ {q} :
              Dashboards!Begin(s) \/ Dashboards!Resume(s) \/ Dashboards!Cancel(s) => sends'[q] = NoSend
         /\ \A w \in Sockets :
              (\/ Dashboards!Connect(w) \/ Dashboards!Close(w) \/ Dashboards!Abort(w)
               \/ Dashboards!Disconnect(w)) => sends'[q] = NoSend
<1>1. sends \in [Senders -> Dashboards!Send \cup {NoSend}]
  BY DEF BroadcastInv, SendsFit
<1>2. ASSUME NEW gone
      PROVE  /\ Dashboards!Shifted(gone)[q] = NoSend
             /\ Dashboards!Shifted(gone) = [s \in Senders |-> Dashboards!Shifted(gone)[s]]
  <2>1. Dashboards!Shifted(gone) = [s \in Senders |-> IF sends[s] = NoSend THEN NoSend
          ELSE [sends[s] EXCEPT !.skips = @ + Dashboards!RemovedBefore(s, gone)]]
    BY DEF Dashboards!Shifted, Senders
  <2> QED BY <2>1
<1>3. ASSUME NEW s \in Senders \ {q}, Dashboards!Begin(s) \/ Dashboards!Cancel(s)
      PROVE  sends'[q] = NoSend
  BY <1>1, <1>3 DEF Dashboards!Begin, Dashboards!Cancel
<1>4. ASSUME NEW s \in Senders \ {q}, Dashboards!Resume(s)
      PROVE  sends'[q] = NoSend
  <2>1. \E dead \in SUBSET Sockets :
          \/ \E x : sends' = [sends EXCEPT ![s] = x]
          \/ sends' = [Dashboards!Shifted(dead) EXCEPT ![s] = NoSend]
    BY <1>4, ResumeCases
  <2>2. CASE \E x : sends' = [sends EXCEPT ![s] = x]
    BY <1>1, <2>2
  <2>3. CASE \E dead \in SUBSET Sockets : sends' = [Dashboards!Shifted(dead) EXCEPT ![s] = NoSend]
    BY <1>2, <2>3
  <2> QED BY <2>1, <2>2, <2>3
<1>5. ASSUME NEW w \in Sockets,
             \/ Dashboards!Connect(w) \/ Dashboards!Close(w) \/ Dashboards!Abort(w)
             \/ Dashboards!Disconnect(w)
      PROVE  sends'[q] = NoSend
  BY <1>2, <1>5 DEF Dashboards!Connect, Dashboards!Close, Dashboards!Abort, Dashboards!Disconnect
<1> QED BY <1>3, <1>4, <1>5

LEMMA SendsInBroadcastStep ==
  ASSUME ObserversAssumption, RequestTypes, BroadcastInv, SendsInBroadcast, [Next]_vars
  PROVE  SendsInBroadcast'
<1>1. /\ pc \in [Requests -> {"start"} \cup Awaiting \cup Ended]
      /\ sends \in [Senders -> Dashboards!Send \cup {NoSend}] /\ Health \notin Requests
      /\ \A r \in Requests : r \in Senders
      /\ Health \in Senders
  BY DEF RequestTypes, BroadcastInv, SendsFit, ObserversAssumption, Senders
<1> SUFFICES ASSUME NEW q \in Requests, sends'[q] # NoSend
             PROVE  pc'[q] = "broadcast"
  BY DEF SendsInBroadcast
<1>2. pc[q] # "broadcast" => sends[q] = NoSend
  BY DEF SendsInBroadcast
<1>3. ASSUME NEW r \in Requests, Arrive(r) \/ Request(r) \/ Fail(r)
      PROVE  pc'[q] = "broadcast"
  <2>1. CASE EmitEvent(r)
    <3>1. Dashboards!Begin(r) /\ pc[r] = "emit"
          /\ pc' = [pc EXCEPT ![r] = IF connections = <<>> THEN "push_event" ELSE "broadcast"]
      BY <2>1 DEF EmitEvent, Goto
    <3>2. CASE q = r
      <4>1. connections # <<>>
        BY <1>1, <3>1, <3>2 DEF Dashboards!Begin
      <4> QED BY <1>1, <3>1, <3>2, <4>1
    <3>3. CASE q # r
      <4>1. sends[q] # NoSend
        BY <1>1, <3>1, <3>3, NotSending
      <4> QED BY <1>1, <1>2, <3>1, <3>3, <4>1
    <3> QED BY <3>2, <3>3
  <2>2. CASE BroadcastEvent(r)
    <3>1. /\ Dashboards!Resume(r) /\ pc[r] = "broadcast"
          /\ IF sends'[r] = NoSend THEN pc' = [pc EXCEPT ![r] = "push_event"] ELSE pc' = pc
      BY <2>2 DEF BroadcastEvent, Goto
    <3>2. CASE q = r
      BY <3>1, <3>2
    <3>3. CASE q # r
      <4>1. sends[q] # NoSend
        BY <1>1, <3>1, <3>3, NotSending
      <4> QED BY <1>1, <1>2, <3>1, <3>3, <4>1
    <3> QED BY <3>2, <3>3
  <2>3. CASE Fail(r)
    <3>1. Dashboards!Cancel(r) /\ pc' = [pc EXCEPT ![r] = "failed"]
      BY <2>3 DEF Fail, Goto
    <3>2. q # r
      BY <1>1, <3>1 DEF Dashboards!Cancel
    <3>3. sends[q] # NoSend
      BY <1>1, <3>1, <3>2, NotSending
    <3> QED BY <1>1, <1>2, <3>1, <3>2, <3>3
  <2>4. CASE \/ Arrive(r) \/ PushRow(r) \/ TrimRows(r) \/ ExpireRows(r) \/ Stamp(r)
             \/ PushEvent(r) \/ TrimEvents(r) \/ Publish(r)
    <3>1. sends' = sends /\ pc[r] # "broadcast" /\ \E next : pc' = [pc EXCEPT ![r] = next]
      BY <2>4 DEF Arrive, PushRow, TrimRows, ExpireRows, Stamp, PushEvent, TrimEvents, Publish,
           Answer, Goto, broadcastVars
    <3> QED BY <1>1, <1>2, <3>1
  <2> QED BY <1>3, <2>1, <2>2, <2>3, <2>4 DEF Request
<1>4. CASE HealthStep
  <2>1. /\ pc' = pc
        /\ UNCHANGED broadcastVars \/ Dashboards!Begin(Health) \/ Dashboards!Resume(Health)
    BY <1>4 DEF HealthStep, requestVars
  <2>2. q # Health
    BY <1>1
  <2>3. sends[q] # NoSend
    BY <1>1, <2>1, <2>2, NotSending DEF broadcastVars
  <2> QED BY <1>2, <2>1, <2>3
<1>5. CASE \E w \in Sockets : Browse(w) \/ Handle(w)
  <2>1. /\ pc' = pc
        /\ \E w \in Sockets : \/ Dashboards!Connect(w) \/ Dashboards!Close(w)
                              \/ Dashboards!Abort(w) \/ Dashboards!Disconnect(w)
    BY <1>5 DEF Browse, Handle, requestVars
  <2>2. sends[q] # NoSend
    BY <1>1, <2>1, NotSending
  <2> QED BY <1>2, <2>1, <2>2
<1>6. CASE Stop
  <2>1. sends'[q] = NoSend
    BY <1>1, <1>6 DEF Stop, Dashboards!LoseSockets, Senders
  <2> QED BY <2>1
<1>7. CASE \/ HealthEnds \/ Retrain \/ RetrainerEnds \/ RowsExpire \/ Start \/ Tick \/ UNCHANGED vars
  <2>1. pc' = pc /\ sends' = sends
    BY <1>7 DEF HealthEnds, Retrain, RetrainerEnds, RowsExpire, Start, Tick, vars,
         broadcastVars, requestVars
  <2> QED BY <1>2, <2>1
<1> QED BY <1>3, <1>4, <1>5, <1>6, <1>7 DEF Next

(***************************************************************************)
(* The initial states.                                                     *)
(***************************************************************************)
ObserversInv ==
  RequestTypes /\ RowsInv /\ LogInv /\ AlertInv /\ BroadcastInv /\ SendsInBroadcast

LEMMA ObserversInit ==
  ASSUME ObserversAssumption, Init
  PROVE  ObserversInv
<1>1. /\ scene \in Scenes /\ clock = 0 /\ scene.horizon \in Nat
      /\ pc = [r \in Requests |-> "start"] /\ verdict = [r \in Requests |-> "none"]
      /\ stamp = [r \in Requests |-> -1] /\ health = "down"
  BY DEF Init, ObserversAssumption
<1>2. trainer = [at |-> "down", todo |-> {}, got |-> 0]
  BY DEF Init, AI!RetrainerInit, AI!Down, AI!Sleep
<1>3. RequestTypes
  BY <1>1, <1>2 DEF RequestTypes
<1>4. RowsInv
  <2>1. /\ rows = [n \in Names |-> 0] /\ mortal = {}
        /\ untrimmedRows = [n \in Names |-> 0] /\ unexpired = [n \in Names |-> 0]
        /\ known = {} /\ trained = FALSE /\ file = "none"
    BY DEF Init, AI!RetrainerInit, Names
  <2>2. StoreTypes
    BY <2>1 DEF StoreTypes
  <2>3. TrainerTypes
    BY <1>2, <2>1 DEF TrainerTypes
  <2>4. RowsKept \in Nat
    BY DEF ObserversAssumption
  <2>5. RowsAreKeptShort
    BY <2>1, <2>4 DEF RowsAreKeptShort, AI!RowsAreKeptShort, Names
  <2> QED BY <2>2, <2>3, <2>5 DEF RowsInv
<1>5. LogInv
  <2>1. log = <<>> /\ pushed = <<>> /\ untrimmed = 0 /\ \A r \in Requests : pc[r] = "start"
    BY <1>1 DEF Init, Reports!LogInit
  <2>2. LogTypes
    BY <2>1 DEF LogTypes
  <2>3. LogIsRecent
    BY <2>1 DEF LogIsRecent
  <2>4. PushedInTime
    BY <2>1 DEF PushedInTime
  <2> QED BY <2>2, <2>3, <2>4 DEF LogInv
<1>6. AlertInv
  <2>1. recent = <<>> /\ recorded = <<>> /\ alerts = <<>> /\ lastAlert = -Cooldown
    BY DEF Init, Alert!AlertInit
  <2>2. clock \in Nat
    BY <1>1
  <2> QED BY <2>1, <2>2, NoBlocks
<1>7. BroadcastInv /\ SendsInBroadcast
  <2>1. /\ connections = <<>> /\ peer = [w \in Sockets |-> "new"]
        /\ sends = [s \in Senders |-> NoSend]
    BY DEF Init, Dashboards!BroadcastInit, Senders
  <2>2. NewSockets \in SUBSET Sockets
    BY DEF NewSockets
  <2>3. SocketsFit(connections, NewSockets) /\ SendsFit(connections, NewSockets, sends)
    BY <2>1, <2>2, NoSockets
  <2>4. peer \in [Sockets -> {"new", "open", "closed", "gone"}]
    BY <2>1
  <2>5. SendsInBroadcast
    BY <2>1 DEF SendsInBroadcast, Senders
  <2> QED BY <2>3, <2>4, <2>5 DEF BroadcastInv
<1> QED BY <1>3, <1>4, <1>5, <1>6, <1>7 DEF ObserversInv

(***************************************************************************)
(* Each part of the invariant is inductive beside the others.              *)
(***************************************************************************)
LEMMA Observed == Spec => []ObserversInv
<1>1. Init => ObserversInv
  BY ObserversAssumption, ObserversInit
<1>2. ObserversInv /\ [Next]_vars => ObserversInv'
  <2> SUFFICES ASSUME ObserversInv, [Next]_vars
               PROVE  ObserversInv'
    OBVIOUS
  <2>1. RequestTypes /\ RowsInv /\ LogInv /\ AlertInv /\ BroadcastInv /\ SendsInBroadcast
    BY DEF ObserversInv
  <2>2. RequestTypes'
    BY <2>1, ObserversAssumption, RequestStep
  <2>3. RowsInv'
    BY <2>1, ObserversAssumption, RowsStep
  <2>4. LogInv'
    BY <2>1, ObserversAssumption, LogStep
  <2>5. AlertInv'
    BY <2>1, ObserversAssumption, AlertStep
  <2>6. BroadcastInv'
    BY <2>1, ObserversAssumption, BroadcastStep
  <2>7. SendsInBroadcast'
    BY <2>1, ObserversAssumption, SendsInBroadcastStep
  <2> QED BY <2>2, <2>3, <2>4, <2>5, <2>6, <2>7 DEF ObserversInv
<1> QED BY <1>1, <1>2, PTL DEF Spec

(***************************************************************************)
(* Type correctness of the process and of the four it writes to; the last  *)
(* blocks kept are the end of those recorded.                              *)
(***************************************************************************)
THEOREM TypeCorrect == Spec => []TypeOK
<1>1. ObserversInv => TypeOK
  <2> SUFFICES ASSUME ObserversInv
               PROVE  TypeOK
    OBVIOUS
  <2>1. RequestTypes /\ RowsInv /\ LogInv /\ AlertInv /\ BroadcastInv /\ SendsInBroadcast
    BY DEF ObserversInv
  <2>2. Dashboards!BroadcastTypeOK /\ Alert!AlertTypeOK
    BY <2>1, ObserversAssumption, BroadcastFacts, AlertFacts
  <2>3. AI!RetrainerTypeOK
    BY <2>1 DEF RowsInv, StoreTypes, TrainerTypes, AI!RetrainerTypeOK, Names
  <2>4. /\ pushed \in Seq(Requests) /\ log \in Seq(Requests) /\ untrimmed \in Nat
        /\ \A i, j \in DOMAIN pushed : pushed[i] = pushed[j] => i = j
    BY <2>1 DEF LogInv, LogTypes
  <2> QED BY <2>1, <2>2, <2>3, <2>4 DEF TypeOK, RequestTypes, SendsInBroadcast, IsInjective
<1> QED BY <1>1, Observed, PTL

(***************************************************************************)
(* A client's rows in Redis are at most the rows kept and those whose LTRIM *)
(* did not run yet or never ran; a list without a TTL is one whose EXPIRE  *)
(* did not (feature_store.py).                                             *)
(***************************************************************************)
THEOREM RowsBounded == Spec => []RowsAreKeptShort
<1>1. ObserversInv => RowsAreKeptShort
  BY DEF ObserversInv, RowsInv
<1> QED BY <1>1, Observed, PTL

(***************************************************************************)
(* Attacks are reported, and only attacks, at most once a cooldown, with   *)
(* any other blocks in between (alerting.py).                              *)
(***************************************************************************)
THEOREM AttacksAreReported == Spec => []AlertsMatchAttacks
<1>1. ObserversInv => AlertsMatchAttacks
  BY ObserversAssumption, AlertFacts DEF ObserversInv
<1> QED BY <1>1, Observed, PTL

(***************************************************************************)
(* A summary counts every answered request of its period, once, or the log *)
(* was full (reports.py, proxy.py).                                        *)
(***************************************************************************)
THEOREM SummariesCorrect == Spec => []SummariesAreComplete
<1>1. ObserversInv => SummariesAreComplete
  BY ObserversAssumption, CompleteSummaries DEF ObserversInv
<1> QED BY <1>1, Observed, PTL

(***************************************************************************)
(* A broadcast passes over a connected dashboard only if another one was   *)
(* removed behind its index, one for each (broadcaster.py).                *)
(***************************************************************************)
THEOREM OnlySkippedAreMissed == Spec => []MissedWereSkipped
<1>1. ObserversInv => MissedWereSkipped
  BY ObserversAssumption, BroadcastFacts DEF ObserversInv
<1> QED BY <1>1, Observed, PTL

(***************************************************************************)
(* No dashboard gets an event twice, whatever connects or leaves while it  *)
(* is sent (broadcaster.py).                                               *)
(***************************************************************************)
THEOREM BroadcastsSendOnce == Spec => SentOnce
<1> DEFINE MovesOn == \A s \in Senders :
                        (sends[s] # NoSend /\ sends'[s] # NoSend) =>
                           \/ sends'[s].place = sends[s].place
                           \/ sends'[s].to \notin sends[s].reached
<1>1. ObserversInv /\ [Next]_vars => [MovesOn]_sends
  BY ObserversAssumption, SendsMoveOn DEF ObserversInv
<1>2. SentOnce <=> [][MovesOn]_sends
  BY PTL DEF SentOnce, Dashboards!SentOnce, Senders
<1> HIDE DEF MovesOn
<1> QED BY <1>1, <1>2, Observed, PTL DEF Spec
=============================================================================
