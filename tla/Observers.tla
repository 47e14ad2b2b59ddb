------------------------------ MODULE Observers ------------------------------
(***************************************************************************)
(* What a process of the gateway tells about its requests: the end of      *)
(* GatewayProxy.handle_request (_reject and _emit_event of app/proxy.py),  *)
(* composed with the dashboards, the alerts, the feature lists and the     *)
(* report log it writes to, and with the background tasks of app/main.py,  *)
(* the health loop and the retrainer.                                      *)
(*                                                                         *)
(* All of them are coroutines of one event loop, interleaved at the        *)
(* awaits.  The process may end at any time and start again; Redis stays.  *)
(***************************************************************************)
EXTENDS Integers, SequencesExt

CONSTANTS
  Requests,   \* requests, each handled once
  AddressOf,  \* the client's address of each request
  IdOf,       \* its X-Client-Id, or the address
  Sockets,    \* connections of dashboards
  Scenes,     \* what happens in a behaviour: see Init
  Health,     \* the health loop as a sender of events
  NoSend, Limit, AlertWindow, Threshold, Cooldown,
  RowsKept, MinClients, MaxClients, ReadLimit, MinRows

VARIABLES
  scene,    \* the element of Scenes that takes place
  clock,
  connections, peer, sends,                             \* Broadcaster
  recent, lastAlert, recorded, alerts,                  \* Alerting
  rows, mortal, untrimmedRows, unexpired,               \* the feature lists
  known, trainer, trained, file,                        \* the retrainer
  log, pushed, untrimmed,                               \* the report log
  pc,       \* the await each request is at, or how it ended
  verdict,  \* "allowed", "blocked", or "none" before the event
  stamp,    \* the timestamp of each request's event
  health    \* the await the health loop is at

broadcastVars == <<connections, peer, sends>>
alertVars == <<recent, lastAlert, recorded, alerts>>
storeVars == <<rows, mortal, untrimmedRows, unexpired>>
trainerVars == <<known, trainer, trained, file>>
logVars == <<log, pushed, untrimmed>>
requestVars == <<pc, verdict, stamp>>
vars == <<scene, clock, broadcastVars, alertVars, storeVars, trainerVars, logVars,
          requestVars, health>>

Dashboards == INSTANCE Broadcaster WITH Senders <- Requests \cup {Health}
Alert == INSTANCE Alerting
AI == INSTANCE Retrainer WITH Names <- {AddressOf[r] : r \in Requests} \cup {IdOf[r] : r \in Requests},
                              untrimmed <- untrimmedRows
Reports == INSTANCE BoundedLog

ASSUME ObserversAssumption ==
  /\ Health \notin Requests
  /\ NoSend \notin Dashboards!Send
  /\ {Limit, RowsKept, MinClients, MaxClients, ReadLimit, MinRows} \subseteq Nat \ {0}
  /\ {AlertWindow, Threshold, Cooldown} \subseteq Nat \ {0}
  /\ IsFiniteSet(Sockets)
  /\ \A s \in Scenes : s.horizon \in Nat /\ s.ends \subseteq {"rejected", "bad_gateway", "allowed", "blocked"}

Ended == {"answered", "bad_gateway", "failed"}
Awaiting == {"push_row", "trim_rows", "expire_rows", "stamp", "emit", "broadcast",
             "push_event", "trim_events", "publish"}

TypeOK ==
  /\ Dashboards!BroadcastTypeOK /\ Alert!AlertTypeOK /\ AI!RetrainerTypeOK
  /\ scene \in Scenes /\ clock \in 0 .. scene.horizon
  /\ pushed \in Seq(Requests) /\ IsInjective(pushed)
  /\ log \in Seq(Requests) /\ untrimmed \in Nat
  /\ pc \in [Requests -> {"start"} \cup Awaiting \cup Ended]
  /\ verdict \in [Requests -> {"none", "allowed", "blocked"}]
  /\ stamp \in [Requests -> -1 .. clock]
  /\ health \in {"list", "broadcast", "sleep", "ended", "down"}
  /\ health = "down" <=> trainer.at = "down"
  /\ \A r \in Requests : sends[r] # NoSend => pc[r] = "broadcast"

(***************************************************************************)
(* A scene bounds a behaviour: the requests that arrive, how many of them  *)
(* at once, how they may end, the dashboards that connect, how far the     *)
(* clock goes, and who fails.  Streaming to Kafka is a setting.            *)
(***************************************************************************)
Init ==
  /\ scene \in Scenes
  /\ clock = 0
  /\ Dashboards!BroadcastInit /\ Alert!AlertInit /\ AI!RetrainerInit /\ Reports!LogInit
  /\ pc = [r \in Requests |-> "start"]
  /\ verdict = [r \in Requests |-> "none"]
  /\ stamp = [r \in Requests |-> -1]
  /\ health = "down"

Up == health # "down"
Goto(r, next) == pc' = [pc EXCEPT ![r] = next]

(***************************************************************************)
(* handle_request: the address is known to the retrainer from now on, and  *)
(* the request is rejected by an early layer, or scored.                   *)
(***************************************************************************)
Arrive(r) ==
  /\ Up /\ pc[r] = "start" /\ r \in scene.requests
  /\ Cardinality({q \in Requests : pc[q] \in Awaiting}) < scene.atOnce
  /\ AI!TrackClient(AddressOf[r])
  /\ \/ /\ "rejected" \in scene.ends
        /\ Goto(r, "stamp") /\ verdict' = [verdict EXCEPT ![r] = "blocked"]
     \/ /\ scene.ends # {"rejected"}
        /\ Goto(r, "push_row") /\ UNCHANGED verdict
  /\ UNCHANGED <<scene, clock, broadcastVars, alertVars, storeVars, logVars, stamp, health>>

(***************************************************************************)
(* feature_store.append, under the client's id, and then the anomaly's     *)
(* rejection or the upstream server's answer or error.                     *)
(***************************************************************************)
PushRow(r) ==
  /\ pc[r] = "push_row"
  /\ AI!PushRow(IdOf[r])
  /\ Goto(r, "trim_rows")
  /\ UNCHANGED <<scene, clock, broadcastVars, alertVars, trainerVars, logVars, verdict, stamp, health>>

TrimRows(r) ==
  /\ pc[r] = "trim_rows"
  /\ AI!TrimRows(IdOf[r])
  /\ Goto(r, "expire_rows")
  /\ UNCHANGED <<scene, clock, broadcastVars, alertVars, trainerVars, logVars, verdict, stamp, health>>

ExpireRows(r) ==
  /\ pc[r] = "expire_rows"
  /\ AI!ExpireRows(IdOf[r])
  /\ \/ /\ "bad_gateway" \in scene.ends
        /\ Goto(r, "bad_gateway") /\ UNCHANGED verdict
     \/ /\ Goto(r, "stamp")
        /\ \E v \in scene.ends \ {"rejected", "bad_gateway"} : verdict' = [verdict EXCEPT ![r] = v]
  /\ UNCHANGED <<scene, clock, broadcastVars, alertVars, trainerVars, logVars, stamp, health>>

(***************************************************************************)
(* _emit_event: its timestamp; current_rate; and the broadcast, which      *)
(* returns at once when there are no dashboards.                           *)
(***************************************************************************)
Stamp(r) ==
  /\ pc[r] = "stamp"
  /\ stamp' = [stamp EXCEPT ![r] = clock]
  /\ Goto(r, "emit")
  /\ UNCHANGED <<scene, clock, broadcastVars, alertVars, storeVars, trainerVars, logVars, verdict, health>>

EmitEvent(r) ==
  /\ pc[r] = "emit"
  /\ Dashboards!Begin(r)
  /\ Goto(r, IF connections = <<>> THEN "push_event" ELSE "broadcast")
  /\ UNCHANGED <<scene, clock, alertVars, storeVars, trainerVars, logVars, verdict, stamp, health>>

BroadcastEvent(r) ==
  /\ pc[r] = "broadcast"
  /\ Dashboards!Resume(r)
  /\ IF sends'[r] = NoSend THEN Goto(r, "push_event") ELSE UNCHANGED pc
  /\ UNCHANGED <<scene, clock, alertVars, storeVars, trainerVars, logVars, verdict, stamp, health>>

(***************************************************************************)
(* record_event; the end of _emit_event without Kafka, or its publish;     *)
(* then record_block in _reject, and the answer.                           *)
(***************************************************************************)
PushEventRetried(r) ==
  /\ pc[r] = "push_event"
  /\ Reports!Lpush(r)
  /\ Goto(r, "trim_events") \/ UNCHANGED pc
  /\ UNCHANGED <<scene, clock, broadcastVars, alertVars, storeVars, trainerVars, verdict, stamp, health>>

PushEvent(r) ==
  /\ pc[r] = "push_event"
  /\ Reports!Lpush(r)
  /\ Goto(r, "trim_events")
  /\ UNCHANGED <<scene, clock, broadcastVars, alertVars, storeVars, trainerVars, verdict, stamp, health>>

Answer(r) ==
  /\ Goto(r, "answered")
  /\ IF verdict[r] = "blocked" THEN Alert!RecordBlock ELSE UNCHANGED alertVars

TrimEvents(r) ==
  /\ pc[r] = "trim_events"
  /\ Reports!Ltrim
  /\ IF scene.kafka THEN Goto(r, "publish") /\ UNCHANGED alertVars ELSE Answer(r)
  /\ UNCHANGED <<scene, clock, broadcastVars, storeVars, trainerVars, verdict, stamp, health>>

Publish(r) ==
  /\ pc[r] = "publish"
  /\ Answer(r)
  /\ UNCHANGED <<scene, clock, broadcastVars, storeVars, trainerVars, logVars, verdict, stamp, health>>

(***************************************************************************)
(* An await of a request raises, or the request is cancelled: Redis may or *)
(* may not have run the command.                                           *)
(***************************************************************************)
Fail(r) ==
  /\ "request" \in scene.failing /\ pc[r] \in Awaiting
  /\ Goto(r, "failed")
  /\ Dashboards!Cancel(r)
  /\ \/ UNCHANGED storeVars
     \/ pc[r] = "push_row" /\ AI!PushRow(IdOf[r])
     \/ pc[r] = "trim_rows" /\ AI!TrimRows(IdOf[r])
     \/ pc[r] = "expire_rows" /\ AI!ExpireRows(IdOf[r])
  /\ \/ UNCHANGED logVars
     \/ pc[r] = "push_event" /\ Reports!Lpush(r)
     \/ pc[r] = "trim_events" /\ Reports!Ltrim
  /\ UNCHANGED <<scene, clock, alertVars, trainerVars, verdict, stamp, health>>

Request(r) ==
  \/ PushRow(r) \/ TrimRows(r) \/ ExpireRows(r) \/ Stamp(r) \/ EmitEvent(r) \/ BroadcastEvent(r)
  \/ PushEvent(r) \/ TrimEvents(r) \/ Publish(r)

(***************************************************************************)
(* _health_loop: list_active, the broadcast, the sleep.  An error of Redis *)
(* ends it for good.                                                       *)
(***************************************************************************)
HealthStep ==
  /\ \/ /\ health = "list"
        /\ Dashboards!Begin(Health)
        /\ health' = IF connections = <<>> THEN "sleep" ELSE "broadcast"
     \/ /\ health = "broadcast"
        /\ Dashboards!Resume(Health)
        /\ health' = IF sends'[Health] = NoSend THEN "sleep" ELSE "broadcast"
     \/ /\ health = "sleep"
        /\ health' = "list"
        /\ UNCHANGED broadcastVars
  /\ UNCHANGED <<scene, clock, alertVars, storeVars, trainerVars, logVars, requestVars>>

HealthEnds ==
  /\ "health" \in scene.failing /\ health = "list"
  /\ health' = "ended"
  /\ UNCHANGED <<scene, clock, broadcastVars, alertVars, storeVars, trainerVars, logVars, requestVars>>

(***************************************************************************)
(* The dashboards' endpoint, the retrainer and Redis's expiry.             *)
(***************************************************************************)
Handle(w) ==
  /\ Dashboards!Disconnect(w)
  /\ UNCHANGED <<scene, clock, alertVars, storeVars, trainerVars, logVars, requestVars, health>>

Browse(w) ==
  /\ Up /\ w \in scene.sockets
  /\ Dashboards!Connect(w) \/ Dashboards!Close(w) \/ Dashboards!Abort(w)
  /\ UNCHANGED <<scene, clock, alertVars, storeVars, trainerVars, logVars, requestVars, health>>

Retrain ==
  /\ AI!BeginCycle \/ AI!ReadRows
  /\ UNCHANGED <<scene, clock, broadcastVars, alertVars, storeVars, logVars, requestVars, health>>

RetrainerEnds ==
  /\ "retrainer" \in scene.failing /\ AI!EndTrainer
  /\ UNCHANGED <<scene, clock, broadcastVars, alertVars, storeVars, logVars, requestVars, health>>

RowsExpire ==
  /\ \E r \in Requests : AI!RowsExpire(IdOf[r])
  /\ UNCHANGED <<scene, clock, broadcastVars, alertVars, trainerVars, logVars, requestVars, health>>

(***************************************************************************)
(* The process ends with everything in its memory, and starts again:       *)
(* startup_event creates the tasks.                                        *)
(***************************************************************************)
Stop ==
  /\ "process" \in scene.failing /\ Up
  /\ Dashboards!LoseSockets /\ Alert!ForgetBlocks /\ AI!StopTrainer
  /\ pc' = [r \in Requests |-> IF pc[r] \in Awaiting THEN "failed" ELSE pc[r]]
  /\ health' = "down"
  /\ UNCHANGED <<scene, clock, storeVars, logVars, verdict, stamp>>

Start ==
  /\ AI!StartTrainer
  /\ health' = "list"
  /\ UNCHANGED <<scene, clock, broadcastVars, alertVars, storeVars, logVars, requestVars>>

Tick ==
  /\ clock < scene.horizon
  /\ clock' = clock + 1
  /\ UNCHANGED <<scene, broadcastVars, alertVars, storeVars, trainerVars, logVars, requestVars, health>>

Next ==
  \/ \E r \in Requests : Arrive(r) \/ Request(r) \/ Fail(r)
  \/ \E w \in Sockets : Browse(w) \/ Handle(w)
  \/ HealthStep \/ HealthEnds \/ Retrain \/ RetrainerEnds \/ RowsExpire
  \/ Stop \/ Start \/ Tick

(***************************************************************************)
(* The event loop resumes the background tasks.  Nothing is assumed of     *)
(* requests and dashboards, or that a process that ended starts again.     *)
(***************************************************************************)
Spec == Init /\ [][Next]_vars /\ WF_vars(HealthStep) /\ WF_vars(Retrain)
-----------------------------------------------------------------------------
(***************************************************************************)
(* The components' properties, in this composition.                        *)
(***************************************************************************)
MissedWereSkipped == Dashboards!MissedWereSkipped
SentOnce == Dashboards!SentOnce
AlertsMatchAttacks == Alert!AlertsMatchAttacks
RowsAreKeptShort == AI!RowsAreKeptShort
ModelIsRetrained == AI!ModelIsRetrained

(***************************************************************************)
(* A dashboard that left does not stay in the list (main.py:159-160,       *)
(* broadcaster.py:22-25): if its own handler ended without removing it,    *)
(* the failed send of a later broadcast does, as long as the health loop   *)
(* runs to make one.                                                       *)
(***************************************************************************)
GoneIsRemoved ==
  \A w \in Sockets :
    (w \in Dashboards!Connected /\ peer[w] # "open")
      ~> (w \notin Dashboards!Connected \/ health = "ended")

(***************************************************************************)
(* generate_summary over the last ticks counts every answered request of   *)
(* that period, unless Limit newer events pushed it out of the log         *)
(* (proxy.py:142-143, reports.py:16-28), and no request twice.  Summary is *)
(* the places of the events that _load_events takes from the list.         *)
(***************************************************************************)
Summary(period) == {i \in DOMAIN log : stamp[log[i]] >= clock - period}

SummariesAreComplete ==
  \A period \in 0 .. clock :
    /\ \A i, j \in Summary(period) : log[i] = log[j] => i = j
    /\ \A r \in Requests :
         pc[r] = "answered" /\ stamp[r] >= clock - period =>
           \/ \E i \in Summary(period) : log[i] = r
           \/ \E i \in DOMAIN pushed : pushed[i] = r /\ i > Limit
=============================================================================
