---------------------------- MODULE PacketGateways ----------------------------
(***************************************************************************)
(* The UDP and WebSocket gateways of app/protocols, composed with the      *)
(* replay guard they share with the proxy, the cheat detector and the      *)
(* session window.                                                         *)
(*                                                                         *)
(* Every datagram is a task of its own.  The messages of a WebSocket are   *)
(* handled one after the other, and an exception other than a disconnect   *)
(* ends the handler, so the messages behind it are never read.  A client   *)
(* may hold several connections and send the same packet again on any.     *)
(***************************************************************************)
EXTENDS Integers, Sequences

CONSTANTS
  Deliveries,  \* what may be sent and delivered, each once
  Info,        \* of each delivery: the packet, via "UDP" or "WS", the replica,
               \* the address and session, or the connection and place on it
  Sendings,    \* sets of deliveries: those of one of them are sent and not lost
  Undecodable, \* the packet of a delivery that PacketCodec cannot decode
  Messages, Parts, NaN, Window, NonceTTL, MaxSkew, MaxDelay, MaxTime, NoCall,
  Replicas, Players, Times, MaxSpeed, MinRepeat, MinElapsed, HistoryLength,
  Garbled, Nowhere,
  Addresses, Sessions, FloodWindow, MaxNewSessions

VARIABLES
  clock,
  nonces, sets, accepted, burnt, reused,  \* the replay guard
  lastPosition, lastPayloads, signals,    \* the cheat detectors
  sessionEvents, passed,                  \* the session windows
  pc,         \* the await each delivery's handler is at, or how it ended
  verdict,    \* the ActionType of the delivery's event
  published,  \* deliveries whose event was broadcast
  acked       \* deliveries that were sent an ack

guardVars == <<nonces, sets, accepted, burnt, reused>>
cheatVars == <<lastPosition, lastPayloads, signals>>
floodVars == <<sessionEvents, passed>>
vars == <<clock, guardVars, cheatVars, floodVars, pc, verdict, published, acked>>

RG == INSTANCE ReplayGuard WITH Callers <- Deliveries, call <- sets
CD == INSTANCE CheatDetector WITH Packets <- Messages
SF == INSTANCE SynFlood

ASSUME PacketAssumption ==
  /\ RG!GuardAssumption /\ CD!CheatAssumption /\ SF!FloodAssumption
  /\ Sendings \subseteq SUBSET Deliveries
  /\ Undecodable \notin Messages
  /\ \A d \in Deliveries :
       /\ Info[d].packet \in Messages \cup {Undecodable}
       /\ Info[d].replica \in Replicas /\ Info[d].via \in {"UDP", "WS"}
       /\ Info[d].via = "UDP" => Info[d].address \in Addresses /\ Info[d].session \in Sessions

Actions == {"allowed", "auth_failed", "rate_limited", "replay_blocked",
            "cheat_detected", "anomaly_blocked"}
Awaiting == {"validate", "emit"}

(***************************************************************************)
(* Types of the gateways and of the components they share.                 *)
(***************************************************************************)
TypeOK ==
  /\ RG!TypeOK /\ CD!CheatTypeOK /\ SF!FloodTypeOK
  /\ pc \in [Deliveries -> {"lost", "sent", "done", "failed"} \cup Awaiting]
  /\ verdict \in [Deliveries -> Actions \cup {"none"}]
  /\ published \subseteq Deliveries /\ acked \subseteq Deliveries

Init ==
  /\ RG!Init /\ CD!Init /\ SF!FloodInit
  /\ \E sent \in Sendings :
       pc = [d \in Deliveries |-> IF d \in sent THEN "sent" ELSE "lost"]
  /\ verdict = [d \in Deliveries |-> "none"]
  /\ published = {} /\ acked = {}

Goto(d, next) == pc' = [pc EXCEPT ![d] = next]
Decide(d, action) == Goto(d, "emit") /\ verdict' = [verdict EXCEPT ![d] = action]

(***************************************************************************)
(* The messages before this one on its connection.                         *)
(***************************************************************************)
Ahead(d) ==
  {e \in Deliveries : Info[e].via = "WS" /\ Info[d].via = "WS" /\ Info[e].conn = Info[d].conn /\ Info[e].place < Info[d].place}

Arrives(d) == pc[d] = "sent" /\ \A e \in Ahead(d) : pc[e] \in {"lost", "done"}

(***************************************************************************)
(* validate() up to its await, or its answer timestamp_out_of_window.      *)
(***************************************************************************)
BeginValidate(d) ==
  \/ RG!Validate(d, Info[d].packet) /\ Goto(d, "validate") /\ UNCHANGED verdict
  \/ /\ \E skew \in -MaxSkew .. MaxSkew : RG!Drifts(clock + skew, Info[d].packet)
     /\ Decide(d, "replay_blocked")
     /\ UNCHANGED <<clock, guardVars>>

(***************************************************************************)
(* The handlers up to their first await.                                   *)
(***************************************************************************)
ReceiveUndecodable(d) ==
  /\ Arrives(d) /\ Info[d].packet = Undecodable
  /\ Decide(d, "auth_failed")
  /\ UNCHANGED <<clock, guardVars, cheatVars, floodVars, published, acked>>

ReceiveDatagram(d) ==
  /\ Arrives(d) /\ Info[d].packet # Undecodable /\ Info[d].via = "UDP"
  /\ SF!Register(Info[d].replica, Info[d].address, Info[d].session)
  /\ IF SF!Floods(Info[d].replica, Info[d].address, Info[d].session)
     THEN Decide(d, "rate_limited") /\ UNCHANGED guardVars
     ELSE BeginValidate(d)
  /\ UNCHANGED <<cheatVars, published, acked>>

ReceiveMessage(d) ==
  /\ Arrives(d) /\ Info[d].packet # Undecodable /\ Info[d].via = "WS"
  /\ BeginValidate(d)
  /\ UNCHANGED <<cheatVars, floodVars, published, acked>>

(***************************************************************************)
(* The anomaly detector's answer is a free choice.                         *)
(***************************************************************************)
Score(d) == Decide(d, "allowed") \/ Decide(d, "anomaly_blocked")

(***************************************************************************)
(* evaluate() takes the packet's timestamp as its `now`.                   *)
(***************************************************************************)
ArrivalSample(d) == [packet |-> Info[d].packet, at |-> clock]
SampleOf(d) == CD!Stamped(Info[d].packet)

(***************************************************************************)
(* A WebSocket packet that the guard let pass: the cheat detector first.   *)
(* When evaluate() raises, the handler ends without an event.              *)
(***************************************************************************)
Judge(d) ==
  \/ /\ CD!Raises(SampleOf(d))
     /\ Goto(d, "failed") /\ UNCHANGED <<verdict, cheatVars>>
  \/ /\ ~CD!Raises(SampleOf(d))
     /\ CD!Evaluate(Info[d].replica, SampleOf(d))
     /\ IF CD!RaisesLate(Info[d].replica, SampleOf(d))
        THEN Goto(d, "failed") /\ UNCHANGED verdict
        ELSE IF CD!Cheats(Info[d].replica, SampleOf(d))
        THEN Decide(d, "cheat_detected")
        ELSE Score(d)

(***************************************************************************)
(* validate() returns.                                                     *)
(***************************************************************************)
DatagramAccepted(d) ==
  /\ pc[d] = "validate" /\ Info[d].via = "UDP"
  /\ RG!Reply(d)
  /\ Score(d)
  /\ UNCHANGED <<cheatVars, floodVars, published, acked>>

DatagramValidated(d) ==
  /\ pc[d] = "validate" /\ Info[d].via = "UDP"
  /\ RG!Reply(d)
  /\ IF RG!Exists(RG!KeyOf(Info[d].packet)) THEN Decide(d, "replay_blocked") ELSE Score(d)
  /\ UNCHANGED <<cheatVars, floodVars, published, acked>>

MessageValidated(d) ==
  /\ pc[d] = "validate" /\ Info[d].via = "WS"
  /\ RG!Reply(d)
  /\ IF RG!Exists(RG!KeyOf(Info[d].packet))
     THEN Decide(d, "replay_blocked") /\ UNCHANGED cheatVars
     ELSE Judge(d)
  /\ UNCHANGED <<floodVars, published, acked>>

(***************************************************************************)
(* The broadcast of the event ends; _forward_to_upstream sends the ack of  *)
(* an allowed datagram.  Errors of single sockets stay inside broadcast(). *)
(***************************************************************************)
AcksEveryDatagram(d) == Info[d].via = "UDP"
Acks(d) == Info[d].via = "UDP" /\ verdict[d] = "allowed"

Emit(d) ==
  /\ pc[d] = "emit"
  /\ published' = published \cup {d}
  /\ acked' = IF Acks(d) THEN acked \cup {d} ELSE acked
  /\ Goto(d, "done")
  /\ UNCHANGED <<clock, guardVars, cheatVars, floodVars, verdict>>

(***************************************************************************)
(* Redis fails, or the handler is cancelled, at the await of validate().   *)
(***************************************************************************)
Fail(d) ==
  /\ pc[d] = "validate"
  /\ RG!ReplyLost(d) \/ RG!Drop(d)
  /\ Goto(d, "failed")
  /\ UNCHANGED <<cheatVars, floodVars, verdict, published, acked>>

(***************************************************************************)
(* A replica stops and starts again, its pending SETs having run or not:   *)
(* memory, broadcasts and connections are gone, Redis is not.              *)
(***************************************************************************)
CutOff(rep, d) ==
  /\ Info[d].replica = rep
  /\ pc[d] = "emit" \/ (pc[d] = "sent" /\ \E e \in Ahead(d) : pc[e] \in {"done", "emit"})

Restart(rep) ==
  /\ \A d \in Deliveries : Info[d].replica = rep => pc[d] # "validate"
  /\ CD!Forget(rep) /\ SF!ForgetSessions(rep)
  /\ pc' = [d \in Deliveries |-> IF CutOff(rep, d) THEN "failed" ELSE pc[d]]
  /\ UNCHANGED <<clock, guardVars, verdict, published, acked>>

Tick ==
  /\ RG!Tick
  /\ UNCHANGED <<cheatVars, floodVars, pc, verdict, published, acked>>

Step(d) == DatagramValidated(d) \/ MessageValidated(d) \/ Emit(d) \/ Fail(d)

Next ==
  \/ \E d \in Deliveries :
       ReceiveUndecodable(d) \/ ReceiveDatagram(d) \/ ReceiveMessage(d) \/ Step(d)
  \/ \E rep \in Replicas : Restart(rep)
  \/ Tick

Spec == Init /\ [][Next]_vars
-----------------------------------------------------------------------------
Judged == {"allowed", "cheat_detected", "anomaly_blocked"}

(***************************************************************************)
(* A packet gets past the guard once: of all its deliveries, on both       *)
(* protocols, all connections and replicas and across restarts, one at     *)
(* most is judged (udp_gateway.py:60, ws_gateway.py:37), and another of a  *)
(* packet without a time only when nonces have expired.                    *)
(***************************************************************************)
OneVerdict ==
  \A d, e \in Deliveries :
    /\ verdict[d] \in Judged /\ verdict[e] \in Judged
    /\ Info[d].packet = Info[e].packet /\ d # e
    => RG!Repeatable(Info[d].packet)

(***************************************************************************)
(* Why: the guard accepted a packet as often as deliveries of it are       *)
(* judged, and each pending validate() is about the packet of its          *)
(* delivery.                                                               *)
(***************************************************************************)
VerdictType == verdict \in [Deliveries -> Actions \cup {"none"}]

SetsMatch == \A d \in Deliveries : sets[d] # NoCall => sets[d].msg = Info[d].packet

JudgedWasAccepted ==
  \A d \in Deliveries : verdict[d] \in Judged =>
    Info[d].packet \in Messages /\ accepted[Info[d].packet] > 0

JudgedTwiceWasTwiceAccepted ==
  \A d, e \in Deliveries :
    /\ verdict[d] \in Judged /\ verdict[e] \in Judged
    /\ Info[d].packet = Info[e].packet /\ d # e
    => accepted[Info[d].packet] > 1

VerdictInv == VerdictType /\ SetsMatch /\ JudgedWasAccepted /\ JudgedTwiceWasTwiceAccepted

(***************************************************************************)
(* An ack stands (udp_gateway.py:70): its packet was published as allowed  *)
(* before, and no other delivery of it is acked, or was accused by a cheat *)
(* detector, unless the packet may be judged again.                        *)
(***************************************************************************)
AcksStand ==
  \A d \in acked :
    /\ d \in published /\ verdict[d] = "allowed"
    /\ \/ /\ \A e \in acked : Info[d].packet = Info[e].packet => d = e
          /\ \A g \in signals : g.packet # Info[d].packet
       \/ RG!Repeatable(Info[d].packet)

(***************************************************************************)
(* cheat_detector.py:32 and udp_gateway.py:22 behind the gateways.         *)
(***************************************************************************)
HonestMoversNotAccused == CD!HonestMoversNotAccused
SessionsBounded == SF!SessionsBounded

(***************************************************************************)
(* A player who never sends the same payload twice within the interval     *)
(* (cheat_detector.py:59) is accused of a macro only when a packet was     *)
(* overtaken: an equal one with a later timestamp was evaluated before it. *)
(* Packets sent again after a lost answer, or twice by the network, accuse *)
(* nobody: the guard stops them before the detector.                       *)
(***************************************************************************)
SlowRepeater(c) ==
  \A p, q \in RG!TimedMessages :
    p.client = c /\ q.client = c /\ p # q /\ p.payload = q.payload =>
      p.ts - q.ts >= MinRepeat \/ q.ts - p.ts >= MinRepeat

MacrosWereOvertaken ==
  [][\A g \in signals' \ signals :
       g.type = "macro_bot_pattern" /\ SlowRepeater(g.packet.client) =>
         \E e \in Deliveries :
           /\ Info[e].via = "WS" /\ Info[e].replica = g.replica /\ verdict[e] \in Judged
           /\ Info[e].packet.client = g.packet.client /\ Info[e].packet.payload = g.packet.payload
           /\ RG!Timed(Info[e].packet) /\ Info[e].packet.ts > g.packet.ts]_vars

(***************************************************************************)
(* Cheat detection, of speed hacking, is in the WebSocket and UDP layer    *)
(* (docs/ARCHITECTURE.md:45): no move is allowed without having become the *)
(* player's last position in the detector of the replica.                  *)
(***************************************************************************)
AllowedMovesAreChecked ==
  [][\A d \in Deliveries :
       verdict'[d] = "allowed" /\ verdict[d] = "none" /\ Info[d].packet.moves =>
         lastPosition'[Info[d].replica][Info[d].packet.client] = SampleOf(d)]_vars
=============================================================================
