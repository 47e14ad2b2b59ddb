------------------------- MODULE PacketGatewaysProofs -------------------------
(***************************************************************************)
(* Proofs about the protocol gateways, for any packets, deliveries,        *)
(* connections and replicas: what the replay guard and the cheat detector  *)
(* guarantee carries over to their composition.                            *)
(***************************************************************************)
EXTENDS PacketGateways, FiniteSetTheorems, WellFoundedInduction, TLAPS

CDP == INSTANCE CheatDetectorProofs WITH Packets <- Messages
RGP == INSTANCE ReplayGuardProofs WITH Callers <- Deliveries, call <- sets

(***************************************************************************)
(* CDP and RGP are the detector and the guard of PacketGateways, with the  *)
(* theorems about them.                                                    *)
(***************************************************************************)
LEMMA SameDetector ==
  /\ CD!Init <=> CDP!Init
  /\ [CD!Next]_cheatVars <=> [CDP!Next]_(CDP!cheatVars)
  /\ HonestMoversNotAccused <=> CDP!HonestMoversNotAccused
  /\ CDP!CheatAssumption
<1>1. CD!Init <=> CDP!Init
  BY DEF CD!Init, CDP!Init
<1>2. CD!Next <=> CDP!Next
  BY DEF CD!Next, CDP!Next, CD!Evaluate, CDP!Evaluate, CD!Forget, CDP!Forget,
         CD!Raises, CDP!Raises, CD!RaisesLate, CDP!RaisesLate, CD!Stamped, CDP!Stamped,
         CD!Speeding, CDP!Speeding, CD!Placed, CDP!Placed,
         CD!Repeating, CDP!Repeating, CD!TooSoon, CDP!TooSoon, CD!TooFast, CDP!TooFast,
         CD!SpeedChecked, CDP!SpeedChecked, CD!Square, CDP!Square, CD!Signal, CDP!Signal,
         CD!AppendBounded, CDP!AppendBounded
<1>3. [CD!Next]_cheatVars <=> [CDP!Next]_(CDP!cheatVars)
  BY <1>2 DEF cheatVars, CDP!cheatVars
<1>4. HonestMoversNotAccused <=> CDP!HonestMoversNotAccused
  BY DEF HonestMoversNotAccused, CD!HonestMoversNotAccused, CDP!HonestMoversNotAccused,
         CD!HonestMover, CDP!HonestMover, CD!TooFast, CDP!TooFast, CD!SpeedChecked,
         CDP!SpeedChecked, CD!Square, CDP!Square, CD!Placed, CDP!Placed, CD!Stamped, CDP!Stamped
<1>5. CDP!CheatAssumption
  BY PacketAssumption DEF CD!CheatAssumption, CDP!CheatAssumption, CD!Sample, CDP!Sample
<1> QED BY <1>1, <1>3, <1>4, <1>5

LEMMA SameGuard ==
  /\ RG!GuardInv <=> RGP!GuardInv
  /\ RG!Init => RGP!Init
  /\ [RG!Next]_(RG!vars) => [RGP!Next]_(RGP!vars)
  /\ RG!NonceCoversWindow => RGP!NonceCoversWindow
  /\ RGP!NoSecondAcceptance => RG!NoSecondAcceptance
  /\ RGP!GuardAssumption
<1>1. RG!GuardInv <=> RGP!GuardInv
  BY DEF RG!GuardInv, RGP!GuardInv, RG!TypeOK, RGP!TypeOK, RG!CallsInTime, RGP!CallsInTime,
         RG!NonceKept, RGP!NonceKept, RG!NonceSpent, RGP!NonceSpent, RG!NoFalseReuse,
         RGP!NoFalseReuse, RG!Spent, RGP!Spent, RG!Plain, RGP!Plain, RG!Same, RGP!Same,
         RG!ReadsSame, RGP!ReadsSame, RG!Timed, RGP!Timed, RG!Keys, RGP!Keys, RG!KeyOf, RGP!KeyOf,
         RG!Call, RGP!Call
<1>2. RG!Init => RGP!Init
  BY DEF RG!Init, RGP!Init, RG!Keys, RGP!Keys, RG!KeyOf, RGP!KeyOf
<1>3. RG!Next => RGP!Next
  BY DEF RG!Next, RGP!Next, RG!Validate, RGP!Validate, RG!Reply, RGP!Reply, RG!ReplyLost,
         RGP!ReplyLost, RG!Drop, RGP!Drop, RG!Tick, RGP!Tick, RG!Drifts, RGP!Drifts,
         RG!Timed, RGP!Timed, RG!SetNX, RGP!SetNX, RG!Exists, RGP!Exists, RG!KeyOf, RGP!KeyOf
<1>4. [RG!Next]_(RG!vars) => [RGP!Next]_(RGP!vars)
  BY <1>3 DEF RG!vars, RGP!vars
<1>5. RG!NonceCoversWindow => RGP!NonceCoversWindow
  BY DEF RG!NonceCoversWindow, RGP!NonceCoversWindow
<1>6. RGP!NoSecondAcceptance => RG!NoSecondAcceptance
  BY DEF RG!NoSecondAcceptance, RGP!NoSecondAcceptance, RG!Repeatable, RGP!Repeatable,
         RG!Timed, RGP!Timed
<1>7. RGP!GuardAssumption
  BY PacketAssumption DEF RG!GuardAssumption, RGP!GuardAssumption, RG!Call, RGP!Call
<1> QED BY <1>1, <1>2, <1>4, <1>5, <1>6, <1>7

-----------------------------------------------------------------------------
(***************************************************************************)
(* validate() is called only with a decoded packet.                        *)
(***************************************************************************)
LEMMA BeginIsGuardStep ==
  ASSUME NEW d \in Deliveries, Info[d].packet # Undecodable, UNCHANGED clock, BeginValidate(d)
  PROVE  [RG!Next]_(RG!vars)
<1>1. Info[d].packet \in Messages
  BY PacketAssumption
<1>2. CASE RG!Validate(d, Info[d].packet)
  BY <1>1, <1>2 DEF RG!Next
<1>3. CASE UNCHANGED <<clock, guardVars>>
  BY <1>3 DEF guardVars, RG!vars
<1> QED BY <1>2, <1>3 DEF BeginValidate

(***************************************************************************)
(* Every step of the gateways is a step of the guard or leaves it alone.   *)
(***************************************************************************)
LEMMA GuardStep ==
  ASSUME [Next]_vars
  PROVE  [RG!Next]_(RG!vars)
<1>1. ASSUME NEW d \in Deliveries, ReceiveUndecodable(d)
      PROVE  [RG!Next]_(RG!vars)
  BY <1>1 DEF ReceiveUndecodable, guardVars, RG!vars
<1>2. ASSUME NEW d \in Deliveries, ReceiveDatagram(d)
      PROVE  [RG!Next]_(RG!vars)
  <2>1. UNCHANGED clock
    BY <1>2 DEF ReceiveDatagram, SF!Register
  <2>2. UNCHANGED guardVars \/ BeginValidate(d)
    BY <1>2 DEF ReceiveDatagram
  <2>3. Info[d].packet # Undecodable
    BY <1>2 DEF ReceiveDatagram
  <2>4. CASE UNCHANGED guardVars
    BY <2>1, <2>4 DEF guardVars, RG!vars
  <2> QED BY <2>1, <2>2, <2>3, <2>4, BeginIsGuardStep
<1>3. ASSUME NEW d \in Deliveries, ReceiveMessage(d)
      PROVE  [RG!Next]_(RG!vars)
  <2>1. UNCHANGED clock
    BY <1>3 DEF ReceiveMessage, BeginValidate, RG!Validate
  <2>2. BeginValidate(d) /\ Info[d].packet # Undecodable
    BY <1>3 DEF ReceiveMessage
  <2> QED BY <2>1, <2>2, BeginIsGuardStep
<1>4. ASSUME NEW d \in Deliveries, DatagramValidated(d) \/ MessageValidated(d)
      PROVE  [RG!Next]_(RG!vars)
  BY <1>4 DEF DatagramValidated, MessageValidated, RG!Next
<1>5. ASSUME NEW d \in Deliveries, Fail(d)
      PROVE  [RG!Next]_(RG!vars)
  BY <1>5 DEF Fail, RG!Next
<1>6. ASSUME NEW d \in Deliveries, Emit(d)
      PROVE  [RG!Next]_(RG!vars)
  BY <1>6 DEF Emit, guardVars, RG!vars
<1>7. ASSUME NEW rep \in Replicas, Restart(rep)
      PROVE  [RG!Next]_(RG!vars)
  BY <1>7 DEF Restart, guardVars, RG!vars
<1>8. CASE Tick
  BY <1>8 DEF Tick, RG!Next
<1>9. CASE UNCHANGED vars
  BY <1>9 DEF vars, guardVars, RG!vars
<1> QED BY <1>1, <1>2, <1>3, <1>4, <1>5, <1>6, <1>7, <1>8, <1>9 DEF Next, Step

(***************************************************************************)
(* A pending call has the types of the guard and is about its delivery.    *)
(***************************************************************************)
LEMMA PendingPacket ==
  ASSUME RG!GuardInv, SetsMatch, NEW d \in Deliveries, sets[d] # NoCall
  PROVE  Info[d].packet \in Messages /\ sets[d].msg = Info[d].packet
<1>1. sets[d] \in RG!Call
  BY DEF RG!GuardInv, RG!TypeOK
<1> QED BY <1>1 DEF SetsMatch, RG!Call

(***************************************************************************)
(* A call is set to the packet of its delivery, or stays, or ends.         *)
(***************************************************************************)
LEMMA SetsStep ==
  ASSUME RG!GuardInv, SetsMatch, [Next]_vars
  PROVE  SetsMatch'
<1>1. sets \in [Deliveries -> RG!Call \cup {NoCall}]
  BY DEF RG!GuardInv, RG!TypeOK
<1>2. \/ UNCHANGED sets
      \/ \E d \in Deliveries : RG!Validate(d, Info[d].packet)
      \/ \E d \in Deliveries : RG!Reply(d) \/ RG!ReplyLost(d) \/ RG!Drop(d)
  BY DEF Next, Step, vars, guardVars, ReceiveUndecodable, ReceiveDatagram, ReceiveMessage,
         BeginValidate, DatagramValidated, MessageValidated, Emit, Fail, Restart, Tick, RG!Tick
<1>3. CASE UNCHANGED sets
  BY <1>3 DEF SetsMatch
<1>4. ASSUME NEW d \in Deliveries, RG!Validate(d, Info[d].packet)
      PROVE  SetsMatch'
  BY <1>1, <1>4 DEF SetsMatch, RG!Validate
<1>5. ASSUME NEW d \in Deliveries, RG!Reply(d) \/ RG!ReplyLost(d) \/ RG!Drop(d)
      PROVE  SetsMatch'
  BY <1>1, <1>5 DEF SetsMatch, RG!Reply, RG!ReplyLost, RG!Drop
<1> QED BY <1>2, <1>3, <1>4, <1>5

(***************************************************************************)
(* Every step of the gateways is a step of the detectors or leaves them    *)
(* alone.                                                                  *)
(***************************************************************************)
LEMMA DetectorStep ==
  ASSUME RG!GuardInv, SetsMatch, [Next]_vars
  PROVE  [CD!Next]_cheatVars
<1>1. ASSUME NEW d \in Deliveries, MessageValidated(d)
      PROVE  [CD!Next]_cheatVars
  <2>1. \/ UNCHANGED cheatVars
        \/ /\ ~CD!Raises(CD!Stamped(Info[d].packet))
           /\ CD!Evaluate(Info[d].replica, CD!Stamped(Info[d].packet))
    BY <1>1 DEF MessageValidated, Judge, SampleOf
  <2>2. Info[d].replica \in Replicas
    BY PacketAssumption
  <2>3. Info[d].packet \in Messages
    BY <1>1, PendingPacket DEF MessageValidated, RG!Reply
  <2> QED BY <2>1, <2>2, <2>3 DEF CD!Next
<1>2. ASSUME NEW rep \in Replicas, Restart(rep)
      PROVE  [CD!Next]_cheatVars
  BY <1>2 DEF Restart, CD!Next
<1>3. CASE UNCHANGED cheatVars
  BY <1>3
<1>4. \/ UNCHANGED cheatVars
      \/ \E d \in Deliveries : MessageValidated(d)
      \/ \E rep \in Replicas : Restart(rep)
  BY DEF Next, Step, vars, cheatVars, ReceiveUndecodable, ReceiveDatagram, ReceiveMessage,
         DatagramValidated, Emit, Fail, Tick
<1> QED BY <1>1, <1>2, <1>3, <1>4

(***************************************************************************)
(* The guard's invariant holds in the gateways.                            *)
(***************************************************************************)
LEMMA GuardedGateways == Spec => [](RG!GuardInv /\ SetsMatch)
<1>1. Init => RG!GuardInv /\ SetsMatch
  <2>1. Init => RG!GuardInv
    BY SameGuard, RGP!InvInit DEF Init
  <2>2. Init => SetsMatch
    BY DEF Init, RG!Init, SetsMatch
  <2> QED BY <2>1, <2>2
<1>2. (RG!GuardInv /\ SetsMatch) /\ [Next]_vars => (RG!GuardInv /\ SetsMatch)'
  <2> SUFFICES ASSUME RG!GuardInv, SetsMatch, [Next]_vars
               PROVE  RG!GuardInv' /\ SetsMatch'
    OBVIOUS
  <2>1. RGP!GuardInv /\ [RGP!Next]_(RGP!vars)
    BY GuardStep, SameGuard
  <2>2. RGP!GuardInv'
    BY <2>1, RGP!InvStep, SameGuard
  <2>3. RG!GuardInv'
    BY <2>2 DEF RG!GuardInv, RGP!GuardInv, RG!TypeOK, RGP!TypeOK, RG!CallsInTime,
         RGP!CallsInTime, RG!NonceKept, RGP!NonceKept, RG!NonceSpent, RGP!NonceSpent,
         RG!NoFalseReuse, RGP!NoFalseReuse, RG!Spent, RGP!Spent, RG!Plain, RGP!Plain,
         RG!Same, RGP!Same, RG!ReadsSame, RGP!ReadsSame, RG!Timed, RGP!Timed, RG!Keys,
         RGP!Keys, RG!KeyOf, RGP!KeyOf, RG!Call, RGP!Call
  <2> QED BY <2>3, SetsStep
<1> QED BY <1>1, <1>2, PTL DEF Spec

(***************************************************************************)
(* The guard accepts in the gateways what it accepts alone: a packet once, *)
(* but one without a time after the life of its nonce.                     *)
(***************************************************************************)
LEMMA AcceptingGateways == RG!NonceCoversWindow /\ Spec => []RG!NoSecondAcceptance
<1> SUFFICES ASSUME RG!NonceCoversWindow
             PROVE  Spec => []RG!NoSecondAcceptance
  OBVIOUS
<1>1. Init => RGP!Init
  BY SameGuard DEF Init
<1>2. [Next]_vars => [RGP!Next]_(RGP!vars)
  BY GuardStep, SameGuard
<1>3. RGP!Spec => []RGP!NoSecondAcceptance
  BY RGP!AtMostOneAcceptance, SameGuard
<1>4. RGP!NoSecondAcceptance => RG!NoSecondAcceptance
  BY SameGuard
<1> QED BY <1>1, <1>2, <1>3, <1>4, PTL DEF Spec, RGP!Spec

-----------------------------------------------------------------------------
(***************************************************************************)
(* No honest mover is accused of a speed hack (cheat_detector.py:32): the  *)
(* gateways implement the cheat detector's specification.                  *)
(***************************************************************************)
THEOREM HonestMoversPass == Spec => []HonestMoversNotAccused
<1>1. Init => CDP!Init
  BY SameDetector DEF Init
<1>2. RG!GuardInv /\ SetsMatch /\ [Next]_vars => [CDP!Next]_(CDP!cheatVars)
  BY DetectorStep, SameDetector
<1>3. CDP!Spec => []CDP!HonestMoversNotAccused
  BY CDP!HonestMoversPass, SameDetector
<1>4. CDP!HonestMoversNotAccused => HonestMoversNotAccused
  BY SameDetector
<1> QED BY <1>1, <1>2, <1>3, <1>4, GuardedGateways, PTL DEF Spec, CDP!Spec

-----------------------------------------------------------------------------
(***************************************************************************)
(* A packet comes to be judged only when the guard accepts it.             *)
(***************************************************************************)
LEMMA VerdictEffect ==
  ASSUME VerdictType, [Next]_vars
  PROVE  /\ VerdictType'
         /\ \/ \A d \in Deliveries : verdict'[d] \in Judged => verdict'[d] = verdict[d]
            \/ \E d \in Deliveries :
                 /\ RG!Reply(d) /\ ~RG!Exists(RG!KeyOf(Info[d].packet))
                 /\ \A e \in Deliveries \ {d} : verdict'[e] = verdict[e]
<1> DEFINE Rejects == \E d \in Deliveries : \E a \in Actions \ Judged :
                         verdict' = [verdict EXCEPT ![d] = a]
           Accepts == \E d \in Deliveries : \E a \in Judged :
                         /\ RG!Reply(d) /\ ~RG!Exists(RG!KeyOf(Info[d].packet))
                         /\ verdict' = [verdict EXCEPT ![d] = a]
<1>1. ASSUME NEW d \in Deliveries,
             ReceiveUndecodable(d) \/ ReceiveDatagram(d) \/ ReceiveMessage(d)
      PROVE  UNCHANGED verdict \/ Rejects
  BY <1>1 DEF ReceiveUndecodable, ReceiveDatagram, ReceiveMessage, BeginValidate, Decide,
              Actions, Judged
<1>2. ASSUME NEW d \in Deliveries, DatagramValidated(d)
      PROVE  Rejects \/ Accepts
  <2>1. CASE RG!Exists(RG!KeyOf(Info[d].packet))
    BY <1>2, <2>1 DEF DatagramValidated, Decide, Actions, Judged
  <2>2. CASE ~RG!Exists(RG!KeyOf(Info[d].packet))
    BY <1>2, <2>2 DEF DatagramValidated, Score, Decide, Actions, Judged
  <2> QED BY <2>1, <2>2
<1>3. ASSUME NEW d \in Deliveries, MessageValidated(d)
      PROVE  UNCHANGED verdict \/ Rejects \/ Accepts
  <2>1. CASE RG!Exists(RG!KeyOf(Info[d].packet))
    BY <1>3, <2>1 DEF MessageValidated, Decide, Actions, Judged
  <2>2. CASE ~RG!Exists(RG!KeyOf(Info[d].packet))
    BY <1>3, <2>2 DEF MessageValidated, Judge, Score, Decide, Actions, Judged
  <2> QED BY <2>1, <2>2
<1>4. UNCHANGED verdict \/ Rejects \/ Accepts
  <2>1. CASE \/ UNCHANGED vars \/ Tick \/ \E rep \in Replicas : Restart(rep)
             \/ \E d \in Deliveries : Emit(d) \/ Fail(d)
    BY <2>1 DEF vars, Tick, Restart, Emit, Fail
  <2> QED BY <1>1, <1>2, <1>3, <2>1 DEF Next, Step
<1>5. CASE UNCHANGED verdict
  BY <1>5 DEF VerdictType
<1>6. CASE Rejects
  BY <1>6 DEF VerdictType
<1>7. CASE Accepts
  <2>1. Judged \subseteq Actions
    BY DEF Judged, Actions
  <2> QED BY <1>7, <2>1 DEF VerdictType
<1> QED BY <1>4, <1>5, <1>6, <1>7

(***************************************************************************)
(* What the guard has accepted stays accepted.                             *)
(***************************************************************************)
LEMMA AcceptedGrows ==
  ASSUME RG!GuardInv, [Next]_vars, NEW m \in Messages
  PROVE  accepted[m] \in Nat /\ accepted'[m] \in Nat /\ accepted'[m] >= accepted[m]
<1>1. accepted \in [Messages -> Nat]
  BY DEF RG!GuardInv, RG!TypeOK
<1>2. \/ UNCHANGED accepted
      \/ \E n \in Messages : accepted' = [accepted EXCEPT ![n] = @ + 1]
  <2>1. ASSUME NEW d \in Deliveries, RG!Reply(d)
        PROVE  UNCHANGED accepted \/ \E n \in Messages : accepted' = [accepted EXCEPT ![n] = @ + 1]
    <3>1. sets[d] \in RG!Call /\ sets[d].msg \in Messages
      BY <2>1 DEF RG!GuardInv, RG!TypeOK, RG!Reply, RG!Call
    <3> QED BY <2>1, <3>1 DEF RG!Reply
  <2> QED BY <2>1, GuardStep DEF RG!Next, RG!vars, RG!Validate, RG!ReplyLost, RG!Drop, RG!Tick
<1> QED BY <1>1, <1>2

(***************************************************************************)
(* Each step keeps as many acceptances as verdicts: a delivery comes to be *)
(* judged when the guard accepts its packet once more.                     *)
(***************************************************************************)
LEMMA VerdictStep ==
  ASSUME RG!GuardInv, VerdictInv, [Next]_vars
  PROVE  VerdictInv'
<1>1. VerdictType /\ SetsMatch /\ JudgedWasAccepted /\ JudgedTwiceWasTwiceAccepted
  BY DEF VerdictInv
<1>2. VerdictType' /\ SetsMatch'
  BY <1>1, VerdictEffect, SetsStep
<1>3. CASE \A d \in Deliveries : verdict'[d] \in Judged => verdict'[d] = verdict[d]
  <2>1. JudgedWasAccepted'
    <3>1. ASSUME NEW d \in Deliveries, verdict'[d] \in Judged
          PROVE  Info[d].packet \in Messages /\ accepted'[Info[d].packet] > 0
      <4>1. Info[d].packet \in Messages /\ accepted[Info[d].packet] > 0
        BY <1>1, <1>3, <3>1 DEF JudgedWasAccepted
      <4> QED BY <4>1, AcceptedGrows
    <3> QED BY <3>1 DEF JudgedWasAccepted
  <2>2. JudgedTwiceWasTwiceAccepted'
    <3>1. ASSUME NEW d \in Deliveries, NEW e \in Deliveries, verdict'[d] \in Judged,
                 verdict'[e] \in Judged, Info[d].packet = Info[e].packet, d # e
          PROVE  accepted'[Info[d].packet] > 1
      <4>1. Info[d].packet \in Messages /\ accepted[Info[d].packet] > 1
        BY <1>1, <1>3, <3>1 DEF JudgedWasAccepted, JudgedTwiceWasTwiceAccepted
      <4> QED BY <4>1, AcceptedGrows
    <3> QED BY <3>1 DEF JudgedTwiceWasTwiceAccepted
  <2> QED BY <1>2, <2>1, <2>2 DEF VerdictInv
<1>4. ASSUME NEW d \in Deliveries,
             RG!Reply(d), ~RG!Exists(RG!KeyOf(Info[d].packet)),
             \A e \in Deliveries \ {d} : verdict'[e] = verdict[e]
      PROVE  VerdictInv'
  <2>1. sets[d] # NoCall /\ Info[d].packet \in Messages /\ sets[d].msg = Info[d].packet
    BY <1>1, <1>4, PendingPacket DEF RG!Reply
  <2>2. /\ accepted[Info[d].packet] \in Nat
        /\ accepted'[Info[d].packet] = accepted[Info[d].packet] + 1
    <3>1. accepted \in [Messages -> Nat]
      BY DEF RG!GuardInv, RG!TypeOK
    <3>2. accepted' = [accepted EXCEPT ![Info[d].packet] = @ + 1]
      BY <1>4, <2>1 DEF RG!Reply
    <3> QED BY <2>1, <3>1, <3>2
  <2>3. \A e \in Deliveries \ {d} : verdict'[e] \in Judged =>
          /\ Info[e].packet \in Messages /\ accepted[Info[e].packet] > 0
          /\ accepted'[Info[e].packet] > 0
    <3>1. ASSUME NEW e \in Deliveries \ {d}, verdict'[e] \in Judged
          PROVE  /\ Info[e].packet \in Messages /\ accepted[Info[e].packet] > 0
                 /\ accepted'[Info[e].packet] > 0
      <4>1. Info[e].packet \in Messages /\ accepted[Info[e].packet] > 0
        BY <1>1, <1>4, <3>1 DEF JudgedWasAccepted
      <4> QED BY <4>1, AcceptedGrows
    <3> QED BY <3>1
  <2>4. JudgedWasAccepted'
    <3>1. accepted'[Info[d].packet] > 0
      BY <2>2
    <3> QED BY <2>1, <2>3, <3>1 DEF JudgedWasAccepted
  <2>5. JudgedTwiceWasTwiceAccepted'
    <3>1. ASSUME NEW e \in Deliveries, NEW f \in Deliveries, verdict'[e] \in Judged,
                 verdict'[f] \in Judged, Info[e].packet = Info[f].packet, e # f
          PROVE  accepted'[Info[e].packet] > 1
      <4>1. CASE e # d /\ f # d
        <5>1. Info[e].packet \in Messages /\ accepted[Info[e].packet] > 1
          BY <1>1, <1>4, <3>1, <4>1 DEF JudgedWasAccepted, JudgedTwiceWasTwiceAccepted
        <5> QED BY <5>1, AcceptedGrows
      <4>2. CASE e = d \/ f = d
        <5>1. accepted[Info[d].packet] > 0 /\ Info[e].packet = Info[d].packet
          BY <2>3, <3>1, <4>2
        <5>2. accepted'[Info[d].packet] > 1
          BY <2>2, <5>1
        <5> QED BY <5>1, <5>2
      <4> QED BY <4>1, <4>2
    <3> QED BY <3>1 DEF JudgedTwiceWasTwiceAccepted
  <2> QED BY <1>2, <2>4, <2>5 DEF VerdictInv
<1> QED BY <1>1, <1>3, <1>4, VerdictEffect

LEMMA VerdictInit ==
  ASSUME Init
  PROVE  VerdictInv
<1>1. \A d \in Deliveries : verdict[d] = "none" /\ sets[d] = NoCall
  BY DEF Init, RG!Init
<1>2. "none" \notin Judged
  BY DEF Judged
<1>3. VerdictType
  BY DEF Init, VerdictType
<1> QED BY <1>1, <1>2, <1>3 DEF VerdictInv, SetsMatch, JudgedWasAccepted,
                                JudgedTwiceWasTwiceAccepted

(***************************************************************************)
(* What is accepted once is judged once.                                   *)
(***************************************************************************)
LEMMA OneVerdictEach ==
  ASSUME VerdictInv, RG!NoSecondAcceptance
  PROVE  OneVerdict
BY DEF VerdictInv, JudgedWasAccepted, JudgedTwiceWasTwiceAccepted, RG!NoSecondAcceptance,
       OneVerdict

(***************************************************************************)
(* A packet is judged once at most, however it is sent again, duplicated,  *)
(* delayed and spread over protocols, connections and replicas, if the     *)
(* nonces live as long as the guard needs; and one without a time again    *)
(* only when nonces have expired.                                          *)
(***************************************************************************)
THEOREM JudgedOnce == RG!NonceCoversWindow /\ Spec => []OneVerdict
<1>1. Init => VerdictInv
  BY VerdictInit
<1>2. RG!GuardInv /\ VerdictInv /\ [Next]_vars => VerdictInv'
  BY VerdictStep
<1>3. VerdictInv /\ RG!NoSecondAcceptance => OneVerdict
  BY OneVerdictEach
<1> QED BY <1>1, <1>2, <1>3, GuardedGateways, AcceptingGateways, PTL DEF Spec

-----------------------------------------------------------------------------
(***************************************************************************)
(* A delivery is decided once, when it goes to the broadcast, and acked    *)
(* after it; whatever a detector signals or remembers came by WebSocket    *)
(* and was judged.                                                         *)
(***************************************************************************)
PcType == pc \in [Deliveries -> {"lost", "sent", "done", "failed"} \cup Awaiting]

DecidedOnce == \A d \in Deliveries : pc[d] \in {"sent", "validate"} => verdict[d] = "none"

AckedWhenDone ==
  \A d \in acked : /\ d \in published /\ d \in Deliveries /\ pc[d] = "done"
                   /\ verdict[d] = "allowed" /\ Info[d].via = "UDP"

SignalsJudged ==
  \A g \in signals : \E d \in Deliveries :
    Info[d].via = "WS" /\ verdict[d] \in Judged /\ Info[d].packet = g.packet

PayloadsJudged ==
  \A rep \in Replicas, c \in Players : \A i \in 1 .. Len(lastPayloads[rep][c]) :
    \E d \in Deliveries :
      /\ Info[d].via = "WS" /\ Info[d].replica = rep /\ verdict[d] \in Judged
      /\ Info[d].packet.client = c /\ lastPayloads[rep][c][i] = CD!Stamped(Info[d].packet)

AckInv == PcType /\ DecidedOnce /\ AckedWhenDone /\ SignalsJudged /\ PayloadsJudged

(***************************************************************************)
(* The detectors' invariant holds in the gateways.                         *)
(***************************************************************************)
LEMMA DetectingGateways == Spec => []CDP!CheatInv
<1>1. Init => CDP!Init
  BY SameDetector DEF Init
<1>2. RG!GuardInv /\ SetsMatch /\ [Next]_vars => [CDP!Next]_(CDP!cheatVars)
  BY DetectorStep, SameDetector
<1>3. CDP!Spec => []CDP!CheatInv
  BY CDP!Detector, SameDetector
<1> QED BY <1>1, <1>2, <1>3, GuardedGateways, PTL DEF Spec, CDP!Spec

(***************************************************************************)
(* Only a delivery that is not decided yet is decided.                     *)
(***************************************************************************)
LEMMA DecisionStep ==
  ASSUME PcType, VerdictType, [Next]_vars
  PROVE  /\ PcType'
         /\ \A d \in Deliveries :
              /\ verdict'[d] = verdict[d] \/ pc[d] \in {"sent", "validate"}
              /\ pc'[d] \in {"sent", "validate"} =>
                   pc[d] \in {"sent", "validate"} /\ verdict'[d] = verdict[d]
              /\ pc[d] = "done" => pc'[d] = "done"
<1>1. ASSUME NEW d \in Deliveries, ReceiveUndecodable(d)
      PROVE  /\ PcType'
             /\ \A e \in Deliveries \ {d} : pc'[e] = pc[e] /\ verdict'[e] = verdict[e]
             /\ pc[d] = "sent" /\ pc'[d] = "emit"
  BY <1>1 DEF PcType, VerdictType, Awaiting, ReceiveUndecodable, Arrives, Decide, Goto
<1>2. ASSUME NEW d \in Deliveries, ReceiveDatagram(d) \/ ReceiveMessage(d)
      PROVE  /\ PcType'
             /\ \A e \in Deliveries \ {d} : pc'[e] = pc[e] /\ verdict'[e] = verdict[e]
             /\ pc[d] = "sent"
             /\ pc'[d] = "emit" \/ (pc'[d] = "validate" /\ verdict'[d] = verdict[d])
  BY <1>2 DEF PcType, VerdictType, Awaiting, ReceiveDatagram, ReceiveMessage, BeginValidate,
       Arrives, Decide, Goto
<1>3. ASSUME NEW d \in Deliveries, DatagramValidated(d) \/ MessageValidated(d)
      PROVE  /\ PcType'
             /\ \A e \in Deliveries \ {d} : pc'[e] = pc[e] /\ verdict'[e] = verdict[e]
             /\ pc[d] = "validate" /\ pc'[d] \in {"emit", "failed"}
  BY <1>3 DEF PcType, VerdictType, Awaiting, DatagramValidated, MessageValidated, Judge, Score,
       Decide, Goto
<1>4. ASSUME NEW d \in Deliveries, Emit(d) \/ Fail(d)
      PROVE  /\ PcType' /\ UNCHANGED verdict
             /\ \A e \in Deliveries \ {d} : pc'[e] = pc[e]
             /\ pc[d] \in {"emit", "validate"} /\ pc'[d] \in {"done", "failed"}
  BY <1>4 DEF PcType, Awaiting, Emit, Fail, Goto
<1>5. ASSUME NEW rep \in Replicas, Restart(rep)
      PROVE  /\ PcType' /\ UNCHANGED verdict
             /\ \A e \in Deliveries :
                  pc'[e] = pc[e] \/ (pc'[e] = "failed" /\ pc[e] \in {"emit", "sent"})
  BY <1>5 DEF PcType, Awaiting, Restart, CutOff
<1>6. CASE Tick \/ UNCHANGED vars
  BY <1>6 DEF PcType, Tick, vars
<1> QED BY <1>1, <1>2, <1>3, <1>4, <1>5, <1>6 DEF Next, Step

(***************************************************************************)
(* What a detector gains in a step comes from a delivery judged by it.     *)
(***************************************************************************)
LEMMA EvaluationStep ==
  ASSUME RG!GuardInv, SetsMatch, VerdictType, PcType, CDP!CheatInv, [Next]_vars
  PROVE  \/ UNCHANGED <<lastPayloads, signals>>
         \/ \E rep \in Replicas : CD!Forget(rep)
         \/ \E d \in Deliveries :
              /\ Info[d].via = "WS" /\ pc[d] = "validate" /\ Info[d].packet \in Messages
              /\ verdict'[d] \in Judged
              /\ CD!Evaluate(Info[d].replica, CD!Stamped(Info[d].packet))
<1>1. ASSUME NEW d \in Deliveries, MessageValidated(d), ~(UNCHANGED <<lastPayloads, signals>>)
      PROVE  /\ Info[d].via = "WS" /\ pc[d] = "validate" /\ Info[d].packet \in Messages
             /\ verdict'[d] \in Judged
             /\ CD!Evaluate(Info[d].replica, CD!Stamped(Info[d].packet))
  <2>1. Info[d].packet \in Messages
    BY <1>1, PendingPacket DEF MessageValidated, RG!Reply
  <2>2. CD!Evaluate(Info[d].replica, CD!Stamped(Info[d].packet))
    BY <1>1 DEF MessageValidated, Judge, SampleOf, cheatVars
  <2>3. ~CD!RaisesLate(Info[d].replica, SampleOf(d))
    BY <1>1, <2>2 DEF CD!Evaluate, SampleOf
  <2>4. \/ Decide(d, "cheat_detected") \/ Decide(d, "allowed") \/ Decide(d, "anomaly_blocked")
    BY <1>1, <2>3 DEF MessageValidated, Judge, Score, cheatVars
  <2> QED BY <1>1, <2>1, <2>2, <2>4 DEF MessageValidated, Decide, VerdictType, Judged
<1>2. \/ UNCHANGED <<lastPayloads, signals>>
      \/ \E d \in Deliveries : MessageValidated(d)
      \/ \E rep \in Replicas : CD!Forget(rep)
  BY DEF Next, Step, vars, cheatVars, ReceiveUndecodable, ReceiveDatagram, ReceiveMessage,
         DatagramValidated, Emit, Fail, Restart, Tick
<1> QED BY <1>1, <1>2

(***************************************************************************)
(* A detector that evaluates a sample remembers that sample and others it  *)
(* remembered before.                                                      *)
(***************************************************************************)
LEMMA PayloadsGrow ==
  ASSUME CDP!CheatInv, NEW rep \in Replicas, NEW p \in Messages,
         CD!Evaluate(rep, CD!Stamped(p)),
         NEW r \in Replicas, NEW c \in Players, NEW i \in 1 .. Len(lastPayloads'[r][c])
  PROVE  \/ r = rep /\ c = p.client /\ lastPayloads'[r][c][i] = CD!Stamped(p)
         \/ \E j \in 1 .. Len(lastPayloads[r][c]) : lastPayloads'[r][c][i] = lastPayloads[r][c][j]
<1>1. /\ lastPayloads \in [Replicas -> [Players -> Seq(CDP!Sample)]]
      /\ p.client \in Players /\ CD!Stamped(p) \in CDP!Sample
      /\ CD!Stamped(p).packet = p
  <2>1. CDP!CheatAssumption /\ CD!Stamped(p) = CDP!Stamped(p)
    BY SameDetector DEF CD!Stamped, CDP!Stamped
  <2> QED BY <2>1, CDP!StampedType DEF CDP!CheatInv, CDP!CheatTypeOK
<1> DEFINE s == CD!Stamped(p)
<1>2. \/ UNCHANGED lastPayloads
      \/ lastPayloads' = [lastPayloads EXCEPT ![rep][p.client] = CD!AppendBounded(@, s)]
  BY <1>1 DEF CD!Evaluate
<1>3. CASE lastPayloads'[r][c] = lastPayloads[r][c]
  BY <1>3
<1>4. CASE r = rep /\ c = p.client /\ lastPayloads'[r][c] = CD!AppendBounded(lastPayloads[r][c], s)
  <2> DEFINE h == lastPayloads[r][c]
  <2>1. h \in Seq(CDP!Sample) /\ s \in CDP!Sample
    BY <1>1
  <2> HIDE DEF s
  <2>2. CASE lastPayloads'[r][c] = Append(h, s)
    <3>1. i = Len(h) + 1 \/ i \in 1 .. Len(h)
      BY <2>1, <2>2
    <3>2. lastPayloads'[r][c][i] = IF i = Len(h) + 1 THEN s ELSE h[i]
      BY <2>1, <2>2, <3>1
    <3> QED BY <1>4, <3>1, <3>2 DEF s
  <2>3. CASE lastPayloads'[r][c] = Append(Tail(h), s) /\ h # <<>>
    <3>1. Tail(h) \in Seq(CDP!Sample) /\ Len(Tail(h)) = Len(h) - 1
      BY <2>1, <2>3
    <3>2. i = Len(h) \/ (i \in 1 .. Len(h) - 1 /\ i + 1 \in 1 .. Len(h))
      BY <2>1, <2>3, <3>1
    <3>3. lastPayloads'[r][c][i] = IF i = Len(h) THEN s ELSE h[i + 1]
      BY <2>1, <2>3, <3>1, <3>2
    <3> QED BY <1>4, <3>2, <3>3 DEF s
  <2>4. Len(h) < HistoryLength \/ h # <<>>
    BY <2>1, SameDetector DEF CDP!CheatAssumption
  <2> QED BY <1>4, <2>2, <2>3, <2>4 DEF CD!AppendBounded
<1> QED BY <1>1, <1>2, <1>3, <1>4

LEMMA AckStep ==
  ASSUME RG!GuardInv, SetsMatch, VerdictType, CDP!CheatInv, AckInv, [Next]_vars
  PROVE  AckInv'
<1>1. PcType /\ DecidedOnce /\ AckedWhenDone /\ SignalsJudged /\ PayloadsJudged
  BY DEF AckInv
<1>2. /\ PcType'
      /\ \A d \in Deliveries :
           /\ verdict'[d] = verdict[d] \/ pc[d] \in {"sent", "validate"}
           /\ pc'[d] \in {"sent", "validate"} =>
                pc[d] \in {"sent", "validate"} /\ verdict'[d] = verdict[d]
           /\ pc[d] = "done" => pc'[d] = "done"
  BY <1>1, DecisionStep
<1>3. \A d \in Deliveries : verdict[d] # "none" => verdict'[d] = verdict[d]
  BY <1>1, <1>2 DEF DecidedOnce
<1>4. DecidedOnce'
  BY <1>1, <1>2 DEF DecidedOnce
<1>5. \A d \in Deliveries : verdict[d] \in Judged => verdict'[d] \in Judged
  BY <1>3 DEF Judged
<1>6. AckedWhenDone'
  <2>1. ASSUME NEW d \in Deliveries, Emit(d)
        PROVE  AckedWhenDone'
    <3>1. /\ acked' \subseteq acked \cup {e \in {d} : Acks(e)} /\ UNCHANGED verdict
          /\ published' = published \cup {d} /\ pc'[d] = "done"
      BY <1>1, <2>1 DEF Emit, Goto, PcType
    <3> QED BY <1>1, <1>2, <2>1, <3>1 DEF AckedWhenDone, Acks
  <2>2. CASE UNCHANGED <<published, acked>>
    BY <1>1, <1>2, <1>3, <2>2 DEF AckedWhenDone
  <2>3. UNCHANGED <<published, acked>> \/ \E d \in Deliveries : Emit(d)
    BY DEF Next, Step, vars, ReceiveUndecodable, ReceiveDatagram, ReceiveMessage,
           DatagramValidated, MessageValidated, Fail, Restart, Tick
  <2> QED BY <2>1, <2>2, <2>3
<1>7. SignalsJudged' /\ PayloadsJudged'
  <2>1. CASE UNCHANGED <<lastPayloads, signals>>
    BY <1>1, <1>5, <2>1 DEF SignalsJudged, PayloadsJudged
  <2>2. ASSUME NEW rep \in Replicas, CD!Forget(rep)
        PROVE  SignalsJudged' /\ PayloadsJudged'
    <3>1. lastPayloads \in [Replicas -> [Players -> Seq(CDP!Sample)]]
      BY DEF CDP!CheatInv, CDP!CheatTypeOK
    <3>2. \A r \in Replicas, c \in Players :
            lastPayloads'[r][c] = lastPayloads[r][c] \/ lastPayloads'[r][c] = <<>>
      BY <2>2, <3>1 DEF CD!Forget
    <3>3. PayloadsJudged'
      BY <1>1, <1>5, <3>2 DEF PayloadsJudged
    <3>4. SignalsJudged'
      BY <1>1, <1>5, <2>2 DEF SignalsJudged, CD!Forget
    <3> QED BY <3>3, <3>4
  <2>3. ASSUME NEW d \in Deliveries, Info[d].via = "WS", Info[d].packet \in Messages,
               verdict'[d] \in Judged,
               CD!Evaluate(Info[d].replica, CD!Stamped(Info[d].packet))
        PROVE  SignalsJudged' /\ PayloadsJudged'
    <3>1. \A g \in signals' : g \in signals \/ g.packet = Info[d].packet
      BY <2>3 DEF CD!Evaluate, CD!Signal, CD!Stamped
    <3>2. SignalsJudged'
      BY <1>1, <1>5, <2>3, <3>1 DEF SignalsJudged
    <3>3. Info[d].replica \in Replicas
      BY PacketAssumption
    <3>4. ASSUME NEW r \in Replicas, NEW c \in Players, NEW i \in 1 .. Len(lastPayloads'[r][c])
          PROVE  \E e \in Deliveries :
                   /\ Info[e].via = "WS" /\ Info[e].replica = r /\ verdict'[e] \in Judged
                   /\ Info[e].packet.client = c
                   /\ lastPayloads'[r][c][i] = CD!Stamped(Info[e].packet)
      <4>1. CASE /\ r = Info[d].replica /\ c = Info[d].packet.client
                 /\ lastPayloads'[r][c][i] = CD!Stamped(Info[d].packet)
        BY <2>3, <4>1
      <4>2. ASSUME NEW j \in 1 .. Len(lastPayloads[r][c]),
                   lastPayloads'[r][c][i] = lastPayloads[r][c][j]
            PROVE  \E e \in Deliveries :
                     /\ Info[e].via = "WS" /\ Info[e].replica = r /\ verdict'[e] \in Judged
                     /\ Info[e].packet.client = c
                     /\ lastPayloads'[r][c][i] = CD!Stamped(Info[e].packet)
        BY <1>1, <1>5, <4>2 DEF PayloadsJudged
      <4> QED BY <2>3, <3>3, <4>1, <4>2, PayloadsGrow
    <3> QED BY <3>2, <3>4 DEF PayloadsJudged
  <2> QED BY <1>1, <2>1, <2>2, <2>3, EvaluationStep
<1> QED BY <1>2, <1>4, <1>6, <1>7 DEF AckInv

(***************************************************************************)
(* Nothing was judged, acked or accused yet.                               *)
(***************************************************************************)
LEMMA GatewaysInit ==
  ASSUME Init
  PROVE  VerdictInv /\ AckInv
<1>1. \A d \in Deliveries : verdict[d] = "none"
  BY DEF Init
<1>3. VerdictInv
  BY VerdictInit
<1>4. PcType
  BY DEF Init, PcType
<1>5. DecidedOnce /\ AckedWhenDone /\ SignalsJudged
  BY <1>1 DEF Init, CD!Init, DecidedOnce, AckedWhenDone, SignalsJudged
<1>6. PayloadsJudged
  <2>1. \A rep \in Replicas, c \in Players : lastPayloads[rep][c] = <<>>
    BY DEF Init, CD!Init
  <2> QED BY <2>1 DEF PayloadsJudged
<1> QED BY <1>3, <1>4, <1>5, <1>6 DEF AckInv

LEMMA AckedGateways == Spec => [](VerdictInv /\ AckInv)
<1>1. Init => VerdictInv /\ AckInv
  BY GatewaysInit
<1>2. /\ RG!GuardInv /\ SetsMatch /\ CDP!CheatInv
      /\ VerdictInv /\ AckInv /\ [Next]_vars
      => (VerdictInv /\ AckInv)'
  BY VerdictStep, AckStep DEF VerdictInv
<1> QED BY <1>1, <1>2, GuardedGateways, DetectingGateways, PTL DEF Spec

(***************************************************************************)
(* What a client was sent an ack for (udp_gateway.py:70) was published as  *)
(* allowed before, is acked once and accused by no cheat detector: its     *)
(* other deliveries stop at the guard, while it lets no packet pass again. *)
(***************************************************************************)
THEOREM AcksAreFinal == RG!NonceCoversWindow /\ Spec => []AcksStand
<1>1. OneVerdict /\ AckInv => AcksStand
  <2> SUFFICES ASSUME OneVerdict, AckInv, NEW d \in acked
               PROVE  /\ d \in published /\ verdict[d] = "allowed"
                      /\ \/ /\ \A e \in acked : Info[d].packet = Info[e].packet => d = e
                            /\ \A g \in signals : g.packet # Info[d].packet
                         \/ RG!Repeatable(Info[d].packet)
    BY DEF AcksStand
  <2>1. \A e \in acked : /\ e \in Deliveries /\ e \in published /\ verdict[e] = "allowed"
                         /\ verdict[e] \in Judged /\ Info[e].via = "UDP"
    BY DEF AckInv, AckedWhenDone, Judged
  <2> SUFFICES ASSUME ~RG!Repeatable(Info[d].packet)
               PROVE  /\ \A e \in acked : Info[d].packet = Info[e].packet => d = e
                      /\ \A g \in signals : g.packet # Info[d].packet
    BY <2>1
  <2>2. \A e \in acked : Info[d].packet = Info[e].packet => d = e
    BY <2>1 DEF OneVerdict
  <2>3. \A g \in signals : g.packet # Info[d].packet
    <3> SUFFICES ASSUME NEW g \in signals, g.packet = Info[d].packet
                 PROVE  FALSE
      OBVIOUS
    <3>1. PICK e \in Deliveries :
            Info[e].via = "WS" /\ verdict[e] \in Judged /\ Info[e].packet = g.packet
      BY DEF AckInv, SignalsJudged
    <3>2. d # e
      BY <2>1, <3>1
    <3> QED BY <2>1, <3>1, <3>2 DEF OneVerdict
  <2> QED BY <2>2, <2>3
<1> QED BY <1>1, AckedGateways, JudgedOnce, PTL

(***************************************************************************)
(* A player who does not repeat payloads within the interval is accused of *)
(* a macro (cheat_detector.py:59) only when an equal packet with a later   *)
(* timestamp was judged before: a negative interval.                       *)
(***************************************************************************)
THEOREM MacrosAreOvertakings == RG!NonceCoversWindow /\ Spec => MacrosWereOvertaken
<1> DEFINE Overtaken ==
      \A g \in signals' \ signals :
        g.type = "macro_bot_pattern" /\ SlowRepeater(g.packet.client) =>
          \E e \in Deliveries :
            /\ Info[e].via = "WS" /\ Info[e].replica = g.replica /\ verdict[e] \in Judged
            /\ Info[e].packet.client = g.packet.client /\ Info[e].packet.payload = g.packet.payload
            /\ RG!Timed(Info[e].packet) /\ Info[e].packet.ts > g.packet.ts
<1>1. ASSUME RG!GuardInv, SetsMatch, CDP!CheatInv, VerdictInv, OneVerdict', AckInv, [Next]_vars
      PROVE  Overtaken
  <2> SUFFICES ASSUME NEW g \in signals' \ signals, g.type = "macro_bot_pattern",
                      SlowRepeater(g.packet.client)
               PROVE  \E e \in Deliveries :
                        /\ Info[e].via = "WS" /\ Info[e].replica = g.replica
                        /\ verdict[e] \in Judged /\ Info[e].packet.client = g.packet.client
                        /\ Info[e].packet.payload = g.packet.payload
                        /\ RG!Timed(Info[e].packet) /\ Info[e].packet.ts > g.packet.ts
    OBVIOUS
  <2>1. PICK d \in Deliveries :
          /\ pc[d] = "validate" /\ Info[d].packet \in Messages /\ verdict'[d] \in Judged
          /\ CD!Evaluate(Info[d].replica, CD!Stamped(Info[d].packet))
    BY <1>1, EvaluationStep DEF CD!Forget, VerdictInv, AckInv
  <2> DEFINE p == Info[d].packet
             rep == Info[d].replica
  <2>2. /\ g.replica = rep /\ g.packet = p /\ CD!Repeating(rep, CD!Stamped(p))
    BY <2>1 DEF CD!Evaluate, CD!Signal, CD!Stamped
  <2>3. p.client \in Players /\ rep \in Replicas /\ p.ts \in Int \cup {NaN}
    BY <2>1, SameDetector, PacketAssumption DEF CDP!CheatAssumption
  <2>4. PICK i \in DOMAIN lastPayloads[rep][p.client] :
          CD!TooSoon(lastPayloads[rep][p.client][i], CD!Stamped(p))
    BY <2>2 DEF CD!Repeating, CD!Stamped
  <2>5. i \in 1 .. Len(lastPayloads[rep][p.client])
    <3>1. lastPayloads[rep][p.client] \in Seq(CDP!Sample)
      BY <1>1, <2>3 DEF CDP!CheatInv, CDP!CheatTypeOK
    <3> QED BY <2>4, <3>1
  <2>6. PICK e \in Deliveries :
          /\ Info[e].via = "WS" /\ Info[e].replica = rep /\ verdict[e] \in Judged
          /\ Info[e].packet.client = p.client
          /\ lastPayloads[rep][p.client][i] = CD!Stamped(Info[e].packet)
    BY <1>1, <2>3, <2>5 DEF AckInv, PayloadsJudged
  <2> DEFINE q == Info[e].packet
  <2>7. q.payload = p.payload /\ RG!Timed(p) /\ RG!Timed(q) /\ p.ts - q.ts < MinRepeat
    BY <2>4, <2>6 DEF CD!TooSoon, CD!Stamped, RG!Timed
  <2>8. q \in Messages
    BY <1>1, <2>6 DEF VerdictInv, JudgedWasAccepted
  <2>9. q # p
    <3>1. verdict[d] = "none"
      BY <1>1, <2>1 DEF AckInv, DecidedOnce
    <3>2. d # e /\ verdict'[e] = verdict[e]
      <4>1. pc[e] \notin {"sent", "validate"}
        BY <1>1, <2>6 DEF AckInv, DecidedOnce, Judged
      <4> QED BY <1>1, <2>6, <3>1, <4>1, DecisionStep DEF AckInv, VerdictInv, Judged
    <3>3. ~RG!Repeatable(p)'
      BY <2>7 DEF RG!Repeatable, RG!Timed
    <3> QED BY <1>1, <2>1, <2>6, <3>2, <3>3 DEF OneVerdict
  <2>10. p.ts \in Int /\ q.ts \in Int /\ MinRepeat \in Int
    BY <2>1, <2>7, <2>8, SameDetector DEF CDP!CheatAssumption, RG!Timed
  <2>11. p.ts - q.ts >= MinRepeat \/ q.ts - p.ts >= MinRepeat
    BY <2>1, <2>2, <2>6, <2>7, <2>8, <2>9 DEF SlowRepeater, RG!TimedMessages
  <2>12. q.ts > p.ts
    BY <2>7, <2>10, <2>11
  <2> QED BY <2>2, <2>6, <2>7, <2>12
<1>2. /\ RG!GuardInv /\ SetsMatch /\ CDP!CheatInv
      /\ VerdictInv /\ OneVerdict' /\ AckInv /\ [Next]_vars
      => [Overtaken]_vars
  BY <1>1
<1> HIDE DEF Overtaken
<1>3. [][Overtaken]_vars => MacrosWereOvertaken
  BY PTL DEF Overtaken, MacrosWereOvertaken
<1> QED BY <1>2, <1>3, AckedGateways, JudgedOnce, GuardedGateways, DetectingGateways, PTL DEF Spec

-----------------------------------------------------------------------------
(***************************************************************************)
(* SF counts as FiniteSets does.                                           *)
(***************************************************************************)
LEMMA SameCount == \A S : SF!Cardinality(S) = Cardinality(S)
BY DEF SF!Cardinality, Cardinality

(***************************************************************************)
(* Every nonempty set of naturals has a least element.                     *)
(***************************************************************************)
LEMMA Least ==
  ASSUME NEW T \in SUBSET Nat, T # {}
  PROVE  \E x \in T : \A y \in T : x <= y
<1> DEFINE R == {ss \in Nat \X Nat : ss[1] < ss[2]}
<1>1. IsWellFoundedOn(R, Nat)
  BY NatLessThanWellFounded DEF OpToRel
<1>2. \A x, y \in T : ~(<<y, x>> \in R) => x <= y
  OBVIOUS
<1> HIDE DEF R
<1>3. PICK x \in T : \A y \in T : ~(<<y, x>> \in R)
  BY <1>1, WFMin
<1> QED BY <1>2, <1>3

(***************************************************************************)
(* The popleft loop ends at the first event inside the window.             *)
(***************************************************************************)
LEMMA LoopEnds ==
  ASSUME NEW events \in Seq(SF!SessionEvent), clock \in Nat, FloodWindow \in Nat
  PROVE  LET n == SF!ExpiredFirst(events)
         IN  /\ n \in 0 .. Len(events)
             /\ \A i \in 1 .. n : clock - events[i].at > FloodWindow
             /\ n < Len(events) => clock - events[n + 1].at <= FloodWindow
<1> DEFINE Ends(n) == /\ \A i \in 1 .. n : clock - events[i].at > FloodWindow
                      /\ n < Len(events) => clock - events[n + 1].at <= FloodWindow
           T == {i \in 1 .. Len(events) : clock - events[i].at <= FloodWindow}
<1>1. \A i \in 1 .. Len(events) : events[i].at \in Nat
  <2>1. \A i \in 1 .. Len(events) : events[i] \in SF!SessionEvent
    OBVIOUS
  <2> QED BY <2>1 DEF SF!SessionEvent
<1>2. \E n \in 0 .. Len(events) : Ends(n)
  <2>1. CASE T = {}
    <3>1. Ends(Len(events))
      BY <1>1, <2>1
    <3> QED BY <3>1
  <2>2. CASE T # {}
    <3>1. PICK k \in T : \A i \in T : k <= i
      <4>1. T \in SUBSET Nat
        OBVIOUS
      <4> HIDE DEF T
      <4> QED BY <2>2, <4>1, Least
    <3>2. k - 1 \in 0 .. Len(events) /\ (k - 1) + 1 = k
      OBVIOUS
    <3>3. \A i \in 1 .. k - 1 : i \in 1 .. Len(events) /\ i \notin T
      BY <3>1, <3>2
    <3>4. Ends(k - 1)
      BY <1>1, <3>2, <3>3
    <3> QED BY <3>2, <3>4
  <2> QED BY <2>1, <2>2
<1> DEFINE least == CHOOSE n \in 0 .. Len(events) : Ends(n)
<1>3. SF!ExpiredFirst(events) = least
  BY DEF SF!ExpiredFirst
<1>4. least \in 0 .. Len(events) /\ Ends(least)
  <2> HIDE DEF Ends, T
  <2> QED BY <1>2, Zenon
<1> HIDE DEF least
<1> QED BY <1>3, <1>4

(***************************************************************************)
(* A deque in the order of time keeps the order and the events inside the  *)
(* window.                                                                 *)
(***************************************************************************)
Ordered(events) ==
  \A i, j \in 1 .. Len(events) :
    i <= j => events[i].at <= events[j].at /\ events[j].at <= clock

LEMMA KeptEvents ==
  ASSUME NEW events \in Seq(SF!SessionEvent), Ordered(events), clock \in Nat, FloodWindow \in Nat
  PROVE  /\ SF!Kept(events) \in Seq(SF!SessionEvent) /\ Ordered(SF!Kept(events))
         /\ \A i \in 1 .. Len(events) : clock - events[i].at <= FloodWindow =>
              \E j \in 1 .. Len(SF!Kept(events)) : SF!Kept(events)[j] = events[i]
<1> DEFINE n == SF!ExpiredFirst(events)
           k == SF!Kept(events)
<1>1. /\ n \in 0 .. Len(events)
      /\ \A i \in 1 .. n : clock - events[i].at > FloodWindow
  BY LoopEnds
<1>2. \A i \in 1 .. Len(events) : events[i] \in SF!SessionEvent /\ events[i].at \in Nat
  <2>1. \A i \in 1 .. Len(events) : events[i] \in SF!SessionEvent
    OBVIOUS
  <2> QED BY <2>1 DEF SF!SessionEvent
<1> HIDE DEF n
<1>3. k = SubSeq(events, n + 1, Len(events))
  BY DEF SF!Kept, n
<1>4. /\ k \in Seq(SF!SessionEvent) /\ Len(k) = Len(events) - n
      /\ \A i \in 1 .. Len(k) : k[i] = events[n + i]
  BY <1>1, <1>2, <1>3
<1> HIDE DEF k
<1>5. Ordered(k)
  <2> SUFFICES ASSUME NEW i \in 1 .. Len(k), NEW j \in 1 .. Len(k), i <= j
               PROVE  k[i].at <= k[j].at /\ k[j].at <= clock
    BY DEF Ordered
  <2>1. n + i \in 1 .. Len(events) /\ n + j \in 1 .. Len(events) /\ n + i <= n + j
    BY <1>1, <1>4
  <2>2. k[i] = events[n + i] /\ k[j] = events[n + j]
    BY <1>4
  <2> QED BY <2>1, <2>2 DEF Ordered
<1>6. ASSUME NEW i \in 1 .. Len(events), clock - events[i].at <= FloodWindow
      PROVE  \E j \in 1 .. Len(k) : k[j] = events[i]
  <2>1. i > n
    BY <1>1, <1>2, <1>6
  <2>2. i - n \in 1 .. Len(k) /\ k[i - n] = events[i]
    BY <1>1, <1>4, <2>1
  <2> QED BY <2>2
<1> QED BY <1>4, <1>5, <1>6 DEF k

(***************************************************************************)
(* The sessions of a deque are finitely many.                              *)
(***************************************************************************)
LEMMA SessionsFinite ==
  ASSUME NEW events \in Seq(SF!SessionEvent)
  PROVE  IsFiniteSet(SF!SessionsOf(events)) /\ Cardinality(SF!SessionsOf(events)) \in Nat
<1> DEFINE S == 1 .. Len(events)
           T == SF!SessionsOf(events)
           f == [i \in S |-> events[i].session]
<1>1. IsFiniteSet(S)
  BY FS_Interval
<1>2. DOMAIN events = S
  OBVIOUS
<1>3. f \in Surjection(S, T)
  BY <1>2 DEF Surjection, SF!SessionsOf
<1> HIDE DEF f, T
<1>4. IsFiniteSet(T)
  BY <1>1, <1>3, FS_Surjection
<1> QED BY <1>4, FS_CardinalityType DEF T

-----------------------------------------------------------------------------
(***************************************************************************)
(* What was let pass within the window is still in the deque, so the check *)
(* of the latest registration counts it.                                   *)
(***************************************************************************)
PassedInDeque ==
  \A rep \in Replicas, a \in Addresses : \A p \in passed[rep][a] :
    /\ p.at <= clock
    /\ clock - p.at <= FloodWindow =>
         \E i \in 1 .. Len(sessionEvents[rep][a]) : sessionEvents[rep][a][i] = p

FloodInv == SF!FloodTypeOK /\ PassedInDeque /\ SF!SessionsBounded

(***************************************************************************)
(* The types in terms of Ordered.                                          *)
(***************************************************************************)
LEMMA FloodTypes ==
  SF!FloodTypeOK <=>
    /\ clock \in Nat
    /\ sessionEvents \in [Replicas -> [Addresses -> Seq(SF!SessionEvent)]]
    /\ \A rep \in Replicas, a \in Addresses : Ordered(sessionEvents[rep][a])
    /\ passed \in [Replicas -> [Addresses -> SUBSET SF!SessionEvent]]
<1>1. ASSUME sessionEvents \in [Replicas -> [Addresses -> Seq(SF!SessionEvent)]],
             NEW rep \in Replicas, NEW a \in Addresses
      PROVE  DOMAIN sessionEvents[rep][a] = 1 .. Len(sessionEvents[rep][a])
  <2>1. sessionEvents[rep][a] \in Seq(SF!SessionEvent)
    BY <1>1
  <2> QED BY <2>1
<1> QED BY <1>1 DEF SF!FloodTypeOK, Ordered

(***************************************************************************)
(* register_and_check keeps the invariant: what passes is counted with     *)
(* everything that passed within the window before it.                     *)
(***************************************************************************)
LEMMA RegisterStep ==
  ASSUME SF!FloodAssumption, FloodInv, NEW rep \in Replicas, NEW a \in Addresses,
         NEW s \in Sessions, SF!Register(rep, a, s)
  PROVE  FloodInv'
<1> DEFINE new == [at |-> clock, session |-> s]
           h == sessionEvents[rep][a]
           all == Append(h, new)
           k == SF!Kept(all)
<1>1. /\ clock \in Nat /\ FloodWindow \in Nat /\ MaxNewSessions \in Nat
      /\ sessionEvents \in [Replicas -> [Addresses -> Seq(SF!SessionEvent)]]
      /\ \A r \in Replicas, b \in Addresses : Ordered(sessionEvents[r][b])
      /\ passed \in [Replicas -> [Addresses -> SUBSET SF!SessionEvent]]
      /\ PassedInDeque /\ SF!SessionsBounded
  BY FloodTypes DEF FloodInv, SF!FloodAssumption
<1>2. h \in Seq(SF!SessionEvent) /\ Ordered(h) /\ new \in SF!SessionEvent
  BY <1>1 DEF SF!SessionEvent
<1>3. clock' = clock
  BY DEF SF!Register
<1>4. new.at = clock /\ new.session = s
  OBVIOUS
<1> HIDE DEF new, h
<1>5. /\ all \in Seq(SF!SessionEvent) /\ Len(all) = Len(h) + 1
      /\ \A i \in 1 .. Len(h) : all[i] = h[i]
      /\ all[Len(h) + 1] = new
  BY <1>2
<1> HIDE DEF all
<1>6. Ordered(all)
  <2> SUFFICES ASSUME NEW i \in 1 .. Len(all), NEW j \in 1 .. Len(all), i <= j
               PROVE  all[i].at <= all[j].at /\ all[j].at <= clock
    BY DEF Ordered
  <2>1. CASE j \in 1 .. Len(h)
    BY <1>2, <1>5, <2>1 DEF Ordered
  <2>2. CASE i \in 1 .. Len(h) /\ j = Len(h) + 1
    <3>1. all[i] = h[i] /\ all[j] = new
      BY <1>5, <2>2
    <3>2. h[i].at <= clock
      BY <1>2, <2>2 DEF Ordered
    <3> QED BY <1>1, <1>4, <3>1, <3>2
  <2>3. CASE i = Len(h) + 1 /\ j = Len(h) + 1
    BY <1>1, <1>4, <1>5, <2>3
  <2> QED BY <1>2, <1>5, <2>1, <2>2, <2>3
<1>7. /\ k \in Seq(SF!SessionEvent) /\ Ordered(k)
      /\ \A i \in 1 .. Len(all) : clock - all[i].at <= FloodWindow =>
           \E j \in 1 .. Len(k) : k[j] = all[i]
  BY <1>1, <1>5, <1>6, KeptEvents
<1>8. SF!Registered(rep, a, s) = k
  BY DEF SF!Registered, all, h, new
<1> HIDE DEF k
<1>9. /\ sessionEvents' \in [Replicas -> [Addresses -> Seq(SF!SessionEvent)]]
      /\ \A r \in Replicas, b \in Addresses :
           sessionEvents'[r][b] = IF r = rep /\ b = a THEN k ELSE sessionEvents[r][b]
  <2>1. sessionEvents' = [sessionEvents EXCEPT ![rep][a] = k]
    BY <1>8 DEF SF!Register
  <2> QED BY <1>1, <1>7, <2>1, CDP!NestedExcept
<1> DEFINE lets == ~SF!Floods(rep, a, s)
<1>10. /\ passed' \in [Replicas -> [Addresses -> SUBSET SF!SessionEvent]]
       /\ \A r \in Replicas, b \in Addresses :
            passed'[r][b] = IF r = rep /\ b = a /\ lets
                            THEN passed[r][b] \cup {new} ELSE passed[r][b]
  <2>1. CASE lets
    <3>1. passed' = [passed EXCEPT ![rep][a] = passed[rep][a] \cup {new}]
      BY <2>1 DEF SF!Register, new
    <3>2. passed[rep][a] \cup {new} \in SUBSET SF!SessionEvent
      BY <1>1, <1>2
    <3> QED BY <1>1, <2>1, <3>1, <3>2, CDP!NestedExcept
  <2>2. CASE ~lets
    BY <1>1, <2>2 DEF SF!Register
  <2> QED BY <2>1, <2>2
<1>11. lets => Cardinality(SF!SessionsOf(k)) <= MaxNewSessions
  <2>1. Cardinality(SF!SessionsOf(k)) \in Nat
    BY <1>7, SessionsFinite
  <2>2. lets => ~(Cardinality(SF!SessionsOf(k)) > MaxNewSessions)
    BY <1>8, SameCount DEF SF!Floods
  <2> HIDE DEF lets
  <2> QED BY <1>1, <2>1, <2>2
<1> HIDE DEF lets
<1>12. SF!FloodTypeOK'
  <2>1. ASSUME NEW r \in Replicas, NEW b \in Addresses
        PROVE  /\ DOMAIN sessionEvents'[r][b] = 1 .. Len(sessionEvents'[r][b])
               /\ Ordered(sessionEvents'[r][b])
    <3>1. sessionEvents'[r][b] \in Seq(SF!SessionEvent)
      BY <1>9
    <3>2. Ordered(sessionEvents'[r][b])
      BY <1>1, <1>7, <1>9
    <3> QED BY <3>1, <3>2
  <2> QED BY <1>1, <1>3, <1>9, <1>10, <2>1 DEF SF!FloodTypeOK, Ordered
<1>13. ASSUME NEW p \in passed[rep][a] \cup {new}
       PROVE  /\ p.at <= clock
              /\ clock - p.at <= FloodWindow => \E j \in 1 .. Len(k) : k[j] = p
  <2>1. CASE p = new
    <3>1. Len(h) + 1 \in 1 .. Len(all)
      BY <1>2, <1>5
    <3>2. clock - new.at <= FloodWindow /\ new.at <= clock
      BY <1>1, <1>4
    <3> QED BY <1>5, <1>7, <2>1, <3>1, <3>2
  <2>2. CASE p \in passed[rep][a]
    <3>1. p.at <= clock
      BY <1>1, <2>2 DEF PassedInDeque
    <3>2. ASSUME clock - p.at <= FloodWindow
          PROVE  \E j \in 1 .. Len(k) : k[j] = p
      <4>1. PICK i \in 1 .. Len(h) : h[i] = p
        BY <1>1, <2>2, <3>2 DEF PassedInDeque, h
      <4>2. i \in 1 .. Len(all) /\ all[i] = p
        BY <1>2, <1>5, <4>1
      <4> QED BY <1>7, <3>2, <4>2
    <3> QED BY <3>1, <3>2
  <2> QED BY <2>1, <2>2
<1>14. PassedInDeque'
  <2> SUFFICES ASSUME NEW r \in Replicas, NEW b \in Addresses, NEW p \in passed'[r][b]
               PROVE  /\ p.at <= clock
                      /\ clock - p.at <= FloodWindow =>
                           \E i \in 1 .. Len(sessionEvents'[r][b]) : sessionEvents'[r][b][i] = p
    BY <1>3 DEF PassedInDeque
  <2>1. CASE r = rep /\ b = a
    BY <1>9, <1>10, <1>13, <2>1
  <2>2. CASE ~(r = rep /\ b = a)
    <3>1. passed'[r][b] = passed[r][b] /\ sessionEvents'[r][b] = sessionEvents[r][b]
      BY <1>9, <1>10, <2>2
    <3>2. p \in passed[r][b]
      BY <3>1
    <3> QED BY <1>1, <3>1, <3>2 DEF PassedInDeque
  <2> QED BY <2>1, <2>2
<1> DEFINE Within(ps, last) == {q \in ps : last.at - FloodWindow <= q.at /\ q.at <= last.at}
           Count(ps, last) == Cardinality({p.session : p \in Within(ps, last)})
<1>15. \A r \in Replicas, b \in Addresses : \A last \in passed[r][b] :
         Count(passed[r][b], last) <= MaxNewSessions
  BY <1>1, SameCount, Zenon DEF SF!SessionsBounded
<1>16. ASSUME NEW last \in passed[rep][a] \cup {new}, lets
       PROVE  Count(passed[rep][a] \cup {new}, last) <= MaxNewSessions
  <2>0. /\ last \in SF!SessionEvent /\ last.at \in Nat /\ last.at <= clock
        /\ \A q \in passed[rep][a] : q.at \in Nat
    <3>1. last \in SF!SessionEvent /\ \A q \in passed[rep][a] : q \in SF!SessionEvent
      BY <1>1, <1>2
    <3> QED BY <1>13, <3>1 DEF SF!SessionEvent
  <2>1. CASE last.at = clock
    <3> DEFINE W == {p.session : p \in Within(passed[rep][a] \cup {new}, last)}
    <3>1. W \subseteq SF!SessionsOf(k)
      <4> SUFFICES ASSUME NEW p \in Within(passed[rep][a] \cup {new}, last)
                   PROVE  p.session \in SF!SessionsOf(k)
        OBVIOUS
      <4>1. clock - p.at <= FloodWindow
        BY <1>1, <1>4, <2>0, <2>1
      <4>2. PICK j \in 1 .. Len(k) : k[j] = p
        BY <1>13, <4>1
      <4>3. DOMAIN k = 1 .. Len(k)
        BY <1>7
      <4> QED BY <4>2, <4>3 DEF SF!SessionsOf
    <3>2. IsFiniteSet(SF!SessionsOf(k)) /\ Cardinality(SF!SessionsOf(k)) \in Nat
      BY <1>7, SessionsFinite
    <3> HIDE DEF W
    <3>3. Cardinality(W) \in Nat /\ Cardinality(W) <= Cardinality(SF!SessionsOf(k))
      BY <3>1, <3>2, FS_Subset, FS_CardinalityType
    <3>4. Cardinality(W) <= MaxNewSessions
      BY <1>1, <1>11, <1>16, <3>2, <3>3
    <3> QED BY <3>4 DEF W
  <2>2. CASE last.at # clock
    <3>1. last \in passed[rep][a]
      BY <1>4, <2>2
    <3>2. Within(passed[rep][a] \cup {new}, last) = Within(passed[rep][a], last)
      BY <1>1, <1>4, <2>0, <2>2
    <3> QED BY <1>15, <3>1, <3>2
  <2> QED BY <2>1, <2>2
<1>17. \A r \in Replicas, b \in Addresses : \A last \in passed'[r][b] :
         Count(passed'[r][b], last) <= MaxNewSessions
  <2> HIDE DEF Count, Within
  <2> QED BY <1>10, <1>15, <1>16
<1>18. SF!SessionsBounded'
  BY <1>3, <1>17, SameCount, Zenon DEF SF!SessionsBounded
<1> QED BY <1>12, <1>14, <1>18 DEF FloodInv

(***************************************************************************)
(* The replica starts again with nothing registered and nothing passed.    *)
(***************************************************************************)
LEMMA ForgetStep ==
  ASSUME FloodInv, NEW rep \in Replicas, SF!ForgetSessions(rep), UNCHANGED clock
  PROVE  FloodInv'
<1>1. /\ sessionEvents \in [Replicas -> [Addresses -> Seq(SF!SessionEvent)]]
      /\ passed \in [Replicas -> [Addresses -> SUBSET SF!SessionEvent]]
  BY DEF FloodInv, SF!FloodTypeOK
<1>2. \A r \in Replicas, a \in Addresses :
        /\ sessionEvents'[r][a] = IF r = rep THEN <<>> ELSE sessionEvents[r][a]
        /\ passed'[r][a] = IF r = rep THEN {} ELSE passed[r][a]
  BY <1>1 DEF SF!ForgetSessions
<1>3. SF!FloodTypeOK'
  <2>1. /\ sessionEvents' \in [Replicas -> [Addresses -> Seq(SF!SessionEvent)]]
        /\ passed' \in [Replicas -> [Addresses -> SUBSET SF!SessionEvent]]
    BY <1>1 DEF SF!ForgetSessions
  <2>2. DOMAIN <<>> = {}
    OBVIOUS
  <2> QED BY <1>2, <2>1, <2>2 DEF FloodInv, SF!FloodTypeOK
<1>4. PassedInDeque'
  BY <1>2 DEF FloodInv, PassedInDeque
<1>5. SF!SessionsBounded'
  BY <1>2 DEF FloodInv, SF!SessionsBounded
<1> QED BY <1>3, <1>4, <1>5 DEF FloodInv

(***************************************************************************)
(* As time passes, events only leave the window.                           *)
(***************************************************************************)
LEMMA LaterStep ==
  ASSUME FloodInv, FloodWindow \in Nat, clock' \in Nat, clock' >= clock, UNCHANGED floodVars
  PROVE  FloodInv'
<1>1. SF!FloodTypeOK'
  <2> SUFFICES ASSUME NEW rep \in Replicas, NEW a \in Addresses,
                      NEW i \in DOMAIN sessionEvents[rep][a], NEW j \in DOMAIN sessionEvents[rep][a],
                      i <= j
               PROVE  /\ sessionEvents[rep][a][i].at <= sessionEvents[rep][a][j].at
                      /\ sessionEvents[rep][a][j].at <= clock'
    BY DEF FloodInv, SF!FloodTypeOK, floodVars
  <2>1. /\ sessionEvents[rep][a][i].at <= sessionEvents[rep][a][j].at
        /\ sessionEvents[rep][a][j].at <= clock
    BY DEF FloodInv, SF!FloodTypeOK
  <2>2. sessionEvents[rep][a][j].at \in Nat /\ clock \in Nat
    <3>1. sessionEvents[rep][a] \in Seq(SF!SessionEvent) /\ clock \in Nat
      BY DEF FloodInv, SF!FloodTypeOK
    <3>2. sessionEvents[rep][a][j] \in SF!SessionEvent
      BY <3>1
    <3> QED BY <3>1, <3>2 DEF SF!SessionEvent
  <2> QED BY <2>1, <2>2
<1>2. PassedInDeque'
  <2> SUFFICES ASSUME NEW rep \in Replicas, NEW a \in Addresses, NEW p \in passed[rep][a]
               PROVE  /\ p.at <= clock'
                      /\ clock' - p.at <= FloodWindow =>
                           \E i \in 1 .. Len(sessionEvents[rep][a]) : sessionEvents[rep][a][i] = p
    BY DEF PassedInDeque, floodVars
  <2>1. p.at \in Nat /\ clock \in Nat
    <3>1. p \in SF!SessionEvent /\ clock \in Nat
      BY DEF FloodInv, SF!FloodTypeOK
    <3> QED BY <3>1 DEF SF!SessionEvent
  <2>2. /\ p.at <= clock
        /\ clock - p.at <= FloodWindow =>
             \E i \in 1 .. Len(sessionEvents[rep][a]) : sessionEvents[rep][a][i] = p
    BY DEF FloodInv, PassedInDeque
  <2> QED BY <2>1, <2>2
<1>3. SF!SessionsBounded'
  BY DEF FloodInv, SF!SessionsBounded, floodVars
<1> QED BY <1>1, <1>2, <1>3 DEF FloodInv

(***************************************************************************)
(* Every step of the gateways registers a datagram, or forgets a replica's *)
(* sessions, or lets time pass, or leaves the windows alone.               *)
(***************************************************************************)
LEMMA FloodStep ==
  ASSUME RG!GuardInv, FloodInv, [Next]_vars
  PROVE  FloodInv'
<1>1. SF!FloodAssumption /\ FloodWindow \in Nat
  BY PacketAssumption DEF SF!FloodAssumption
<1>2. ASSUME NEW d \in Deliveries, ReceiveDatagram(d)
      PROVE  FloodInv'
  <2>1. Info[d].replica \in Replicas /\ Info[d].address \in Addresses /\ Info[d].session \in Sessions
    BY <1>2, PacketAssumption DEF ReceiveDatagram
  <2>2. SF!Register(Info[d].replica, Info[d].address, Info[d].session)
    BY <1>2 DEF ReceiveDatagram
  <2> QED BY <1>1, <2>1, <2>2, RegisterStep
<1>3. ASSUME NEW rep \in Replicas, Restart(rep)
      PROVE  FloodInv'
  BY <1>3, ForgetStep DEF Restart
<1>4. CASE Tick
  <2>1. clock \in Nat /\ clock' = clock + 1
    BY <1>4 DEF Tick, RG!Tick, RG!GuardInv, RG!TypeOK
  <2> QED BY <1>1, <1>4, <2>1, LaterStep DEF Tick
<1>5. CASE UNCHANGED <<clock, floodVars>>
  <2>1. clock \in Nat /\ clock' \in Nat /\ clock' >= clock
    BY <1>5 DEF RG!GuardInv, RG!TypeOK
  <2> QED BY <1>1, <1>5, <2>1, LaterStep
<1>6. \/ UNCHANGED <<clock, floodVars>>
      \/ \E d \in Deliveries : ReceiveDatagram(d)
      \/ \E rep \in Replicas : Restart(rep)
      \/ Tick
  BY DEF Next, Step, vars, floodVars, ReceiveUndecodable, ReceiveMessage, BeginValidate,
         RG!Validate, DatagramValidated, MessageValidated, RG!Reply, Emit, Fail, RG!ReplyLost,
         RG!Drop
<1> QED BY <1>2, <1>3, <1>4, <1>5, <1>6

LEMMA WindowedGateways == Spec => []FloodInv
<1>1. Init => FloodInv
  <2> SUFFICES ASSUME Init PROVE FloodInv
    OBVIOUS
  <2>1. \A rep \in Replicas, a \in Addresses : sessionEvents[rep][a] = <<>> /\ passed[rep][a] = {}
    BY DEF Init, SF!FloodInit
  <2>2. SF!FloodTypeOK
    <3>1. DOMAIN <<>> = {}
      OBVIOUS
    <3> QED BY <2>1, <3>1 DEF Init, RG!Init, SF!FloodInit, SF!FloodTypeOK
  <2> QED BY <2>1, <2>2 DEF FloodInv, PassedInDeque, SF!SessionsBounded
<1>2. RG!GuardInv /\ SetsMatch /\ FloodInv /\ [Next]_vars => FloodInv'
  BY FloodStep
<1> QED BY <1>1, <1>2, GuardedGateways, PTL DEF Spec

(***************************************************************************)
(* A replica lets at most MaxNewSessions sessions of an address pass in    *)
(* any window (udp_gateway.py:22), whenever they are registered.           *)
(***************************************************************************)
THEOREM SessionsAreBounded == Spec => []SessionsBounded
<1>1. FloodInv => SessionsBounded
  BY DEF FloodInv, SessionsBounded
<1> QED BY <1>1, WindowedGateways, PTL

-----------------------------------------------------------------------------
(***************************************************************************)
(* Types: those of the shared components, and of what the gateways add.    *)
(***************************************************************************)
OutType ==
  PcType /\ VerdictType /\ published \subseteq Deliveries /\ acked \subseteq Deliveries

LEMMA OutStep ==
  ASSUME OutType, [Next]_vars
  PROVE  OutType'
<1>1. PcType' /\ VerdictType'
  BY DecisionStep, VerdictEffect DEF OutType
<1>2. ASSUME NEW d \in Deliveries, Emit(d)
      PROVE  published' \subseteq Deliveries /\ acked' \subseteq Deliveries
  BY <1>2 DEF Emit, OutType
<1>3. UNCHANGED <<published, acked>> \/ \E d \in Deliveries : Emit(d)
  BY DEF Next, Step, vars, ReceiveUndecodable, ReceiveDatagram, ReceiveMessage,
         DatagramValidated, MessageValidated, Fail, Restart, Tick
<1> QED BY <1>1, <1>2, <1>3 DEF OutType

(***************************************************************************)
(* Type correctness of the gateways and of the components they share.      *)
(***************************************************************************)
THEOREM TypeCorrect == Spec => []TypeOK
<1>1. Init => OutType
  BY GatewaysInit DEF Init, OutType, VerdictInv, AckInv
<1>2. OutType /\ [Next]_vars => OutType'
  BY OutStep
<1>3. RG!GuardInv /\ CDP!CheatInv /\ FloodInv /\ OutType => TypeOK
  <2> SUFFICES ASSUME RG!GuardInv, CDP!CheatInv, FloodInv, OutType
               PROVE  TypeOK
    OBVIOUS
  <2>1. RG!TypeOK
    BY DEF RG!GuardInv
  <2>2. CD!CheatTypeOK
    BY DEF CDP!CheatInv, CDP!CheatTypeOK, CD!CheatTypeOK, CDP!Sample, CD!Sample
  <2>3. SF!FloodTypeOK
    BY DEF FloodInv
  <2> QED BY <2>1, <2>2, <2>3 DEF TypeOK, OutType, PcType, VerdictType
<1> QED BY <1>1, <1>2, <1>3, GuardedGateways, DetectingGateways, WindowedGateways, PTL DEF Spec
=============================================================================
