-------------------------- MODULE CheatDetectorProofs --------------------------
(***************************************************************************)
(* Proofs about the cheat detector, for all players, packets, orders of    *)
(* arrival and values of the constants that satisfy CheatAssumption.       *)
(***************************************************************************)
EXTENDS CheatDetector, TLAPS

(***************************************************************************)
(* One element of a function of functions changes.                         *)
(***************************************************************************)
LEMMA NestedExcept ==
  ASSUME NEW R, NEW P, NEW S, NEW f \in [R -> [P -> S]], NEW a \in R, NEW b \in P, NEW v \in S,
         NEW g, g = [f EXCEPT ![a][b] = v]
  PROVE  /\ g \in [R -> [P -> S]]
         /\ \A r \in R, q \in P : g[r][q] = IF r = a /\ q = b THEN v ELSE f[r][q]
<1>1. f[a] \in [P -> S] /\ g = [f EXCEPT ![a] = [f[a] EXCEPT ![b] = v]]
  OBVIOUS
<1>2. [f[a] EXCEPT ![b] = v] \in [P -> S]
  BY <1>1
<1> QED BY <1>1, <1>2

(***************************************************************************)
(* A packet is a sample at its own timestamp.                              *)
(***************************************************************************)
LEMMA StampedType ==
  ASSUME CheatAssumption, NEW p \in Packets
  PROVE  /\ Stamped(p) \in Sample /\ Stamped(p) # Nowhere
         /\ Stamped(p).packet = p /\ Stamped(p).at = p.ts
         /\ p.client \in Players /\ p.ts \in Times
BY DEF CheatAssumption, Stamped, Sample

(***************************************************************************)
(* The deque keeps its type and its bound.                                 *)
(***************************************************************************)
LEMMA AppendBoundedType ==
  ASSUME CheatAssumption, NEW h \in Seq(Sample), Len(h) <= HistoryLength, NEW s \in Sample
  PROVE  AppendBounded(h, s) \in Seq(Sample) /\ Len(AppendBounded(h, s)) <= HistoryLength
<1>1. CASE Len(h) < HistoryLength
  BY <1>1 DEF AppendBounded, CheatAssumption
<1>2. CASE ~(Len(h) < HistoryLength)
  <2>1. h # <<>> /\ Len(h) = HistoryLength
    BY <1>2 DEF CheatAssumption
  <2>2. Tail(h) \in Seq(Sample) /\ Len(Tail(h)) = Len(h) - 1
    BY <2>1
  <2>3. AppendBounded(h, s) = Append(Tail(h), s)
    BY <1>2 DEF AppendBounded
  <2> QED BY <2>1, <2>2, <2>3 DEF CheatAssumption
<1> QED BY <1>1, <1>2

-----------------------------------------------------------------------------
(***************************************************************************)
(* No detector has seen anything yet.                                      *)
(***************************************************************************)
LEMMA CheatInit ==
  ASSUME CheatAssumption, Init
  PROVE  CheatInv
<1>1. CheatTypeOK
  <2>1. \A rep \in Replicas, c \in Players :
          lastPayloads[rep][c] = <<>> /\ Len(lastPayloads[rep][c]) <= HistoryLength
    BY DEF Init, CheatAssumption
  <2> QED BY <2>1 DEF Init, CheatTypeOK
<1> QED BY <1>1 DEF Init, CheatInv, LastIsOwn, HonestMoversNotAccused

(***************************************************************************)
(* evaluate() keeps the types: one element of each function changes.       *)
(***************************************************************************)
LEMMA EvaluateTypes ==
  ASSUME CheatAssumption, CheatTypeOK, NEW rep \in Replicas, NEW p \in Packets,
         Evaluate(rep, Stamped(p))
  PROVE  CheatTypeOK'
<1> DEFINE s == Stamped(p)
           c == p.client
           h == lastPayloads[rep][c]
<1>1. s \in Sample /\ s.packet = p /\ s.at = p.ts /\ c \in Players /\ p.ts \in Times
  BY StampedType
<1>2. h \in Seq(Sample) /\ Len(h) <= HistoryLength
  BY <1>1 DEF CheatTypeOK
<1>3. AppendBounded(h, s) \in Seq(Sample) /\ Len(AppendBounded(h, s)) <= HistoryLength
  BY <1>1, <1>2, AppendBoundedType
<1>4. /\ lastPosition' = lastPosition \/ lastPosition' = [lastPosition EXCEPT ![rep][c] = s]
      /\ \/ lastPayloads' = lastPayloads
         \/ lastPayloads' = [lastPayloads EXCEPT ![rep][c] = AppendBounded(h, s)]
  BY <1>1 DEF Evaluate, CheatTypeOK
<1>5. signals' \subseteq [replica : Replicas, packet : Packets, at : Times,
                          type : {"speed_hack", "macro_bot_pattern"}]
  BY <1>1 DEF Evaluate, Signal, CheatTypeOK
<1> DEFINE n == AppendBounded(h, s)
<1>6. /\ rep \in Replicas /\ c \in Players /\ s \in Sample
      /\ n \in Seq(Sample) /\ Len(n) <= HistoryLength
      /\ lastPosition \in [Replicas -> [Players -> Sample \cup {Nowhere}]]
      /\ lastPayloads \in [Replicas -> [Players -> Seq(Sample)]]
      /\ \A r \in Replicas, q \in Players : Len(lastPayloads[r][q]) <= HistoryLength
      /\ lastPosition' = lastPosition \/ lastPosition' = [lastPosition EXCEPT ![rep][c] = s]
      /\ lastPayloads' = lastPayloads \/ lastPayloads' = [lastPayloads EXCEPT ![rep][c] = n]
  BY <1>1, <1>3, <1>4 DEF CheatTypeOK
<1> HIDE DEF s, c, h, n
<1>7. /\ lastPosition' \in [Replicas -> [Players -> Sample \cup {Nowhere}]]
      /\ lastPayloads' \in [Replicas -> [Players -> Seq(Sample)]]
  <2>1. s \in Sample \cup {Nowhere}
    BY <1>6
  <2>2. lastPosition' \in [Replicas -> [Players -> Sample \cup {Nowhere}]]
    <3>1. CASE lastPosition' = lastPosition
      BY <1>6, <3>1
    <3>2. CASE lastPosition' = [lastPosition EXCEPT ![rep][c] = s]
      BY <1>6, <2>1, <3>2, NestedExcept, Zenon
    <3> QED BY <1>6, <3>1, <3>2
  <2>3. lastPayloads' \in [Replicas -> [Players -> Seq(Sample)]]
    <3>1. CASE lastPayloads' = lastPayloads
      BY <1>6, <3>1
    <3>2. CASE lastPayloads' = [lastPayloads EXCEPT ![rep][c] = n]
      BY <1>6, <3>2, NestedExcept, Zenon
    <3> QED BY <1>6, <3>1, <3>2
  <2> QED BY <2>2, <2>3
<1>8. ASSUME NEW r \in Replicas, NEW q \in Players
      PROVE  lastPayloads'[r][q] = lastPayloads[r][q] \/ lastPayloads'[r][q] = n
  BY <1>6, NestedExcept
<1>9. \A r \in Replicas, q \in Players : Len(lastPayloads'[r][q]) <= HistoryLength
  BY <1>6, <1>8
<1> QED BY <1>5, <1>7, <1>9 DEF CheatTypeOK

(***************************************************************************)
(* A packet that is too fast for the last position is too fast for a       *)
(* packet of the same player: the player is no honest mover.               *)
(***************************************************************************)
LEMMA SpeedingIsDishonest ==
  ASSUME CheatAssumption, CheatTypeOK, LastIsOwn,
         NEW rep \in Replicas, NEW p \in Packets, ~Raises(Stamped(p)),
         Speeding(rep, Stamped(p))
  PROVE  ~HonestMover(p.client)
<1>1. Stamped(p).packet = p /\ p.client \in Players
  BY StampedType
<1>2. /\ p.moves /\ lastPosition[rep][p.client] # Nowhere
      /\ SpeedChecked(lastPosition[rep][p.client], Stamped(p))
      /\ TooFast(lastPosition[rep][p.client], Stamped(p))
  BY <1>1 DEF Speeding
<1>3. p.payload # Garbled
  BY <1>1, <1>2 DEF Raises
<1>4. PICK q \in Packets : /\ lastPosition[rep][p.client] = Stamped(q)
                           /\ q.client = p.client /\ q.moves /\ q.payload # Garbled
  BY <1>1, <1>2 DEF LastIsOwn
<1>5. SpeedChecked(Stamped(q), Stamped(p)) /\ TooFast(Stamped(q), Stamped(p))
  BY <1>2, <1>4
<1> QED BY <1>2, <1>3, <1>4, <1>5 DEF HonestMover

(***************************************************************************)
(* evaluate() preserves the invariant.                                     *)
(***************************************************************************)
LEMMA EvaluateInv ==
  ASSUME CheatAssumption, CheatInv, NEW rep \in Replicas, NEW p \in Packets,
         ~Raises(Stamped(p)), Evaluate(rep, Stamped(p))
  PROVE  CheatInv'
<1>1. CheatTypeOK /\ LastIsOwn /\ HonestMoversNotAccused
  BY DEF CheatInv
<1>2. Stamped(p).packet = p /\ p.client \in Players
  BY StampedType
<1>3. CheatTypeOK'
  BY <1>1, EvaluateTypes
<1>4. LastIsOwn'
  <2> SUFFICES ASSUME NEW r \in Replicas, NEW c \in Players, lastPosition'[r][c] # Nowhere
               PROVE  \E q \in Packets : /\ lastPosition'[r][c] = Stamped(q)
                                         /\ q.client = c /\ q.moves /\ q.payload # Garbled
    BY DEF LastIsOwn
  <2>1. CASE p.moves /\ r = rep /\ c = p.client
    <3>1. lastPosition'[r][c] = Stamped(p)
      BY <1>1, <1>2, <2>1 DEF Evaluate, CheatTypeOK
    <3>2. p.payload # Garbled
      BY <1>2, <2>1 DEF Raises
    <3> QED BY <2>1, <3>1, <3>2
  <2>2. CASE ~(p.moves /\ r = rep /\ c = p.client)
    <3>1. lastPosition'[r][c] = lastPosition[r][c]
      BY <1>1, <1>2, <2>2 DEF Evaluate, CheatTypeOK
    <3> QED BY <1>1, <3>1 DEF LastIsOwn
  <2> QED BY <2>1, <2>2
<1>5. HonestMoversNotAccused'
  <2> SUFFICES ASSUME NEW g \in signals', g.type = "speed_hack"
               PROVE  ~HonestMover(g.packet.client)
    BY DEF HonestMoversNotAccused
  <2>1. CASE g \in signals
    BY <1>1, <2>1 DEF HonestMoversNotAccused
  <2>2. CASE g \notin signals
    <3>1. Speeding(rep, Stamped(p)) /\ g.packet = p
      BY <1>2, <2>2 DEF Evaluate, Signal
    <3> QED BY <1>1, <3>1, SpeedingIsDishonest
  <2> QED BY <2>1, <2>2
<1> QED BY <1>3, <1>4, <1>5 DEF CheatInv

(***************************************************************************)
(* A replica that starts again has no last positions.                      *)
(***************************************************************************)
LEMMA ForgetInv ==
  ASSUME CheatAssumption, CheatInv, NEW rep \in Replicas, Forget(rep)
  PROVE  CheatInv'
<1>1. CheatTypeOK /\ LastIsOwn /\ HonestMoversNotAccused
  BY DEF CheatInv
<1>2. \A r \in Replicas, c \in Players :
        /\ r = rep => lastPosition'[r][c] = Nowhere /\ lastPayloads'[r][c] = <<>>
        /\ r # rep => /\ lastPosition'[r][c] = lastPosition[r][c]
                      /\ lastPayloads'[r][c] = lastPayloads[r][c]
  BY <1>1 DEF Forget, CheatTypeOK
<1>3. CheatTypeOK'
  <2>1. /\ lastPosition' \in [Replicas -> [Players -> Sample \cup {Nowhere}]]
        /\ lastPayloads' \in [Replicas -> [Players -> Seq(Sample)]]
        /\ signals' = signals
    BY <1>1 DEF Forget, CheatTypeOK
  <2>2. \A r \in Replicas, c \in Players : Len(lastPayloads'[r][c]) <= HistoryLength
    BY <1>1, <1>2 DEF CheatTypeOK, CheatAssumption
  <2> QED BY <1>1, <2>1, <2>2 DEF CheatTypeOK
<1>4. LastIsOwn'
  BY <1>1, <1>2 DEF LastIsOwn
<1>5. HonestMoversNotAccused'
  BY <1>1 DEF Forget, HonestMoversNotAccused
<1> QED BY <1>3, <1>4, <1>5 DEF CheatInv

-----------------------------------------------------------------------------
(***************************************************************************)
(* The invariant of the detector.                                          *)
(***************************************************************************)
THEOREM Detector ==
  ASSUME CheatAssumption
  PROVE  Spec => []CheatInv
<1>1. Init => CheatInv
  BY CheatInit
<1>2. CheatInv /\ [Next]_cheatVars => CheatInv'
  <2> SUFFICES ASSUME CheatInv, [Next]_cheatVars
               PROVE  CheatInv'
    OBVIOUS
  <2>1. ASSUME NEW rep \in Replicas, NEW p \in Packets,
               ~Raises(Stamped(p)), Evaluate(rep, Stamped(p))
        PROVE  CheatInv'
    BY <2>1, EvaluateInv
  <2>2. ASSUME NEW rep \in Replicas, Forget(rep)
        PROVE  CheatInv'
    BY <2>2, ForgetInv
  <2>3. CASE UNCHANGED cheatVars
    BY <2>3 DEF cheatVars, CheatInv, CheatTypeOK, LastIsOwn, HonestMoversNotAccused
  <2> QED BY <2>1, <2>2, <2>3 DEF Next
<1> QED BY <1>1, <1>2, PTL DEF Spec

(***************************************************************************)
(* No honest mover is accused of a speed hack (cheat_detector.py:32), in   *)
(* whatever order its packets are evaluated, on however many replicas and  *)
(* across restarts.                                                        *)
(***************************************************************************)
THEOREM HonestMoversPass ==
  ASSUME CheatAssumption
  PROVE  Spec => []HonestMoversNotAccused
<1>1. CheatInv => HonestMoversNotAccused
  BY DEF CheatInv
<1> QED BY <1>1, Detector, PTL
=============================================================================
