---------------------------- MODULE CheatDetector ----------------------------
(***************************************************************************)
(* The cheat detector of app/ai/cheat_detector.py: one object per replica, *)
(* in memory, no await inside.                                             *)
(*                                                                         *)
(* Intervals are those between the timestamps the packets carry, so they   *)
(* are negative when a packet arrives after a later one, and NaN when one  *)
(* of the two carries NaN: then every comparison with a limit is false.    *)
(***************************************************************************)
EXTENDS Integers, Sequences

CONSTANTS
  Replicas,      \* each has a detector of its own
  Players,       \* client ids
  Packets,       \* a client, a timestamp, a payload, whether it is a move
                 \* (with x and y: the payload is then a pair or Garbled), and
                 \* whether the payload's keys can be sorted
  Times,         \* timestamps
  NaN,           \* the float that is no number: a timestamp or a coordinate
  MaxSpeed,      \* MAX_SPEED_UNITS_PER_SEC, in units per tick
  MinRepeat,     \* MIN_REPEAT_INTERVAL_SEC
  MinElapsed,    \* MIN_ELAPSED_FOR_SPEED_CHECK
  HistoryLength, \* maxlen of the deque of payloads
  Garbled,       \* the payload of a move whose x or y is no number
  Nowhere        \* a client without a last position

VARIABLES
  lastPosition,  \* per replica and client: its last packet with a position
  lastPayloads,  \* per replica and client: its last payloads and their times
  signals        \* history: the signals returned

cheatVars == <<lastPosition, lastPayloads, signals>>

Sample == [packet : Packets, at : Times]

(***************************************************************************)
(* The assumption on the constants; the module that composes the gateways  *)
(* assumes it.                                                             *)
(***************************************************************************)
CheatAssumption ==
  /\ \A p \in Packets :
       /\ p.client \in Players /\ p.moves \in BOOLEAN
       /\ p.ts \in Times /\ p.sorts \in BOOLEAN
  /\ Times \subseteq Int \cup {NaN} /\ NaN \notin Int
  /\ MaxSpeed \in Nat /\ MinRepeat \in Int /\ MinElapsed \in Nat
  /\ HistoryLength \in Nat \ {0}
  /\ Nowhere \notin Sample

(***************************************************************************)
(* Types; the deque of payloads is bounded.                                *)
(***************************************************************************)
CheatTypeOK ==
  /\ lastPosition \in [Replicas -> [Players -> Sample \cup {Nowhere}]]
  /\ lastPayloads \in [Replicas -> [Players -> Seq(Sample)]]
  /\ \A rep \in Replicas, c \in Players : Len(lastPayloads[rep][c]) <= HistoryLength
  /\ signals \subseteq [replica : Replicas, packet : Packets, at : Times,
                        type : {"speed_hack", "macro_bot_pattern"}]

Init ==
  /\ lastPosition = [rep \in Replicas |-> [c \in Players |-> Nowhere]]
  /\ lastPayloads = [rep \in Replicas |-> [c \in Players |-> <<>>]]
  /\ signals = {}

(***************************************************************************)
(* hypot(x - last_x, y - last_y) / elapsed > limit, in squares; not if the *)
(* distance is NaN.                                                        *)
(***************************************************************************)
Square(n) == n * n
Placed(s) == s.packet.payload[1] # NaN /\ s.packet.payload[2] # NaN

TooFast(from, to) ==
  Placed(from) /\ Placed(to) /\
  Square(to.packet.payload[1] - from.packet.payload[1])
    + Square(to.packet.payload[2] - from.packet.payload[2])
  > Square(MaxSpeed * (to.at - from.at))

(***************************************************************************)
(* _check_speed, on intervals long enough to be checked; the speed of a    *)
(* NaN interval is NaN, which is within the limit.                         *)
(***************************************************************************)
SpeedChecked(from, to) ==
  from.at # NaN /\ to.at # NaN /\ to.at - from.at >= MinElapsed

Speeding(rep, s) ==
  LET last == lastPosition[rep][s.packet.client] IN
  s.packet.moves /\ last # Nowhere /\ SpeedChecked(last, s) /\ TooFast(last, s)

(***************************************************************************)
(* _check_repeat_payload: an equal payload among the last ones, less than  *)
(* the interval before this one.                                           *)
(***************************************************************************)
TooSoonOrAtLimit(prev, s) ==
  /\ prev.packet.payload = s.packet.payload
  /\ prev.at # NaN /\ s.at # NaN /\ s.at - prev.at <= MinRepeat

TooSoon(prev, s) ==
  /\ prev.packet.payload = s.packet.payload
  /\ prev.at # NaN /\ s.at # NaN /\ s.at - prev.at < MinRepeat

Repeating(rep, s) ==
  \E i \in DOMAIN lastPayloads[rep][s.packet.client] :
    TooSoon(lastPayloads[rep][s.packet.client][i], s)

(***************************************************************************)
(* history.append of a deque(maxlen=5): the oldest falls out.              *)
(***************************************************************************)
AppendUnbounded(history, s) == Append(history, s)

AppendBounded(history, s) ==
  IF Len(history) < HistoryLength
  THEN Append(history, s)
  ELSE Append(Tail(history), s)

Signal(rep, s, type) ==
  signals' = signals \cup {[replica |-> rep, packet |-> s.packet, at |-> s.at, type |-> type]}

(***************************************************************************)
(* float(payload["x"]) raises before anything is stored; sorted() of the   *)
(* payload, whose keys are strings and bytes, after the position was.      *)
(***************************************************************************)
Raises(s) == s.packet.moves /\ s.packet.payload = Garbled
RaisesLate(rep, s) == ~Speeding(rep, s) /\ ~s.packet.sorts

(***************************************************************************)
(* evaluate(): every move becomes the last position, flagged or not; a     *)
(* speeding packet returns before it is added to the payloads.             *)
(***************************************************************************)
Cheats(rep, s) == Speeding(rep, s) \/ Repeating(rep, s)

Evaluate(rep, s) ==
  /\ lastPosition' = IF s.packet.moves
                     THEN [lastPosition EXCEPT ![rep][s.packet.client] = s]
                     ELSE lastPosition
  /\ IF RaisesLate(rep, s)
     THEN UNCHANGED <<lastPayloads, signals>>
     ELSE IF Speeding(rep, s)
     THEN Signal(rep, s, "speed_hack") /\ UNCHANGED lastPayloads
     ELSE /\ lastPayloads' = [lastPayloads EXCEPT ![rep][s.packet.client] = AppendBounded(@, s)]
          /\ IF Repeating(rep, s)
             THEN Signal(rep, s, "macro_bot_pattern")
             ELSE UNCHANGED signals

(***************************************************************************)
(* `now` is the timestamp the packet carries.                              *)
(***************************************************************************)
Stamped(p) == [packet |-> p, at |-> p.ts]

(***************************************************************************)
(* The replica starts again with empty histories.                          *)
(***************************************************************************)
Forget(rep) ==
  /\ lastPosition' = [lastPosition EXCEPT ![rep] = [c \in Players |-> Nowhere]]
  /\ lastPayloads' = [lastPayloads EXCEPT ![rep] = [c \in Players |-> <<>>]]
  /\ UNCHANGED signals

Next ==
  \E rep \in Replicas :
    \/ \E p \in Packets : ~Raises(Stamped(p)) /\ Evaluate(rep, Stamped(p))
    \/ Forget(rep)

Spec == Init /\ [][Next]_cheatVars
-----------------------------------------------------------------------------
(***************************************************************************)
(* A player whose positions, by the packets' own timestamps, never need    *)
(* more than the allowed speed.                                            *)
(***************************************************************************)
HonestMover(c) ==
  \A p, q \in Packets :
    /\ p.client = c /\ q.client = c /\ p.moves /\ q.moves
    /\ p.payload # Garbled /\ q.payload # Garbled
    /\ SpeedChecked(Stamped(p), Stamped(q))
    => ~TooFast(Stamped(p), Stamped(q))

(***************************************************************************)
(* No honest mover is accused of a speed hack (cheat_detector.py:32), in   *)
(* whatever order, however late, and on however many connections the       *)
(* packets arrive: late packets move the last position back in time.       *)
(***************************************************************************)
HonestMoversNotAccused ==
  \A g \in signals : g.type = "speed_hack" => ~HonestMover(g.packet.client)

(***************************************************************************)
(* Why: whatever came before, the last position is one of the player's own *)
(* with its own timestamp.                                                 *)
(***************************************************************************)
LastIsOwn ==
  \A rep \in Replicas, c \in Players : lastPosition[rep][c] # Nowhere =>
    \E p \in Packets :
      /\ lastPosition[rep][c] = Stamped(p)
      /\ p.client = c /\ p.moves /\ p.payload # Garbled

CheatInv == CheatTypeOK /\ LastIsOwn /\ HonestMoversNotAccused
=============================================================================
