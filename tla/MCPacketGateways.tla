--------------------------- MODULE MCPacketGateways ---------------------------
(***************************************************************************)
(* TLC values for PacketGateways.                                          *)
(***************************************************************************)
EXTENDS PacketGateways, TLC

CONSTANTS
  a, b, i1, s1, s2, r1, r2, w1, w2, w3,
  d1, d2, d3, d4, d5, d6, d7, d8, d9, d10, d11, d12, d13

(***************************************************************************)
(* Player a walks honestly at the greatest speed allowed (5 per tick),     *)
(* stays, and repeats itself at the shortest interval allowed (1); one of  *)
(* its packets has neither time nor place.  Player b teleports, or sends   *)
(* coordinates that are no numbers, or keys that have no order.            *)
(***************************************************************************)
TwoPlayers == {<<a>>, <<b>>}
FourNonces == 1 .. 4
FourTimes == (0 .. 3) \cup {NaN}
TextParts == {a, b} \cup FourNonces

Move(c, n, t, pos) ==
  [client |-> <<c>>, nonce |-> <<n>>, ts |-> t, moves |-> TRUE, payload |-> pos, sorts |-> TRUE]

Leave  == Move(a, 1, 0, <<0, 0>>)
Arrive == Move(a, 2, 2, <<6, 8>>)
Stay   == Move(a, 3, 3, <<6, 8>>)
Adrift == Move(a, 4, NaN, <<NaN, 8>>)
Start  == Move(b, 1, 1, <<0, 0>>)
Jump   == Move(b, 2, 2, <<6, 8>>)
Noise  == Move(b, 3, 2, Garbled)
Mixed  == [Move(b, 4, 2, <<0, 0>>) EXCEPT !.sorts = FALSE]

EightMessages == {Leave, Arrive, Stay, Adrift, Start, Jump, Noise, Mixed}

Message(m, w, n) == [packet |-> m, via |-> "WS", replica |-> r1, conn |-> w, place |-> n]
Datagram(m, s) ==
  [packet |-> m, via |-> "UDP", replica |-> r2, address |-> i1, session |-> s]

(***************************************************************************)
(* Player a may send the same packets on a second connection, or as        *)
(* datagrams, which another replica receives; player b has a connection.   *)
(***************************************************************************)
WalkAndRetry == {d1, d2, d3, d4, d5, d6, d7, d8, d9, d10, d11, d12, d13}

(***************************************************************************)
(* Three deliveries are sent: the walk over two connections, or retried on *)
(* the other connection or as datagrams of two sessions, one of them of    *)
(* nothing; the packet without a time on both protocols; those of player b *)
(* (the players' packets share neither nonces nor histories).              *)
(***************************************************************************)
Journeys ==
  {{d1, d2, d4}, {d1, d3, d4}, {d2, d3, d4}, {d2, d8, d10}, {d3, d8, d9},
   {d1, d11, d12}, {d5, d6, d7}, {d5, d6, d13}}

TwoDatagrams == {d8, d9}
BothSent == {TwoDatagrams}

InfoOf ==
  d1 :> Message(Leave, w1, 1) @@ d2 :> Message(Arrive, w1, 2)
  @@ d3 :> Message(Arrive, w2, 1) @@ d4 :> Message(Stay, w2, 2)
  @@ d5 :> Message(Start, w3, 1) @@ d6 :> Message(Jump, w3, 2)
  @@ d7 :> Message(Noise, w3, 3) @@ d13 :> Message(Mixed, w3, 4)
  @@ d8 :> Datagram(Arrive, s1) @@ d9 :> Datagram(Arrive, s2) @@ d10 :> Datagram(Undecodable, s1)
  @@ d11 :> Message(Adrift, w2, 3) @@ d12 :> Datagram(Adrift, s1)
=============================================================================
