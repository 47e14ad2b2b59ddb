----------------------------- MODULE Broadcaster -----------------------------
(***************************************************************************)
(* StatsBroadcaster of app/websocket/broadcaster.py and its endpoint       *)
(* /ws/stats of app/main.py: the list of dashboards of one process.        *)
(*                                                                         *)
(* broadcast() awaits every send inside the iteration over the list.  A    *)
(* Python list iterator is an index into the live list, so what connects   *)
(* or is removed during an await changes what the iteration meets next.    *)
(***************************************************************************)
EXTENDS Integers, SequencesExt, FiniteSets

CONSTANTS
  Sockets,  \* WebSocket objects, each of one connection of a dashboard
  Senders,  \* coroutines that call broadcast
  NoSend    \* a sender that is in no broadcast

VARIABLES
  connections,  \* _connections
  peer,         \* the life of each socket
  sends         \* the broadcast each sender is in

broadcastVars == <<connections, peer, sends>>

(***************************************************************************)
(* A broadcast at the await of a send: the iterator's index, the socket,   *)
(* whether it was open at the call, the list dead; and, as history, the    *)
(* sockets reached and how many were removed at or before the index.       *)
(***************************************************************************)
Send == [place : 1 .. Cardinality(Sockets), to : Sockets, live : BOOLEAN,
         dead : SUBSET Sockets, reached : SUBSET Sockets,
         skips : 0 .. Cardinality(Sockets)]

BroadcastTypeOK ==
  /\ connections \in Seq(Sockets) /\ IsInjective(connections)
  /\ peer \in [Sockets -> {"new", "open", "closed", "gone"}]
  /\ sends \in [Senders -> Send \cup {NoSend}]

BroadcastInit ==
  /\ connections = <<>>
  /\ peer = [w \in Sockets |-> "new"]
  /\ sends = [s \in Senders |-> NoSend]

Connected == {connections[i] : i \in DOMAIN connections}

(***************************************************************************)
(* disconnect() of some sockets: those that stay close up, in their order. *)
(* The iterations keep their index.                                        *)
(***************************************************************************)
Staying(ws) == {i \in DOMAIN connections : connections[i] \notin ws}

Rank(i, places) == Cardinality({j \in places : j <= i})

Without(ws) ==
  [k \in 1 .. Cardinality(Staying(ws)) |->
     connections[CHOOSE i \in Staying(ws) : Rank(i, Staying(ws)) = k]]

RemovedBefore(s, ws) ==
  Cardinality({i \in DOMAIN connections : i <= sends[s].place /\ connections[i] \in ws})

Shifted(ws) ==
  [s \in Senders |->
     IF sends[s] = NoSend THEN NoSend
     ELSE [sends[s] EXCEPT !.skips = @ + RemovedBefore(s, ws)]]

(***************************************************************************)
(* stats_ws: accept and append; the dashboard leaves; receive_text raises  *)
(* WebSocketDisconnect, or something else (a frame that is not text),      *)
(* which nothing catches.                                                  *)
(***************************************************************************)
ConnectAtHead(w) ==
  /\ peer[w] = "new"
  /\ connections' = <<w>> \o connections
  /\ peer' = [peer EXCEPT ![w] = "open"]
  /\ UNCHANGED sends

Connect(w) ==
  /\ peer[w] = "new"
  /\ connections' = Append(connections, w)
  /\ peer' = [peer EXCEPT ![w] = "open"]
  /\ UNCHANGED sends

Close(w) ==
  /\ peer[w] = "open"
  /\ peer' = [peer EXCEPT ![w] = "closed"]
  /\ UNCHANGED <<connections, sends>>

Disconnect(w) ==
  /\ peer[w] = "closed"
  /\ peer' = [peer EXCEPT ![w] = "gone"]
  /\ connections' = Without({w})
  /\ sends' = Shifted({w})

Abort(w) ==
  /\ peer[w] = "open"
  /\ peer' = [peer EXCEPT ![w] = "gone"]
  /\ UNCHANGED <<connections, sends>>

(***************************************************************************)
(* The call of send_text for the socket at an index.                       *)
(***************************************************************************)
SendTo(place, dead, reached, skips) ==
  LET w == connections[place] IN
  [place |-> place, to |-> w, live |-> peer[w] = "open", dead |-> dead,
   reached |-> reached \cup {w}, skips |-> skips]

Begin(s) ==
  /\ sends[s] = NoSend
  /\ sends' = [sends EXCEPT ![s] =
                 IF connections = <<>> THEN NoSend ELSE SendTo(1, {}, {}, 0)]
  /\ UNCHANGED <<connections, peer>>

(***************************************************************************)
(* The send returns or raises, the socket closed before or during it; then *)
(* the next send, or the removal of the dead.                              *)
(***************************************************************************)
NextPlaceAfterDead(send, dead) == IF dead = send.dead THEN send.place + 1 ELSE send.place + 2

NextPlace(send, dead) == send.place + 1

EndKeepingDead(s, dead) ==
  /\ sends' = [sends EXCEPT ![s] = NoSend]
  /\ UNCHANGED connections

End(s, dead) ==
  /\ connections' = Without(dead)
  /\ sends' = [Shifted(dead) EXCEPT ![s] = NoSend]

Resume(s) ==
  /\ sends[s] # NoSend
  /\ \E raises \in BOOLEAN :
       /\ raises => peer[sends[s].to] # "open"
       /\ ~raises => sends[s].live
       /\ LET send == sends[s]
              dead == IF raises THEN send.dead \cup {send.to} ELSE send.dead
              place == NextPlace(send, dead)
          IN  IF place <= Len(connections)
              THEN /\ sends' = [sends EXCEPT ![s] =
                                  SendTo(place, dead, send.reached, send.skips)]
                   /\ UNCHANGED connections
              ELSE End(s, dead)
  /\ UNCHANGED peer

(***************************************************************************)
(* The sender is cancelled, which broadcast() does not catch.              *)
(***************************************************************************)
Cancel(s) ==
  /\ sends' = [sends EXCEPT ![s] = NoSend]
  /\ UNCHANGED <<connections, peer>>

(***************************************************************************)
(* The process ends, with its connections and its coroutines.              *)
(***************************************************************************)
LoseSockets ==
  /\ connections' = <<>>
  /\ peer' = [w \in Sockets |-> IF peer[w] = "new" THEN "new" ELSE "gone"]
  /\ sends' = [s \in Senders |-> NoSend]
-----------------------------------------------------------------------------
(***************************************************************************)
(* A broadcast passes over a connected dashboard only if another one was   *)
(* removed at or before its index while it awaited a send, one for each    *)
(* (broadcaster.py:15, :19): connections during a broadcast make it miss   *)
(* nobody, and one broadcast's clean-up costs others no more than that.    *)
(***************************************************************************)
MissedWereSkipped ==
  \A s \in Senders : sends[s] # NoSend =>
    Cardinality({i \in DOMAIN connections :
                   i <= sends[s].place /\ connections[i] \notin sends[s].reached})
      <= sends[s].skips

(***************************************************************************)
(* No dashboard gets an event twice, whatever connects or leaves while it  *)
(* is sent (broadcaster.py:19-21).                                         *)
(***************************************************************************)
SentOnce ==
  [][\A s \in Senders :
       (sends[s] # NoSend /\ sends'[s] # NoSend) =>
          \/ sends'[s].place = sends[s].place
          \/ sends'[s].to \notin sends[s].reached]_sends
=============================================================================
