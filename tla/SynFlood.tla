------------------------------- MODULE SynFlood -------------------------------
(***************************************************************************)
(* SynFloodHeuristic of app/protocols/udp_gateway.py: a window of the      *)
(* sessions seen from each address, in the memory of each replica.  The    *)
(* replica's clock is taken not to be set back while it runs.              *)
(***************************************************************************)
EXTENDS Integers, Sequences, FiniteSets

CONSTANTS
  Replicas, Addresses, Sessions,
  FloodWindow,   \* window_seconds, in ticks
  MaxNewSessions \* max_new_sessions

VARIABLES
  clock,
  sessionEvents, \* _session_events, per replica and address
  passed         \* history: the registrations answered False

floodVars == <<sessionEvents, passed>>

SessionEvent == [at : Nat, session : Sessions]

(***************************************************************************)
(* Assumed by the module that composes the gateways.                       *)
(***************************************************************************)
FloodAssumption == FloodWindow \in Nat /\ MaxNewSessions \in Nat

(***************************************************************************)
(* Types; the deque is in the order of time.                               *)
(***************************************************************************)
FloodTypeOK ==
  /\ clock \in Nat
  /\ sessionEvents \in [Replicas -> [Addresses -> Seq(SessionEvent)]]
  /\ \A rep \in Replicas, a \in Addresses :
       \A i, j \in DOMAIN sessionEvents[rep][a] :
         i <= j => /\ sessionEvents[rep][a][i].at <= sessionEvents[rep][a][j].at
                   /\ sessionEvents[rep][a][j].at <= clock
  /\ passed \in [Replicas -> [Addresses -> SUBSET SessionEvent]]

FloodInit ==
  /\ sessionEvents = [rep \in Replicas |-> [a \in Addresses |-> <<>>]]
  /\ passed = [rep \in Replicas |-> [a \in Addresses |-> {}]]

(***************************************************************************)
(* The loop of popleft removes events older than the window up to the      *)
(* first that is not, and stops there.                                     *)
(***************************************************************************)
ExpiredFirst(events) ==
  CHOOSE n \in 0 .. Len(events) :
    /\ \A i \in 1 .. n : clock - events[i].at > FloodWindow
    /\ n < Len(events) => clock - events[n + 1].at <= FloodWindow

Kept(events) == SubSeq(events, ExpiredFirst(events) + 1, Len(events))

Registered(rep, a, session) ==
  Kept(Append(sessionEvents[rep][a], [at |-> clock, session |-> session]))

SessionsOf(events) == {events[i].session : i \in DOMAIN events}

FloodsBeforeAppend(rep, a, session) ==
  Cardinality(SessionsOf(Kept(sessionEvents[rep][a]))) > MaxNewSessions

Floods(rep, a, session) ==
  Cardinality(SessionsOf(Registered(rep, a, session))) > MaxNewSessions

(***************************************************************************)
(* register_and_check: a rejected packet stays registered.                 *)
(***************************************************************************)
Register(rep, a, session) ==
  /\ sessionEvents' = [sessionEvents EXCEPT ![rep][a] = Registered(rep, a, session)]
  /\ passed' = IF Floods(rep, a, session)
               THEN passed
               ELSE [passed EXCEPT ![rep][a] = @ \cup {[at |-> clock, session |-> session]}]
  /\ UNCHANGED clock

(***************************************************************************)
(* The replica starts again; `passed` is the history since its start.      *)
(***************************************************************************)
ForgetSessions(rep) ==
  /\ sessionEvents' = [sessionEvents EXCEPT ![rep] = [a \in Addresses |-> <<>>]]
  /\ passed' = [passed EXCEPT ![rep] = [a \in Addresses |-> {}]]
-----------------------------------------------------------------------------
(***************************************************************************)
(* A running replica lets at most MaxNewSessions sessions of an address    *)
(* pass in any window (udp_gateway.py:22).                                 *)
(***************************************************************************)
SessionsBounded ==
  \A rep \in Replicas, a \in Addresses : \A last \in passed[rep][a] :
    Cardinality({p.session : p \in {q \in passed[rep][a] :
      last.at - FloodWindow <= q.at /\ q.at <= last.at}}) <= MaxNewSessions
=============================================================================
