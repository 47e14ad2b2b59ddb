----------------------------- MODULE ReplayGuard -----------------------------
(***************************************************************************)
(* The replay guard of app/security/replay_guard.py.                       *)
(*                                                                         *)
(* validate() compares the message's timestamp with the replica's clock,   *)
(* then awaits SET NX EX on the nonce's key.  The reading may be stale     *)
(* when Redis runs the SET, and replicas' clocks differ.                   *)
(*                                                                         *)
(* The timestamp is whatever float() or the packet codec makes of what the *)
(* client sent: a number, or the float NaN, of which every comparison is   *)
(* false.  A text is the sequence of the parts between its colons.         *)
(***************************************************************************)
EXTENDS Integers, Sequences

CONSTANTS
  Messages,  \* the deliverable messages: a client, its nonce, its timestamp
  Parts,     \* texts without a colon, of which clients and nonces consist
  NaN,       \* the timestamp that is no number
  Callers,   \* the coroutines, of any replica, that may call validate()
  Window,    \* replay_window_seconds, in ticks
  NonceTTL,  \* replay_nonce_ttl_seconds, in ticks
  MaxSkew,   \* a replica's clock is at most this far from Redis's
  MaxDelay,  \* ticks between the clock reading and the run of the SET
  MaxTime,   \* bound of the clock
  NoCall     \* a caller that awaits nothing

VARIABLES
  clock,     \* Redis's clock
  nonces,    \* when each nonce key expires
  call,      \* the validate() each caller is in, at its await
  accepted,  \* history: how often each message was accepted
  burnt,     \* history: messages whose SET succeeded and whose reply was lost
  reused     \* history: messages answered nonce_reused

vars == <<clock, nonces, call, accepted, burnt, reused>>

Call == [msg : Messages, at : Nat]

ASSUME GuardAssumption ==
  /\ \A m \in Messages :
       /\ m.client \in Seq(Parts) /\ m.client # <<>>
       /\ m.nonce \in Seq(Parts) /\ m.nonce # <<>>
       /\ m.ts \in Int \cup {NaN}
  /\ NaN \notin Int
  /\ Window \in Nat /\ NonceTTL \in Nat
  /\ MaxSkew \in Nat /\ MaxDelay \in Nat /\ MaxTime \in Nat
  /\ NoCall \notin Call

(***************************************************************************)
(* The nonce key holds the client and the nonce, not the timestamp, with a *)
(* colon between them and those inside them as they are: client a:b with   *)
(* nonce c and client a with nonce b:c have one key.                       *)
(***************************************************************************)
KeyOfNonce(m) == m.nonce
KeyOf(m) == m.client \o m.nonce
Keys == {KeyOf(m) : m \in Messages}

Exists(key) == clock <= nonces[key]

(***************************************************************************)
(* Types, and no nonce lives longer than its TTL from now.                 *)
(***************************************************************************)
TypeOK ==
  /\ clock \in Nat
  /\ nonces \in [Keys -> Int]
  /\ \A key \in Keys : nonces[key] <= clock + NonceTTL
  /\ call \in [Callers -> Call \cup {NoCall}]
  /\ accepted \in [Messages -> Nat]
  /\ burnt \subseteq Messages /\ reused \subseteq Messages

Init ==
  /\ clock = 0
  /\ nonces = [key \in Keys |-> -1]
  /\ call = [k \in Callers |-> NoCall]
  /\ accepted = [m \in Messages |-> 0]
  /\ burnt = {} /\ reused = {}

(***************************************************************************)
(* `drift > window`, from the past or from the future; never for NaN.      *)
(***************************************************************************)
Timed(m) == m.ts # NaN
DriftsLate(now, m) == Timed(m) /\ now - m.ts > Window
Drifts(now, m) == Timed(m) /\ ~(now - m.ts \in -Window .. Window)

(***************************************************************************)
(* validate(m) up to its await.  A message out of the window is answered   *)
(* timestamp_out_of_window at once: no state changes.                      *)
(***************************************************************************)
Validate(k, m) ==
  /\ call[k] = NoCall
  /\ \E skew \in -MaxSkew .. MaxSkew : ~Drifts(clock + skew, m)
  /\ call' = [call EXCEPT ![k] = [msg |-> m, at |-> clock]]
  /\ UNCHANGED <<clock, nonces, accepted, burnt, reused>>

(***************************************************************************)
(* SET key 1 NX EX ttl.                                                    *)
(***************************************************************************)
SetNXForever(key) ==
  nonces' = IF Exists(key) THEN nonces ELSE [nonces EXCEPT ![key] = MaxTime + NonceTTL]

SetNX(key) ==
  nonces' = IF Exists(key) THEN nonces ELSE [nonces EXCEPT ![key] = clock + NonceTTL]

(***************************************************************************)
(* Redis runs the SET and validate() returns.                              *)
(***************************************************************************)
UncheckedReply(k) ==
  /\ call[k] # NoCall
  /\ SetNX(KeyOf(call[k].msg))
  /\ accepted' = [accepted EXCEPT ![call[k].msg] = @ + 1]
  /\ call' = [call EXCEPT ![k] = NoCall]
  /\ UNCHANGED <<clock, burnt, reused>>

Reply(k) ==
  /\ call[k] # NoCall
  /\ LET m == call[k].msg IN
     /\ SetNX(KeyOf(m))
     /\ IF Exists(KeyOf(m))
        THEN reused' = reused \cup {m} /\ UNCHANGED accepted
        ELSE accepted' = [accepted EXCEPT ![m] = @ + 1] /\ UNCHANGED reused
  /\ call' = [call EXCEPT ![k] = NoCall]
  /\ UNCHANGED <<clock, burnt>>

(***************************************************************************)
(* Redis runs the SET and the reply is lost: validate() raises, the        *)
(* request fails, and the nonce is spent if the SET succeeded.             *)
(***************************************************************************)
ReplyLost(k) ==
  /\ call[k] # NoCall
  /\ LET m == call[k].msg IN
     /\ SetNX(KeyOf(m))
     /\ burnt' = IF Exists(KeyOf(m)) THEN burnt ELSE burnt \cup {m}
  /\ call' = [call EXCEPT ![k] = NoCall]
  /\ UNCHANGED <<clock, accepted, reused>>

(***************************************************************************)
(* The coroutine is cancelled, or its connection fails, before the SET     *)
(* reaches Redis.                                                          *)
(***************************************************************************)
Drop(k) ==
  /\ call[k] # NoCall
  /\ call' = [call EXCEPT ![k] = NoCall]
  /\ UNCHANGED <<clock, nonces, accepted, burnt, reused>>

Tick ==
  /\ clock < MaxTime
  /\ \A k \in Callers : call[k] # NoCall => clock - call[k].at < MaxDelay
  /\ clock' = clock + 1
  /\ UNCHANGED <<nonces, call, accepted, burnt, reused>>

Next ==
  \/ \E k \in Callers, m \in Messages : Validate(k, m)
  \/ \E k \in Callers : Reply(k) \/ ReplyLost(k) \/ Drop(k)
  \/ Tick

Spec == Init /\ [][Next]_vars

-----------------------------------------------------------------------------
(***************************************************************************)
(* The nonce of an accepted message outlives the window in which a         *)
(* duplicate can still pass the timestamp check, stale readings included.  *)
(***************************************************************************)
NonceCoversWindow == NonceTTL >= 2 * Window + 2 * MaxSkew + MaxDelay

(***************************************************************************)
(* A message without a time passes the timestamp check for ever, and again *)
(* past the nonce once that has expired.                                   *)
(***************************************************************************)
Repeatable(m) == ~Timed(m) /\ clock > NonceTTL

(***************************************************************************)
(* Replay protection by nonce and timestamp window (README.md:21): no      *)
(* message that has a time is accepted twice, however its deliveries are   *)
(* retried, delayed and spread over the replicas.  It depends on           *)
(* NonceCoversWindow, which the deployed values, 60 s and 30 s, meet only  *)
(* without skew or delay.                                                  *)
(***************************************************************************)
NoSecondAcceptance == \A m \in Messages : accepted[m] > 1 => Repeatable(m)

(***************************************************************************)
(* What is left of it (replay_guard.py:24) when the timestamp protects     *)
(* from nothing, for NaN or a window wider than the TTL: all its           *)
(* deliveries together, a message is accepted once per life of a nonce.    *)
(***************************************************************************)
OncePerNonceLife ==
  \A m \in Messages : accepted[m] > 0 => (accepted[m] - 1) * (NonceTTL + 1) <= clock

(***************************************************************************)
(* A delivery is answered nonce_reused only if a nonce was spent, by an    *)
(* earlier delivery accepted or interrupted: that nonce of that client,    *)
(* unless one of the two has a colon; then possibly that of another client *)
(* whose id and nonce read the same.                                       *)
(***************************************************************************)
Spent(m) == accepted[m] > 0 \/ m \in burnt
Plain(m) == Len(m.client) = 1 /\ Len(m.nonce) = 1
Same(m, n) == n.client = m.client /\ n.nonce = m.nonce
ReadsSame(m, n) == n.client \o n.nonce = m.client \o m.nonce
NoFalseReuse ==
  \A m \in reused : \E n \in Messages :
    Spent(n) /\ IF Plain(m) THEN Same(m, n) ELSE ReadsSame(m, n)

(***************************************************************************)
(* A message that has a time is accepted only within the window around it, *)
(* widened by the skew, and on the late side by the delay of the SET.      *)
(***************************************************************************)
AcceptedInWindow ==
  [][\A m \in Messages : accepted'[m] > accepted[m] /\ Timed(m) =>
       /\ clock >= m.ts - Window - MaxSkew
       /\ clock <= m.ts + Window + MaxSkew + MaxDelay]_vars

(***************************************************************************)
(* The guard implements at-most-once acceptance of the messages that have  *)
(* a time.                                                                 *)
(***************************************************************************)
TimedMessages == {m \in Messages : Timed(m)}
Abstract == INSTANCE AtMostOnce WITH
              Messages <- TimedMessages, accepted <- [m \in TimedMessages |-> accepted[m]]
AtMostOnceSpec == Abstract!Spec

-----------------------------------------------------------------------------
(***************************************************************************)
(* Why it holds: a call in flight is recent and, if it has a time, was in  *)
(* the window; the nonce of an accepted message is kept until the window   *)
(* has closed, and for a full life per acceptance; a key exists because a  *)
(* message was accepted or its reply was lost.                             *)
(***************************************************************************)
CallsInTime ==
  \A k \in Callers : call[k] # NoCall =>
    /\ call[k].at <= clock /\ clock <= call[k].at + MaxDelay
    /\ Timed(call[k].msg) =>
         /\ call[k].msg.ts - Window - MaxSkew <= call[k].at
         /\ call[k].at <= call[k].msg.ts + Window + MaxSkew

NonceKept ==
  \A m \in Messages :
    /\ nonces[KeyOf(m)] >= accepted[m] * (NonceTTL + 1) - 1
    /\ accepted[m] > 0 /\ Timed(m) => nonces[KeyOf(m)] >= m.ts - Window - MaxSkew + NonceTTL

NonceSpent ==
  \A m \in Messages :
    nonces[KeyOf(m)] # -1 => \E n \in Messages : Spent(n) /\ KeyOf(n) = KeyOf(m)

GuardInv ==
  /\ TypeOK /\ CallsInTime /\ NonceKept /\ NonceSpent /\ NoFalseReuse
=============================================================================
