----------------------------- MODULE TokenBucket -----------------------------
(***************************************************************************)
(* The Redis token bucket of app/security/rate_limiter.py.                 *)
(*                                                                         *)
(* allow() reads the gateway's own clock, then awaits a Lua script that    *)
(* Redis runs atomically.  Between the two, other coroutines and other     *)
(* replicas run the script on the same key, so a script may carry a `now`  *)
(* older than the bucket's last_refill, and the replicas' clocks differ.   *)
(*                                                                         *)
(* One token is Unit token units and one clock tick refills Refill units,  *)
(* so that the fractional tokens of the Lua numbers are represented.       *)
(***************************************************************************)
EXTENDS Integers, Sequences

CONSTANTS
  Clients,      \* the client addresses, one bucket key each
  Callers,      \* the coroutines, of any replica, that may call allow()
  Capacity,     \* rate_limit_capacity, in tokens
  Overrides,    \* values of capacity_override; None and 0 are both the value 0
  MaxCapacity,  \* an upper bound of the capacities in use
  Unit,         \* token units in a token
  Refill,       \* token units that one tick brings
  BucketTTL,    \* the EXPIRE of the script, in ticks
  MaxSkew,      \* a replica's clock is at most this far from Redis's
  MaxDelay,     \* ticks between the clock reading and the run of the script
  MaxTime,      \* bound of the clock
  NoCall        \* a caller that awaits nothing

VARIABLES
  clock,    \* Redis's clock
  bucket,   \* the hash of each client's key
  call,     \* the call each caller awaits
  granted   \* history: for each client, the calls the script allowed

vars == <<clock, bucket, call, granted>>

(***************************************************************************)
(* `capacity_override or self.capacity`: a limit of 0 is no limit.         *)
(***************************************************************************)
CapacityFor(override) == IF override = 0 THEN Capacity ELSE override

Bucket == [tokens : Int, last_refill : Int, expires : Int]
Call   == [client : Clients, cap : Nat, now : Int, at : Nat]
Grant  == [now : Int, run : Nat]

(***************************************************************************)
(* The limit of a rule is an int without bounds (main.py:115).  Left out   *)
(* are negative limits, which clamp a bucket below zero.                   *)
(***************************************************************************)
ASSUME BucketAssumption ==
  /\ Capacity \in Nat \ {0} /\ Overrides \subseteq Nat
  /\ MaxCapacity \in Nat /\ \A o \in Overrides \cup {0} : CapacityFor(o) <= MaxCapacity
  /\ Unit \in Nat \ {0} /\ Refill \in Nat /\ BucketTTL \in Nat
  /\ MaxSkew \in Nat /\ MaxDelay \in Nat /\ MaxTime \in Nat
  /\ NoCall \notin Call

(***************************************************************************)
(* A bucket that stays idle for BucketTTL would have filled up anyway: the *)
(* deployed values are 3600 s * 5 tokens/s against 20 tokens, or against   *)
(* the largest limit of a rule, which may then be at most some 18000.      *)
(***************************************************************************)
ASSUME ExpiryCoversRefill ==
  Refill * (BucketTTL - MaxDelay - 2 * MaxSkew) >= MaxCapacity * Unit

(***************************************************************************)
(* Types, and no bucket ever holds more than the largest capacity.         *)
(***************************************************************************)
TypeOK ==
  /\ clock \in Nat
  /\ bucket \in [Clients -> Bucket]
  /\ call \in [Callers -> Call \cup {NoCall}]
  /\ granted \in [Clients -> Seq(Grant)]
  /\ \A c \in Clients : bucket[c].tokens <= MaxCapacity * Unit

(***************************************************************************)
(* A key exists until its expiry has passed; -1 stands for a missing key.  *)
(***************************************************************************)
NoBucket == [tokens |-> 0, last_refill |-> 0, expires |-> -1]
Exists(key) == clock <= key.expires

Init ==
  /\ clock = 0
  /\ bucket = [c \in Clients |-> NoBucket]
  /\ call = [k \in Callers |-> NoCall]
  /\ granted = [c \in Clients |-> <<>>]

(***************************************************************************)
(* allow(c, override): read the replica's clock and send the script.       *)
(***************************************************************************)
Allow(k, c, override) ==
  /\ call[k] = NoCall
  /\ \E skew \in -MaxSkew .. MaxSkew :
       call' = [call EXCEPT ![k] = [client |-> c, cap |-> CapacityFor(override),
                                    now |-> clock + skew, at |-> clock]]
  /\ UNCHANGED <<clock, bucket, granted>>

(***************************************************************************)
(* The token units the script computes for the call q on bucket b.         *)
(***************************************************************************)
UncappedRefill(b, q) ==
  IF Exists(b) THEN b.tokens + (q.now - b.last_refill) * Refill ELSE q.cap * Unit

ForwardOnlyRefill(b, q) ==
  LET gained == IF q.now > b.last_refill THEN (q.now - b.last_refill) * Refill ELSE 0
      tokens == IF Exists(b) THEN b.tokens + gained ELSE q.cap * Unit
  IN  IF tokens < q.cap * Unit THEN tokens ELSE q.cap * Unit

Refilled(b, q) ==
  LET full   == q.cap * Unit
      tokens == IF Exists(b) THEN b.tokens + (q.now - b.last_refill) * Refill ELSE full
  IN  IF tokens < full THEN tokens ELSE full

Tokens(k) == Refilled(bucket[call[k].client], call[k])
Allowed(k) == Tokens(k) >= Unit

(***************************************************************************)
(* When the key will expire after a script of caller k.                    *)
(***************************************************************************)
ExpirySetOnce(k) ==
  LET b == bucket[call[k].client] IN IF Exists(b) THEN b.expires ELSE clock + BucketTTL

RenewedExpiry(k) == clock + BucketTTL

(***************************************************************************)
(* _LUA_SCRIPT, atomic in Redis: refill, take a token if there is one,     *)
(* write the bucket back with the caller's `now`, renew the expiry.        *)
(***************************************************************************)
RunScript(k) ==
  /\ call[k] # NoCall
  /\ LET c == call[k].client IN
     /\ bucket' = [bucket EXCEPT ![c] = [tokens      |-> Tokens(k) - (IF Allowed(k) THEN Unit ELSE 0),
                                         last_refill |-> call[k].now,
                                         expires     |-> RenewedExpiry(k)]]
     /\ granted' = IF Allowed(k)
                   THEN [granted EXCEPT ![c] = Append(@, [now |-> call[k].now, run |-> clock])]
                   ELSE granted
  /\ call' = [call EXCEPT ![k] = NoCall]
  /\ UNCHANGED clock

(***************************************************************************)
(* The coroutine is cancelled, or its connection fails, before the script  *)
(* reaches Redis.                                                          *)
(***************************************************************************)
Drop(k) ==
  /\ call[k] # NoCall
  /\ call' = [call EXCEPT ![k] = NoCall]
  /\ UNCHANGED <<clock, bucket, granted>>

Tick ==
  /\ clock < MaxTime
  /\ \A k \in Callers : call[k] # NoCall => clock - call[k].at < MaxDelay
  /\ clock' = clock + 1
  /\ UNCHANGED <<bucket, call, granted>>

Next ==
  \/ \E k \in Callers, c \in Clients, o \in Overrides : Allow(k, c, o)
  \/ \E k \in Callers : RunScript(k) \/ Drop(k)
  \/ Tick

Spec == Init /\ [][Next]_vars

-----------------------------------------------------------------------------
(***************************************************************************)
(* The limit the bucket exists for, over every window and not only from    *)
(* the first request: between any two allowed calls i and j of a client,   *)
(* the calls allowed are at most a full bucket plus what the time between  *)
(* the two readings refilled.  It must hold although scripts run out of    *)
(* the order of their readings, last_refill moves backwards, rules clamp   *)
(* the same bucket to other capacities, and the key expires.               *)
(***************************************************************************)
SlidingLimit ==
  \A c \in Clients : \A i, j \in 1 .. Len(granted[c]) :
    i <= j => Unit * (j - i + 1)
                <= MaxCapacity * Unit + Refill * (granted[c][j].now - granted[c][i].now)

(***************************************************************************)
(* The same limit on Redis's clock, which is what the upstream server      *)
(* sees: the readings are off by the skew of two replicas and one delay.   *)
(***************************************************************************)
RealTimeLimit ==
  \A c \in Clients : \A i, j \in 1 .. Len(granted[c]) :
    i <= j => Unit * (j - i + 1)
                <= MaxCapacity * Unit
                   + Refill * (granted[c][j].run - granted[c][i].run + MaxDelay + 2 * MaxSkew)

-----------------------------------------------------------------------------
(***************************************************************************)
(* Why the limit holds: what the calls in flight and the buckets satisfy   *)
(* at every step.                                                          *)
(***************************************************************************)
CallsInTime ==
  \A k \in Callers : call[k] # NoCall =>
    /\ call[k].cap <= MaxCapacity
    /\ call[k].at <= clock /\ clock <= call[k].at + MaxDelay
    /\ call[k].at - MaxSkew <= call[k].now /\ call[k].now <= call[k].at + MaxSkew

(***************************************************************************)
(* The last script on a bucket ran at expires - BucketTTL; a client        *)
(* without a bucket was granted nothing.                                   *)
(***************************************************************************)
LastRun(c) == bucket[c].expires - BucketTTL
RunInPast ==
  \A c \in Clients : IF bucket[c].expires = -1 THEN granted[c] = <<>> ELSE LastRun(c) <= clock

(***************************************************************************)
(* Refilled up to the last run, no bucket is in debt.                      *)
(***************************************************************************)
NoDebt ==
  \A c \in Clients : bucket[c].expires # -1 =>
    bucket[c].tokens + Refill * (LastRun(c) + MaxSkew - bucket[c].last_refill) >= 0

(***************************************************************************)
(* Each grant bounds what its bucket holds now: a full bucket less one     *)
(* token, less a token for each later grant, plus the refill since.        *)
(***************************************************************************)
GrantsArePaid ==
  \A c \in Clients : \A i \in 1 .. Len(granted[c]) :
    bucket[c].tokens - Refill * bucket[c].last_refill
      <= (MaxCapacity - 1) * Unit - Refill * granted[c][i].now - Unit * (Len(granted[c]) - i)

(***************************************************************************)
(* A granted reading is off Redis's clock by the skew, and by the delay.   *)
(***************************************************************************)
GrantsInTime ==
  \A c \in Clients : \A i \in 1 .. Len(granted[c]) :
    /\ granted[c][i].run - MaxDelay - MaxSkew <= granted[c][i].now
    /\ granted[c][i].now <= granted[c][i].run + MaxSkew

BucketInv ==
  /\ TypeOK /\ CallsInTime /\ RunInPast /\ NoDebt /\ GrantsArePaid /\ GrantsInTime
  /\ SlidingLimit
=============================================================================
