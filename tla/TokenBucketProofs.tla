--------------------------- MODULE TokenBucketProofs ---------------------------
(***************************************************************************)
(* Proofs about the token bucket, for every value of the constants that    *)
(* satisfies BucketAssumption and ExpiryCoversRefill.                      *)
(***************************************************************************)
EXTENDS TokenBucket, TLAPS

(***************************************************************************)
(* A product with a natural number is monotonic.                           *)
(***************************************************************************)
LEMMA ProductMonotonic ==
  ASSUME NEW r \in Nat, NEW a \in Int, NEW b \in Int, a <= b
  PROVE  r * a <= r * b
<1>1. r * (b - a) >= 0
  OBVIOUS
<1> QED BY <1>1

(***************************************************************************)
(* allow() is called with a natural capacity of at most MaxCapacity.       *)
(***************************************************************************)
LEMMA CapacityInUse ==
  ASSUME NEW o \in Overrides
  PROVE  CapacityFor(o) \in Nat /\ CapacityFor(o) <= MaxCapacity
BY BucketAssumption DEF CapacityFor

(***************************************************************************)
(* A script finds at most a full bucket, and what it leaves.               *)
(***************************************************************************)
LEMMA TokensBound ==
  ASSUME TypeOK, CallsInTime, NEW k \in Callers, call[k] # NoCall
  PROVE  /\ call[k] \in Call
         /\ Tokens(k) \in Int
         /\ Tokens(k) <= call[k].cap * Unit
         /\ call[k].cap * Unit <= MaxCapacity * Unit
         /\ call[k].cap * Unit \in Nat
<1>1. call[k] \in Call
  BY DEF TypeOK
<1>2. bucket[call[k].client] \in Bucket
  BY <1>1 DEF TypeOK, Call
<1>3. call[k].cap \in Nat /\ call[k].now \in Int /\ call[k].cap <= MaxCapacity
  BY <1>1 DEF Call, CallsInTime
<1>4. call[k].cap * Unit \in Nat /\ call[k].cap * Unit <= MaxCapacity * Unit
  <2>1. Unit * call[k].cap <= Unit * MaxCapacity
    BY <1>3, ProductMonotonic, BucketAssumption
  <2> QED BY <2>1, <1>3, BucketAssumption
<1>5. Tokens(k) \in Int /\ Tokens(k) <= call[k].cap * Unit
  <2> DEFINE b == bucket[call[k].client]
  <2>1. b.tokens \in Int /\ b.last_refill \in Int
    BY <1>2 DEF Bucket
  <2>2. (call[k].now - b.last_refill) * Refill \in Int
    BY <2>1, <1>3, BucketAssumption
  <2> QED BY <2>1, <2>2, <1>3, <1>4 DEF Tokens, Refilled
<1> QED BY <1>1, <1>4, <1>5

(***************************************************************************)
(* Types are kept by every step.                                           *)
(***************************************************************************)
LEMMA TypeStep ==
  ASSUME TypeOK, CallsInTime, [Next]_vars
  PROVE  TypeOK'
<1> USE DEF TypeOK
<1>1. ASSUME NEW k \in Callers, NEW c \in Clients, NEW o \in Overrides, Allow(k, c, o)
      PROVE  TypeOK'
  <2>1. PICK skew \in -MaxSkew .. MaxSkew :
          call' = [call EXCEPT ![k] = [client |-> c, cap |-> CapacityFor(o),
                                       now |-> clock + skew, at |-> clock]]
    BY <1>1 DEF Allow
  <2>2. [client |-> c, cap |-> CapacityFor(o), now |-> clock + skew, at |-> clock] \in Call
    BY CapacityInUse, BucketAssumption DEF Call
  <2> QED BY <1>1, <2>1, <2>2 DEF Allow
<1>2. ASSUME NEW k \in Callers, RunScript(k)
      PROVE  TypeOK'
  <2> DEFINE c == call[k].client
             new == [tokens      |-> Tokens(k) - (IF Allowed(k) THEN Unit ELSE 0),
                     last_refill |-> call[k].now,
                     expires     |-> RenewedExpiry(k)]
  <2>1. call[k] \in Call /\ Tokens(k) \in Int /\ Tokens(k) <= MaxCapacity * Unit
    <3>1. call[k] # NoCall
      BY <1>2 DEF RunScript
    <3> QED BY <3>1, TokensBound, BucketAssumption
  <2>2. c \in Clients /\ new \in Bucket /\ new.tokens <= MaxCapacity * Unit
    BY <2>1, BucketAssumption DEF Call, Bucket, RenewedExpiry
  <2>3. bucket' = [bucket EXCEPT ![c] = new]
    BY <1>2 DEF RunScript
  <2>4. [now |-> call[k].now, run |-> clock] \in Grant
    BY <2>1 DEF Call, Grant
  <2>5. granted' \in [Clients -> Seq(Grant)]
    BY <1>2, <2>2, <2>4 DEF RunScript
  <2>6. clock' = clock /\ call' = [call EXCEPT ![k] = NoCall]
    BY <1>2 DEF RunScript
  <2>7. bucket' \in [Clients -> Bucket] /\ \A d \in Clients : bucket'[d].tokens <= MaxCapacity * Unit
    BY <2>2, <2>3
  <2> QED BY <2>5, <2>6, <2>7
<1>3. ASSUME NEW k \in Callers, Drop(k)
      PROVE  TypeOK'
  BY <1>3 DEF Drop
<1>4. CASE Tick
  BY <1>4 DEF Tick
<1>5. CASE UNCHANGED vars
  BY <1>5 DEF vars
<1> QED BY <1>1, <1>2, <1>3, <1>4, <1>5 DEF Next

(***************************************************************************)
(* A call in flight is recent, and its reading is near Redis's clock.      *)
(***************************************************************************)
LEMMA CallsStep ==
  ASSUME TypeOK, CallsInTime, [Next]_vars
  PROVE  CallsInTime'
<1> USE DEF CallsInTime
<1>1. ASSUME NEW k \in Callers, NEW c \in Clients, NEW o \in Overrides, Allow(k, c, o)
      PROVE  CallsInTime'
  <2>1. PICK skew \in -MaxSkew .. MaxSkew :
          call' = [call EXCEPT ![k] = [client |-> c, cap |-> CapacityFor(o),
                                       now |-> clock + skew, at |-> clock]]
    BY <1>1 DEF Allow
  <2>2. clock' = clock /\ clock \in Nat /\ call \in [Callers -> Call \cup {NoCall}]
    BY <1>1 DEF Allow, TypeOK
  <2> QED BY <2>1, <2>2, CapacityInUse, BucketAssumption
<1>2. ASSUME NEW k \in Callers, RunScript(k) \/ Drop(k)
      PROVE  CallsInTime'
  <2>1. call' = [call EXCEPT ![k] = NoCall] /\ clock' = clock
    BY <1>2 DEF RunScript, Drop
  <2> QED BY <2>1 DEF TypeOK
<1>3. CASE Tick
  <2>1. ASSUME NEW k \in Callers, call[k] # NoCall
        PROVE  call[k].at \in Nat /\ clock - call[k].at < MaxDelay
    BY <1>3, <2>1 DEF Tick, TypeOK, Call
  <2>2. clock' = clock + 1 /\ call' = call /\ clock \in Nat
    BY <1>3 DEF Tick, TypeOK
  <2> QED BY <2>1, <2>2, BucketAssumption
<1>4. CASE UNCHANGED vars
  BY <1>4 DEF vars
<1> QED BY <1>1, <1>2, <1>3, <1>4 DEF Next

(***************************************************************************)
(* TypeOK and the timeliness of the calls are invariants.                  *)
(***************************************************************************)
THEOREM TypeCorrect == Spec => []TypeOK
<1>1. Init => TypeOK /\ CallsInTime
  <2> SUFFICES ASSUME Init PROVE TypeOK /\ CallsInTime
    OBVIOUS
  <2>1. NoBucket \in Bucket /\ NoBucket.tokens <= MaxCapacity * Unit
    BY BucketAssumption DEF NoBucket, Bucket
  <2> QED BY <2>1 DEF Init, TypeOK, CallsInTime
<1>2. TypeOK /\ CallsInTime /\ [Next]_vars => (TypeOK /\ CallsInTime)'
  BY TypeStep, CallsStep
<1> QED BY <1>1, <1>2, PTL DEF Spec

-----------------------------------------------------------------------------
(***************************************************************************)
(* Refilling is additive: the refill up to a reading and from there to the *)
(* run is the refill up to the run, wherever the reading lies.             *)
(***************************************************************************)
LEMMA RefillInTwoParts ==
  ASSUME NEW r \in Nat, NEW tokens \in Int, NEW last \in Int, NEW now \in Int,
         NEW x \in Int, NEW y \in Int, x <= y, tokens + r * (x - last) >= 0
  PROVE  tokens + (now - last) * r + r * (y - now) >= 0
<1>1. r * x <= r * y
  BY ProductMonotonic
<1> QED BY <1>1

(***************************************************************************)
(* A bucket that expired was due a full bucket.                            *)
(***************************************************************************)
LEMMA ExpiredIsFull ==
  ASSUME NEW r \in Nat, NEW tokens \in Int, NEW last \in Int, NEW now \in Int, NEW x \in Int,
         NEW ttl \in Int, NEW d \in Int, NEW s \in Int, NEW full \in Int,
         r * (ttl - d - 2 * s) >= full,
         tokens + r * (x + s - last) >= 0,
         now >= x + ttl - d - s
  PROVE  full - r * now <= tokens - r * last
<1>1. r * (x + ttl - d - s) <= r * now
  BY ProductMonotonic
<1> QED BY <1>1

(***************************************************************************)
(* The elements of a history of grants.                                    *)
(***************************************************************************)
LEMMA GrantTypes ==
  ASSUME NEW g \in Seq(Grant)
  PROVE  /\ Len(g) \in Nat
         /\ \A i \in 1 .. Len(g) : g[i] \in Grant /\ g[i].now \in Int /\ g[i].run \in Nat
<1>1. \A i \in 1 .. Len(g) : g[i] \in Grant
  OBVIOUS
<1> QED BY <1>1 DEF Grant

(***************************************************************************)
(* What a script finds: no grant is forgotten, and no debt is left.        *)
(***************************************************************************)
LEMMA ScriptBounds ==
  ASSUME TypeOK, CallsInTime, RunInPast, NoDebt, GrantsArePaid,
         NEW k \in Callers, call[k] # NoCall
  PROVE  LET c == call[k].client IN
         /\ \A i \in 1 .. Len(granted[c]) :
              Tokens(k) - Refill * call[k].now
                <= (MaxCapacity - 1) * Unit - Refill * granted[c][i].now
                   - Unit * (Len(granted[c]) - i)
         /\ Tokens(k) - (IF Allowed(k) THEN Unit ELSE 0)
              + Refill * (clock + MaxSkew - call[k].now) >= 0
<1> DEFINE c == call[k].client
           now == call[k].now
           at == call[k].at
           last == bucket[c].last_refill
           tokens == bucket[c].tokens
           full == call[k].cap * Unit
           gained == (now - last) * Refill
<1>1. /\ call[k] \in Call /\ c \in Clients
      /\ Tokens(k) \in Int /\ Tokens(k) <= full /\ full \in Nat /\ full <= MaxCapacity * Unit
  BY TokensBound DEF Call
<1>2. tokens \in Int /\ last \in Int /\ bucket[c].expires \in Int
  <2>1. bucket[c] \in Bucket
    BY <1>1 DEF TypeOK
  <2> QED BY <2>1 DEF Bucket
<1>3. now \in Int /\ at \in Nat /\ clock \in Nat
  BY <1>1 DEF Call, TypeOK
<1>4. at <= clock /\ clock <= at + MaxDelay /\ at - MaxSkew <= now /\ now <= at + MaxSkew
  BY DEF CallsInTime
<1>5. /\ Refill \in Nat /\ Unit \in Nat /\ Unit > 0 /\ MaxSkew \in Nat /\ MaxDelay \in Nat
      /\ BucketTTL \in Nat /\ MaxCapacity \in Nat
  BY BucketAssumption
<1>6. /\ gained \in Int /\ Refill * now \in Int /\ Refill * last \in Int
      /\ gained = Refill * now - Refill * last
  <2> HIDE DEF now, last
  <2> QED BY <1>2, <1>3, <1>5
<1>7. Exists(bucket[c]) =>
        Tokens(k) <= tokens + gained /\ (Tokens(k) # full => Tokens(k) = tokens + gained)
  BY <1>1, <1>2, <1>6 DEF Tokens, Refilled
<1>8. ~Exists(bucket[c]) => Tokens(k) = full
  BY <1>1, <1>2, <1>6 DEF Tokens, Refilled
<1>9. bucket[c].expires # -1 =>
        /\ LastRun(c) \in Int /\ LastRun(c) <= clock
        /\ tokens + Refill * (LastRun(c) + MaxSkew - last) >= 0
  <2>1. LastRun(c) \in Int
    BY <1>2, <1>5 DEF LastRun
  <2>2. bucket[c].expires # -1 => LastRun(c) <= clock
    BY <1>1 DEF RunInPast
  <2>3. bucket[c].expires # -1 => tokens + Refill * (LastRun(c) + MaxSkew - last) >= 0
    BY <1>1 DEF NoDebt
  <2> QED BY <2>1, <2>2, <2>3
<1>10. Exists(bucket[c]) => bucket[c].expires # -1
  BY <1>2, <1>3 DEF Exists
<1>11. ~Exists(bucket[c]) => clock > LastRun(c) + BucketTTL
  BY <1>2, <1>3, <1>5 DEF Exists, LastRun
<1>12. ASSUME NEW i \in 1 .. Len(granted[c])
       PROVE  Tokens(k) - Refill * now
                <= (MaxCapacity - 1) * Unit - Refill * granted[c][i].now
                   - Unit * (Len(granted[c]) - i)
  <2> DEFINE paid == (MaxCapacity - 1) * Unit - Refill * granted[c][i].now
                       - Unit * (Len(granted[c]) - i)
  <2>1. Len(granted[c]) \in Nat /\ granted[c][i].now \in Int
    <3>1. granted[c] \in Seq(Grant)
      BY <1>1 DEF TypeOK
    <3> QED BY <3>1, GrantTypes
  <2>2. paid \in Int
    <3>1. Refill * granted[c][i].now \in Int /\ (MaxCapacity - 1) * Unit \in Int
      BY <2>1, <1>5
    <3>2. i \in Int /\ Len(granted[c]) - i \in Int
      BY <2>1
    <3>3. Unit * (Len(granted[c]) - i) \in Int
      BY <3>2, <1>5
    <3> QED BY <3>1, <3>3
  <2>3. tokens - Refill * last <= paid
    BY <1>1 DEF GrantsArePaid
  <2>4. bucket[c].expires # -1
    BY <2>1, <1>1 DEF RunInPast
  <2>5. ~Exists(bucket[c]) => full - Refill * now <= tokens - Refill * last
    <3>1. Refill * (BucketTTL - MaxDelay - 2 * MaxSkew) >= full
      BY ExpiryCoversRefill, <1>1, <1>5
    <3> DEFINE run == LastRun(c)
    <3>2. run \in Int /\ tokens + Refill * (run + MaxSkew - last) >= 0
      BY <1>9, <2>4
    <3>3. ~Exists(bucket[c]) => clock > run + BucketTTL
      BY <1>11
    <3> HIDE DEF c, now, at, last, tokens, full, run
    <3>4. ~Exists(bucket[c]) => now >= run + BucketTTL - MaxDelay - MaxSkew
      BY <1>3, <1>4, <1>5, <3>2, <3>3
    <3>5. BucketTTL \in Int /\ MaxDelay \in Int /\ MaxSkew \in Int /\ full \in Int
      BY <1>1, <1>5
    <3> QED BY <3>1, <3>2, <3>4, <3>5, <1>2, <1>3, <1>5, ExpiredIsFull
  <2> HIDE DEF c, now, at, last, tokens, full, gained, paid
  <2>6. Tokens(k) - Refill * now <= paid
    BY <1>1, <1>2, <1>6, <1>7, <1>8, <2>2, <2>3, <2>5
  <2> QED BY <2>6 DEF paid
<1>13. Tokens(k) - (IF Allowed(k) THEN Unit ELSE 0) + Refill * (clock + MaxSkew - now) >= 0
  <2> DEFINE since == Refill * (clock + MaxSkew - now)
             taken == IF Allowed(k) THEN Unit ELSE 0
  <2> HIDE DEF c, now, at, last, tokens, full
  <2>1. since \in Int /\ since >= 0
    <3>1. clock + MaxSkew - now \in Nat
      BY <1>3, <1>4, <1>5
    <3> QED BY <3>1, <1>5
  <2>2. /\ taken \in Int /\ (Allowed(k) => taken = Unit) /\ (~Allowed(k) => taken = 0)
    BY <1>5
  <2>3. Allowed(k) => Tokens(k) >= Unit
    BY DEF Allowed
  <2>4. Exists(bucket[c]) => tokens + gained + since >= 0
    <3>1. Exists(bucket[c]) =>
            /\ LastRun(c) + MaxSkew \in Int /\ clock + MaxSkew \in Int
            /\ LastRun(c) + MaxSkew <= clock + MaxSkew
      BY <1>3, <1>5, <1>9, <1>10
    <3> QED BY <3>1, <1>2, <1>3, <1>5, <1>9, <1>10, RefillInTwoParts
  <2> HIDE DEF since, taken, gained
  <2>5. Tokens(k) - taken + since >= 0
    BY <2>1, <2>2, <2>3, <2>4, <1>1, <1>2, <1>5, <1>6, <1>7, <1>8
  <2> QED BY <2>5 DEF since, taken
<1> QED BY <1>12, <1>13

(***************************************************************************)
(* The effect of a script on its client's bucket and history.              *)
(***************************************************************************)
LEMMA ScriptEffect ==
  ASSUME TypeOK, CallsInTime, NEW k \in Callers, RunScript(k)
  PROVE  LET c == call[k].client
             n == Len(granted[c])
         IN  /\ c \in Clients /\ clock' = clock
             /\ bucket'[c].tokens = Tokens(k) - (IF Allowed(k) THEN Unit ELSE 0)
             /\ bucket'[c].last_refill = call[k].now
             /\ bucket'[c].expires = clock + BucketTTL
             /\ ~Allowed(k) => granted'[c] = granted[c]
             /\ Allowed(k) => /\ Len(granted'[c]) = n + 1
                              /\ \A i \in 1 .. n : granted'[c][i] = granted[c][i]
                              /\ granted'[c][n + 1] = [now |-> call[k].now, run |-> clock]
             /\ \A d \in Clients \ {c} : bucket'[d] = bucket[d] /\ granted'[d] = granted[d]
<1> DEFINE c == call[k].client
           new == [tokens      |-> Tokens(k) - (IF Allowed(k) THEN Unit ELSE 0),
                   last_refill |-> call[k].now,
                   expires     |-> clock + BucketTTL]
           grant == [now |-> call[k].now, run |-> clock]
<1>1. call[k] \in Call /\ c \in Clients
  BY TokensBound DEF RunScript, Call
<1>2. bucket' = [bucket EXCEPT ![c] = new] /\ clock' = clock
  BY DEF RunScript, RenewedExpiry
<1>3. granted' = IF Allowed(k) THEN [granted EXCEPT ![c] = Append(@, grant)] ELSE granted
  BY DEF RunScript
<1>4. bucket \in [Clients -> Bucket] /\ granted \in [Clients -> Seq(Grant)] /\ grant \in Grant
  BY <1>1 DEF TypeOK, Call, Grant
<1>5. bucket'[c] = new /\ \A d \in Clients \ {c} : bucket'[d] = bucket[d]
  BY <1>1, <1>2, <1>4
<1>6. \A d \in Clients \ {c} : granted'[d] = granted[d]
  BY <1>3, <1>4
<1>7. ~Allowed(k) => granted'[c] = granted[c]
  BY <1>3
<1>8. Allowed(k) => granted'[c] = Append(granted[c], grant)
  BY <1>1, <1>3, <1>4
<1>9. ASSUME NEW g \in Seq(Grant), NEW x \in Grant
      PROVE  /\ Len(Append(g, x)) = Len(g) + 1
             /\ \A i \in 1 .. Len(g) : Append(g, x)[i] = g[i]
             /\ Append(g, x)[Len(g) + 1] = x
  OBVIOUS
<1>10. granted[c] \in Seq(Grant)
  BY <1>1, <1>4
<1> HIDE DEF c, grant
<1>11. Allowed(k) => /\ Len(granted'[c]) = Len(granted[c]) + 1
                     /\ \A i \in 1 .. Len(granted[c]) : granted'[c][i] = granted[c][i]
                     /\ granted'[c][Len(granted[c]) + 1] = grant
  BY <1>4, <1>8, <1>9, <1>10
<1>12. /\ new.tokens = Tokens(k) - (IF Allowed(k) THEN Unit ELSE 0)
       /\ new.last_refill = call[k].now /\ new.expires = clock + BucketTTL
  OBVIOUS
<1> QED BY <1>1, <1>2, <1>5, <1>6, <1>7, <1>11, <1>12 DEF c, grant

(***************************************************************************)
(* What a grant leaves in the bucket bounds the grants before it.          *)
(***************************************************************************)
LEMMA PaidImpliesLimit ==
  ASSUME NEW u \in Int, NEW m \in Int, NEW r \in Int, NEW tokens \in Int, tokens >= 0,
         NEW now \in Int, NEW then \in Int, NEW between \in Int,
         tokens - r * now <= (m - 1) * u - r * then - u * between
  PROVE  u * (between + 1) <= m * u + r * (now - then)
<1>1. (m - 1) * u = m * u - u /\ u * (between + 1) = u * between + u
      /\ r * (now - then) = r * now - r * then
  OBVIOUS
<1>2. m * u \in Int /\ u * between \in Int /\ r * now \in Int /\ r * then \in Int
  OBVIOUS
<1> QED BY <1>1, <1>2

(***************************************************************************)
(* A script keeps the accounts of its client; the other clients' accounts  *)
(* are not touched.                                                        *)
(***************************************************************************)
LEMMA ScriptStep ==
  ASSUME BucketInv, NEW k \in Callers, RunScript(k)
  PROVE  RunInPast' /\ NoDebt' /\ GrantsArePaid' /\ GrantsInTime' /\ SlidingLimit'
<1> DEFINE c == call[k].client
           now == call[k].now
           n == Len(granted[c])
           taken == IF Allowed(k) THEN Unit ELSE 0
<1>1. TypeOK /\ CallsInTime /\ call[k] # NoCall
  BY DEF BucketInv, RunScript
<1>2. /\ c \in Clients /\ clock' = clock
      /\ bucket'[c].tokens = Tokens(k) - taken
      /\ bucket'[c].last_refill = now
      /\ bucket'[c].expires = clock + BucketTTL
      /\ ~Allowed(k) => granted'[c] = granted[c]
      /\ Allowed(k) => /\ Len(granted'[c]) = n + 1
                       /\ \A i \in 1 .. n : granted'[c][i] = granted[c][i]
                       /\ granted'[c][n + 1] = [now |-> now, run |-> clock]
  BY <1>1, ScriptEffect
<1>3. \A d \in Clients \ {c} : bucket'[d] = bucket[d] /\ granted'[d] = granted[d]
  BY <1>1, ScriptEffect
<1>4. /\ call[k] \in Call /\ Tokens(k) \in Int /\ Tokens(k) <= MaxCapacity * Unit
      /\ now \in Int /\ clock \in Nat
  BY <1>1, TokensBound, BucketAssumption DEF Call, TypeOK
<1>5. /\ Refill \in Nat /\ Unit \in Nat /\ Unit > 0 /\ MaxSkew \in Nat /\ MaxDelay \in Nat
      /\ BucketTTL \in Nat /\ MaxCapacity \in Nat
  BY BucketAssumption
<1>6. n \in Nat /\ \A i \in 1 .. n : granted[c][i].now \in Int /\ granted[c][i].run \in Nat
  <2>1. granted[c] \in Seq(Grant)
    BY <1>1, <1>2 DEF TypeOK
  <2> QED BY <2>1, GrantTypes
<1>7. taken \in Nat /\ (Allowed(k) => taken = Unit /\ Tokens(k) - taken >= 0)
                  /\ (~Allowed(k) => taken = 0)
  BY <1>4, <1>5 DEF Allowed
<1>8. /\ \A i \in 1 .. n :
           Tokens(k) - Refill * now
             <= (MaxCapacity - 1) * Unit - Refill * granted[c][i].now - Unit * (n - i)
      /\ Tokens(k) - taken + Refill * (clock + MaxSkew - now) >= 0
  BY <1>1, ScriptBounds DEF BucketInv
<1>9. /\ call[k].at <= clock /\ clock <= call[k].at + MaxDelay /\ call[k].at \in Nat
      /\ call[k].at - MaxSkew <= now /\ now <= call[k].at + MaxSkew
  BY <1>1, <1>4 DEF CallsInTime, Call
<1> HIDE DEF c, now, n, taken
<1>10. RunInPast'
  <2>1. bucket'[c].expires # -1 /\ bucket'[c].expires - BucketTTL = clock
    BY <1>2, <1>4, <1>5
  <2>2. RunInPast
    BY DEF BucketInv
  <2> QED BY <1>2, <1>3, <1>4, <2>1, <2>2 DEF RunInPast, LastRun
<1>11. NoDebt'
  <2>1. bucket'[c].expires - BucketTTL = clock
    BY <1>2, <1>4, <1>5
  <2>2. bucket'[c].tokens + Refill * (clock + MaxSkew - bucket'[c].last_refill) >= 0
    BY <1>2, <1>8
  <2>3. NoDebt
    BY DEF BucketInv
  <2>4. ASSUME NEW d \in Clients, bucket'[d].expires # -1
        PROVE  bucket'[d].tokens
                 + Refill * ((bucket'[d].expires - BucketTTL) + MaxSkew - bucket'[d].last_refill) >= 0
    <3>1. CASE d = c
      BY <3>1, <2>1, <2>2
    <3>2. CASE d # c
      BY <3>2, <2>3, <2>4, <1>3 DEF NoDebt, LastRun
    <3> QED BY <3>1, <3>2
  <2> QED BY <2>4 DEF NoDebt, LastRun
<1>12. GrantsArePaid'
  <2>1. ASSUME NEW i \in 1 .. Len(granted'[c])
        PROVE  bucket'[c].tokens - Refill * bucket'[c].last_refill
                 <= (MaxCapacity - 1) * Unit - Refill * granted'[c][i].now
                    - Unit * (Len(granted'[c]) - i)
    <3>1. CASE ~Allowed(k)
      BY <3>1, <1>2, <1>4, <1>6, <1>7, <1>8 DEF n
    <3>2. CASE Allowed(k) /\ i <= n
      <4> DEFINE paid == (MaxCapacity - 1) * Unit - Refill * granted[c][i].now
      <4>1. i \in 1 .. n
        BY <3>2, <1>6
      <4>2. Tokens(k) - Refill * now <= paid - Unit * (n - i)
        BY <4>1, <1>8
      <4>3. paid \in Int /\ Refill * now \in Int /\ Unit * (n - i) \in Int
            /\ Unit * ((n + 1) - i) = Unit * (n - i) + Unit
        BY <4>1, <1>4, <1>5, <1>6
      <4> HIDE DEF paid
      <4>4. Tokens(k) - taken - Refill * now <= paid - Unit * ((n + 1) - i)
        BY <4>2, <4>3, <3>2, <1>4, <1>5, <1>7
      <4> QED BY <4>1, <4>4, <3>2, <1>2 DEF paid
    <3>3. CASE Allowed(k) /\ i = n + 1
      <4>1. granted'[c][i].now = now /\ Len(granted'[c]) - i = 0
        BY <3>3, <1>2, <1>6
      <4>2. (MaxCapacity - 1) * Unit = MaxCapacity * Unit - Unit /\ Unit * 0 = 0
            /\ MaxCapacity * Unit \in Int /\ Refill * now \in Int
        BY <1>4, <1>5
      <4>3. Tokens(k) - taken - Refill * now <= (MaxCapacity - 1) * Unit - Refill * now - Unit * 0
        BY <4>2, <3>3, <1>4, <1>5, <1>7
      <4> QED BY <4>1, <4>3, <1>2
    <3>4. Allowed(k) => i <= n \/ i = n + 1
      BY <1>2, <1>6
    <3> QED BY <3>1, <3>2, <3>3, <3>4
  <2>2. GrantsArePaid
    BY DEF BucketInv
  <2> QED BY <2>1, <2>2, <1>3 DEF GrantsArePaid
<1>13. GrantsInTime'
  <2>1. clock - MaxDelay - MaxSkew <= now /\ now <= clock + MaxSkew
    BY <1>4, <1>5, <1>9
  <2>2. ASSUME NEW i \in 1 .. Len(granted'[c])
        PROVE  /\ granted'[c][i].run - MaxDelay - MaxSkew <= granted'[c][i].now
               /\ granted'[c][i].now <= granted'[c][i].run + MaxSkew
    <3>1. Allowed(k) => i \in 1 .. n \/ i = n + 1
      BY <1>2, <1>6
    <3>2. \A j \in 1 .. n : /\ granted[c][j].run - MaxDelay - MaxSkew <= granted[c][j].now
                            /\ granted[c][j].now <= granted[c][j].run + MaxSkew
      BY <1>2 DEF BucketInv, GrantsInTime, n
    <3> QED BY <2>1, <3>1, <3>2, <1>2 DEF n
  <2>3. GrantsInTime
    BY DEF BucketInv
  <2> QED BY <2>2, <2>3, <1>3 DEF GrantsInTime
<1>14. SlidingLimit'
  <2>1. ASSUME NEW i \in 1 .. Len(granted'[c]), NEW j \in 1 .. Len(granted'[c]), i <= j
        PROVE  Unit * (j - i + 1)
                 <= MaxCapacity * Unit + Refill * (granted'[c][j].now - granted'[c][i].now)
    <3>1. CASE ~Allowed(k) \/ j <= n
      <4>1. i \in 1 .. n /\ j \in 1 .. n /\ granted'[c][i] = granted[c][i]
            /\ granted'[c][j] = granted[c][j]
        BY <3>1, <2>1, <1>2, <1>6 DEF n
      <4>2. SlidingLimit
        BY DEF BucketInv
      <4> QED BY <4>1, <4>2, <2>1, <1>2 DEF SlidingLimit, n
    <3>2. CASE Allowed(k) /\ j = n + 1
      <4> DEFINE then == granted'[c][i].now
                 left == bucket'[c].tokens
                 between == j - i
      <4>1. granted'[c][j].now = now /\ Len(granted'[c]) = j
        BY <3>2, <1>2
      <4>2. left - Refill * now <= (MaxCapacity - 1) * Unit - Refill * then - Unit * between
        BY <4>1, <1>2, <1>12 DEF GrantsArePaid
      <4>3. left \in Int /\ left >= 0
        BY <3>2, <1>2, <1>4, <1>7
      <4>4. then \in Int
        BY <3>2, <2>1, <4>1, <1>2, <1>4, <1>6
      <4>5. between \in Int
        BY <2>1, <1>6, <3>2
      <4> HIDE DEF then, left, between
      <4>6. Unit * (between + 1) <= MaxCapacity * Unit + Refill * (now - then)
        BY <4>2, <4>3, <4>4, <4>5, <1>4, <1>5, PaidImpliesLimit
      <4> QED BY <4>1, <4>6 DEF between, then
    <3>3. Allowed(k) => j <= n \/ j = n + 1
      BY <1>2, <1>6
    <3> QED BY <3>1, <3>2, <3>3
  <2>2. SlidingLimit
    BY DEF BucketInv
  <2> QED BY <2>1, <2>2, <1>3 DEF SlidingLimit
<1> QED BY <1>10, <1>11, <1>12, <1>13, <1>14

(***************************************************************************)
(* The invariant is kept by every step.                                    *)
(***************************************************************************)
LEMMA InvStep ==
  ASSUME BucketInv, [Next]_vars
  PROVE  BucketInv'
<1>1. TypeOK' /\ CallsInTime'
  BY TypeStep, CallsStep DEF BucketInv
<1>2. ASSUME bucket' = bucket, granted' = granted, clock <= clock', clock' \in Int
      PROVE  RunInPast' /\ NoDebt' /\ GrantsArePaid' /\ GrantsInTime' /\ SlidingLimit'
  <2>1. \A c \in Clients : LastRun(c)' = LastRun(c) /\ LastRun(c) \in Int
    <3>1. \A c \in Clients : bucket[c].expires \in Int
      BY DEF BucketInv, TypeOK, Bucket
    <3> QED BY <3>1, <1>2, BucketAssumption DEF LastRun
  <2>2. clock \in Int
    BY DEF BucketInv, TypeOK
  <2>3. RunInPast'
    BY <2>1, <2>2, <1>2 DEF BucketInv, RunInPast
  <2>4. NoDebt'
    BY <2>1, <1>2 DEF BucketInv, NoDebt
  <2> QED BY <2>3, <2>4, <1>2 DEF BucketInv, GrantsArePaid, GrantsInTime, SlidingLimit
<1>3. clock \in Nat
  BY DEF BucketInv, TypeOK
<1>4. ASSUME NEW k \in Callers, RunScript(k)
      PROVE  RunInPast' /\ NoDebt' /\ GrantsArePaid' /\ GrantsInTime' /\ SlidingLimit'
  BY <1>4, ScriptStep
<1>5. CASE \E k \in Callers, c \in Clients, o \in Overrides : Allow(k, c, o)
  BY <1>2, <1>3, <1>5, <1>1 DEF Allow, BucketInv
<1>6. CASE \E k \in Callers : Drop(k)
  BY <1>2, <1>3, <1>6, <1>1 DEF Drop, BucketInv
<1>7. CASE Tick
  BY <1>2, <1>3, <1>7, <1>1 DEF Tick, BucketInv
<1>8. CASE UNCHANGED vars
  BY <1>2, <1>3, <1>8, <1>1 DEF vars, BucketInv
<1> QED BY <1>1, <1>4, <1>5, <1>6, <1>7, <1>8 DEF Next, BucketInv

LEMMA InvInit == Init => BucketInv
<1> SUFFICES ASSUME Init PROVE BucketInv
  OBVIOUS
<1>1. NoBucket \in Bucket /\ NoBucket.tokens <= MaxCapacity * Unit /\ NoBucket.expires = -1
  BY BucketAssumption DEF NoBucket, Bucket
<1>2. TypeOK /\ CallsInTime
  BY <1>1 DEF Init, TypeOK, CallsInTime
<1>3. RunInPast /\ NoDebt
  BY <1>1 DEF Init, RunInPast, NoDebt
<1>4. \A c \in Clients : Len(granted[c]) = 0
  BY DEF Init
<1>5. GrantsArePaid /\ GrantsInTime /\ SlidingLimit
  BY <1>4 DEF GrantsArePaid, GrantsInTime, SlidingLimit
<1> QED BY <1>2, <1>3, <1>5 DEF BucketInv

(***************************************************************************)
(* The inductive invariant.                                                *)
(***************************************************************************)
THEOREM Accounting == Spec => []BucketInv
BY InvInit, InvStep, PTL DEF Spec

(***************************************************************************)
(* The sliding limit holds for all numbers of clients, callers and rules,  *)
(* all capacities, rates, delays and skews.                                *)
(***************************************************************************)
THEOREM Limited == Spec => []SlidingLimit
<1>1. BucketInv => SlidingLimit
  BY DEF BucketInv
<1> QED BY <1>1, Accounting, PTL

(***************************************************************************)
(* And so does the limit on Redis's clock.                                 *)
(***************************************************************************)
THEOREM LimitedInRealTime == Spec => []RealTimeLimit
<1>1. BucketInv => RealTimeLimit
  <2> SUFFICES ASSUME BucketInv, NEW c \in Clients,
                      NEW i \in 1 .. Len(granted[c]), NEW j \in 1 .. Len(granted[c]), i <= j
               PROVE  Unit * (j - i + 1)
                        <= MaxCapacity * Unit
                           + Refill * (granted[c][j].run - granted[c][i].run
                                       + MaxDelay + 2 * MaxSkew)
    BY DEF RealTimeLimit
  <2> DEFINE readings == granted[c][j].now - granted[c][i].now
             runs == granted[c][j].run - granted[c][i].run + MaxDelay + 2 * MaxSkew
  <2>1. Unit * (j - i + 1) <= MaxCapacity * Unit + Refill * readings
    BY DEF BucketInv, SlidingLimit
  <2>2. granted[c] \in Seq(Grant)
    BY DEF BucketInv, TypeOK
  <2>3. readings \in Int /\ runs \in Int /\ readings <= runs
    <3> DEFINE ni == granted[c][i].now   ri == granted[c][i].run
               nj == granted[c][j].now   rj == granted[c][j].run
    <3>1. ni \in Int /\ nj \in Int /\ ri \in Nat /\ rj \in Nat
      BY <2>2, GrantTypes
    <3>2. ri - MaxDelay - MaxSkew <= ni /\ nj <= rj + MaxSkew
      BY DEF BucketInv, GrantsInTime
    <3>3. MaxDelay \in Nat /\ MaxSkew \in Nat
      BY BucketAssumption
    <3> HIDE DEF ni, nj, ri, rj
    <3>4. /\ nj - ni \in Int /\ rj - ri + MaxDelay + 2 * MaxSkew \in Int
          /\ nj - ni <= rj - ri + MaxDelay + 2 * MaxSkew
      BY <3>1, <3>2, <3>3
    <3> QED BY <3>4 DEF ni, nj, ri, rj
  <2> HIDE DEF readings, runs
  <2>4. Refill * readings <= Refill * runs
    BY <2>3, ProductMonotonic, BucketAssumption
  <2>5. /\ Refill * readings \in Int /\ Refill * runs \in Int
        /\ Unit * (j - i + 1) \in Int /\ MaxCapacity * Unit \in Int
    <3>1. j - i + 1 \in Int
      BY <2>2, GrantTypes
    <3> QED BY <3>1, <2>3, BucketAssumption
  <2>6. Unit * (j - i + 1) <= MaxCapacity * Unit + Refill * runs
    BY <2>1, <2>4, <2>5
  <2> QED BY <2>6 DEF runs
<1> QED BY <1>1, Accounting, PTL
=============================================================================
