--------------------------- MODULE ReplayGuardProofs ---------------------------
(***************************************************************************)
(* Proofs about the replay guard.  Those of at-most-once acceptance assume *)
(* NonceCoversWindow; the others hold for every TTL and window.            *)
(***************************************************************************)
EXTENDS ReplayGuard, SequenceTheorems, TLAPS

(***************************************************************************)
(* If neither a client's id nor its nonce has a colon, only its own        *)
(* messages with that nonce have their key.                                *)
(***************************************************************************)
LEMMA PlainKey ==
  ASSUME NEW m \in Messages, NEW n \in Messages, Plain(m), KeyOf(n) = KeyOf(m)
  PROVE  Same(m, n)
<1> DEFINE s == n.client
           t == n.nonce
           u == m.client
           v == m.nonce
<1>1. /\ s \in Seq(Parts) /\ t \in Seq(Parts) /\ u \in Seq(Parts) /\ v \in Seq(Parts)
      /\ s # <<>> /\ t # <<>> /\ Len(u) = 1 /\ Len(v) = 1 /\ s \o t = u \o v
  BY GuardAssumption DEF Plain, KeyOf
<1> SUFFICES s = u /\ t = v
  BY DEF Same
<1> HIDE DEF s, t, u, v
<1>2. Len(s) \in Nat \ {0} /\ Len(t) \in Nat \ {0}
  BY <1>1, EmptySeq, LenProperties
<1>3. Len(s) = 1 /\ Len(t) = 1
  <2>1. Len(s) + Len(t) = Len(u) + Len(v)
    BY <1>1, ConcatProperties
  <2> QED BY <1>1, <1>2, <2>1
<1>4. s[1] = u[1] /\ t[1] = v[1]
  <2>1. (s \o t)[1] = s[1] /\ (u \o v)[1] = u[1] /\ (s \o t)[2] = t[1] /\ (u \o v)[2] = v[1]
    BY <1>1, <1>3, ConcatProperties
  <2> QED BY <1>1, <2>1
<1> QED BY <1>1, <1>3, <1>4, SeqEqual

(***************************************************************************)
(* A message accepted now is a message of the window, widened by the skew  *)
(* and, on the late side, by the delay of its SET.                         *)
(***************************************************************************)
LEMMA CallTypes ==
  ASSUME TypeOK, CallsInTime, NEW k \in Callers, call[k] # NoCall
  PROVE  /\ call[k] \in Call /\ call[k].msg \in Messages /\ KeyOf(call[k].msg) \in Keys
         /\ clock \in Nat
         /\ Timed(call[k].msg) =>
              /\ call[k].msg.ts \in Int
              /\ clock >= call[k].msg.ts - Window - MaxSkew
              /\ clock <= call[k].msg.ts + Window + MaxSkew + MaxDelay
<1>1. call[k] \in Call
  BY DEF TypeOK
<1>2. call[k].msg \in Messages /\ call[k].at \in Nat
  BY <1>1 DEF Call
<1>3. KeyOf(call[k].msg) \in Keys
  BY <1>2 DEF Keys
<1>4. clock \in Nat
  BY DEF TypeOK
<1>5. ASSUME Timed(call[k].msg)
      PROVE  /\ call[k].msg.ts \in Int
             /\ clock >= call[k].msg.ts - Window - MaxSkew
             /\ clock <= call[k].msg.ts + Window + MaxSkew + MaxDelay
  <2> DEFINE ts == call[k].msg.ts
             at == call[k].at
  <2>1. ts \in Int
    BY <1>2, <1>5, GuardAssumption DEF Timed
  <2>2. at \in Nat /\ at <= clock /\ clock <= at + MaxDelay
        /\ ts - Window - MaxSkew <= at /\ at <= ts + Window + MaxSkew
    BY <1>2, <1>5 DEF CallsInTime
  <2> HIDE DEF ts, at
  <2>3. clock >= ts - Window - MaxSkew /\ clock <= ts + Window + MaxSkew + MaxDelay
    BY <1>4, <2>1, <2>2, GuardAssumption
  <2> QED BY <2>1, <2>3 DEF ts
<1> QED BY <1>1, <1>2, <1>3, <1>4, <1>5

(***************************************************************************)
(* Redis running a SET keeps every nonce that exists, and spends the key.  *)
(***************************************************************************)
LEMMA SetEffect ==
  ASSUME TypeOK, NEW key \in Keys, SetNX(key)
  PROVE  /\ nonces' \in [Keys -> Int]
         /\ \A x \in Keys : nonces'[x] >= nonces[x] /\ nonces'[x] <= clock + NonceTTL
         /\ \A x \in Keys \ {key} : nonces'[x] = nonces[x]
         /\ ~Exists(key) => nonces'[key] = clock + NonceTTL
         /\ Exists(key) => nonces' = nonces
<1>1. clock \in Nat /\ nonces \in [Keys -> Int] /\ \A x \in Keys : nonces[x] <= clock + NonceTTL
  BY DEF TypeOK
<1>2. NonceTTL \in Nat
  BY GuardAssumption
<1> QED BY <1>1, <1>2 DEF SetNX, Exists

LEMMA TypeStep ==
  ASSUME TypeOK, CallsInTime, [Next]_vars
  PROVE  TypeOK'
<1>1. ASSUME NEW k \in Callers, NEW m \in Messages, Validate(k, m)
      PROVE  TypeOK'
  <2>1. [msg |-> m, at |-> clock] \in Call
    BY DEF TypeOK, Call
  <2> QED BY <1>1, <2>1 DEF Validate, TypeOK
<1>2. ASSUME NEW k \in Callers, Reply(k) \/ ReplyLost(k)
      PROVE  TypeOK'
  <2> DEFINE m == call[k].msg
  <2>1. m \in Messages /\ KeyOf(m) \in Keys
    BY <1>2, CallTypes DEF Reply, ReplyLost
  <2>2. SetNX(KeyOf(m))
    BY <1>2 DEF Reply, ReplyLost
  <2>3. nonces' \in [Keys -> Int] /\ \A x \in Keys : nonces'[x] <= clock + NonceTTL
    BY <2>1, <2>2, SetEffect
  <2>4. call' = [call EXCEPT ![k] = NoCall] /\ clock' = clock
    BY <1>2 DEF Reply, ReplyLost
  <2>5. accepted' = accepted \/ accepted' = [accepted EXCEPT ![m] = @ + 1]
    BY <1>2 DEF Reply, ReplyLost
  <2>6. burnt' \subseteq burnt \cup {m} /\ reused' \subseteq reused \cup {m}
    BY <1>2 DEF Reply, ReplyLost
  <2> HIDE DEF m
  <2> QED BY <2>1, <2>3, <2>4, <2>5, <2>6 DEF TypeOK
<1>3. ASSUME NEW k \in Callers, Drop(k)
      PROVE  TypeOK'
  BY <1>3 DEF Drop, TypeOK
<1>4. CASE Tick
  BY <1>4, GuardAssumption DEF Tick, TypeOK
<1>5. CASE UNCHANGED vars
  BY <1>5 DEF vars, TypeOK
<1> QED BY <1>1, <1>2, <1>3, <1>4, <1>5 DEF Next

LEMMA CallsStep ==
  ASSUME TypeOK, CallsInTime, [Next]_vars
  PROVE  CallsInTime'
<1>1. ASSUME NEW k \in Callers, NEW m \in Messages, Validate(k, m)
      PROVE  CallsInTime'
  <2>1. PICK skew \in -MaxSkew .. MaxSkew : ~Drifts(clock + skew, m)
    BY <1>1 DEF Validate
  <2>2. Timed(m) => m.ts - Window - MaxSkew <= clock /\ clock <= m.ts + Window + MaxSkew
    <3>1. clock \in Nat /\ (Timed(m) => m.ts \in Int)
      BY GuardAssumption DEF TypeOK, Timed
    <3> QED BY <2>1, <3>1, GuardAssumption DEF Drifts
  <2>3. call' = [call EXCEPT ![k] = [msg |-> m, at |-> clock]] /\ clock' = clock
    BY <1>1 DEF Validate
  <2>4. clock \in Nat /\ MaxDelay \in Nat
    BY GuardAssumption DEF TypeOK
  <2> QED BY <2>2, <2>3, <2>4 DEF CallsInTime, TypeOK
<1>2. ASSUME NEW k \in Callers, Reply(k) \/ ReplyLost(k) \/ Drop(k)
      PROVE  CallsInTime'
  <2>1. call' = [call EXCEPT ![k] = NoCall] /\ clock' = clock
    BY <1>2 DEF Reply, ReplyLost, Drop
  <2> QED BY <2>1 DEF CallsInTime, TypeOK
<1>3. CASE Tick
  <2>1. ASSUME NEW k \in Callers, call[k] # NoCall
        PROVE  call[k].at \in Nat /\ clock - call[k].at < MaxDelay
    BY <1>3, <2>1 DEF Tick, TypeOK, Call
  <2>2. clock' = clock + 1 /\ call' = call /\ clock \in Nat
    BY <1>3 DEF Tick, TypeOK
  <2> QED BY <2>1, <2>2, GuardAssumption DEF CallsInTime
<1>4. CASE UNCHANGED vars
  BY <1>4 DEF vars, CallsInTime
<1> QED BY <1>1, <1>2, <1>3, <1>4 DEF Next

-----------------------------------------------------------------------------
(***************************************************************************)
(* What one delivery does to the histories when Redis runs its SET.        *)
(***************************************************************************)
LEMMA DeliveryEffect ==
  ASSUME TypeOK, CallsInTime, NEW k \in Callers, Reply(k) \/ ReplyLost(k)
  PROVE  LET m == call[k].msg IN
         /\ m \in Messages
         /\ Exists(KeyOf(m)) =>
              /\ nonces' = nonces /\ accepted' = accepted /\ burnt' = burnt
              /\ reused' \subseteq reused \cup {m}
         /\ ~Exists(KeyOf(m)) =>
              /\ nonces'[KeyOf(m)] = clock + NonceTTL
              /\ \A x \in Keys : nonces'[x] >= nonces[x]
              /\ \A x \in Keys \ {KeyOf(m)} : nonces'[x] = nonces[x]
              /\ reused' = reused
              /\ \/ accepted' = [accepted EXCEPT ![m] = @ + 1] /\ burnt' = burnt
                 \/ accepted' = accepted /\ burnt' = burnt \cup {m}
<1> DEFINE m == call[k].msg
<1>1. m \in Messages /\ KeyOf(m) \in Keys
  BY CallTypes DEF Reply, ReplyLost
<1>2. SetNX(KeyOf(m))
  BY DEF Reply, ReplyLost
<1>3. /\ \A x \in Keys : nonces'[x] >= nonces[x]
      /\ \A x \in Keys \ {KeyOf(m)} : nonces'[x] = nonces[x]
      /\ ~Exists(KeyOf(m)) => nonces'[KeyOf(m)] = clock + NonceTTL
      /\ Exists(KeyOf(m)) => nonces' = nonces
  BY <1>1, <1>2, SetEffect
<1>4. /\ Exists(KeyOf(m)) =>
           accepted' = accepted /\ burnt' = burnt /\ reused' \subseteq reused \cup {m}
      /\ ~Exists(KeyOf(m)) =>
           /\ reused' = reused
           /\ \/ accepted' = [accepted EXCEPT ![m] = @ + 1] /\ burnt' = burnt
              \/ accepted' = accepted /\ burnt' = burnt \cup {m}
  BY DEF Reply, ReplyLost
<1> HIDE DEF m
<1> QED BY <1>1, <1>3, <1>4 DEF m

(***************************************************************************)
(* The other steps leave the nonces and the histories alone.               *)
(***************************************************************************)
LEMMA OtherStep ==
  ASSUME [Next]_vars, \A k \in Callers : ~Reply(k) /\ ~ReplyLost(k)
  PROVE  nonces' = nonces /\ accepted' = accepted /\ burnt' = burnt /\ reused' = reused
BY DEF Next, vars, Validate, Drop, Tick

(***************************************************************************)
(* The invariant is kept by every step.                                    *)
(***************************************************************************)
LEMMA InvStep ==
  ASSUME GuardInv, [Next]_vars
  PROVE  GuardInv'
<1>1. TypeOK /\ CallsInTime /\ TypeOK' /\ CallsInTime'
  BY TypeStep, CallsStep DEF GuardInv
<1>2. ASSUME NEW k \in Callers, Reply(k) \/ ReplyLost(k)
      PROVE  NonceKept' /\ NonceSpent' /\ NoFalseReuse'
  <2>0. call[k].msg \in Messages
    BY <1>1, <1>2, CallTypes DEF Reply, ReplyLost
  <2> PICK m \in Messages : m = call[k].msg
    BY <2>0
  <2>1. /\ m \in Messages /\ KeyOf(m) \in Keys /\ clock \in Nat
        /\ Timed(m) => m.ts \in Int /\ clock >= m.ts - Window - MaxSkew
    BY <1>1, <1>2, CallTypes DEF Reply, ReplyLost
  <2>2. CASE Exists(KeyOf(m))
    <3>1. /\ nonces' = nonces /\ accepted' = accepted /\ burnt' = burnt
          /\ reused' \subseteq reused \cup {m}
      BY <2>2, <1>1, <1>2, DeliveryEffect
    <3>2. \A n \in Messages : Spent(n)' = Spent(n)
      BY <3>1 DEF Spent
    <3>3. NonceKept' /\ NonceSpent'
      BY <3>1, <3>2 DEF GuardInv, NonceKept, NonceSpent
    <3>4. PICK n \in Messages : Spent(n) /\ KeyOf(n) = KeyOf(m)
      <4>1. nonces[KeyOf(m)] # -1
        BY <2>1, <2>2 DEF Exists
      <4> QED BY <2>1, <4>1 DEF GuardInv, NonceSpent
    <3>5. IF Plain(m) THEN Same(m, n) ELSE ReadsSame(m, n)
      BY <3>4, PlainKey DEF KeyOf, ReadsSame
    <3>6. NoFalseReuse'
      BY <3>1, <3>2, <3>4, <3>5, <1>1 DEF GuardInv, NoFalseReuse, TypeOK
    <3> QED BY <3>3, <3>6
  <2>3. CASE ~Exists(KeyOf(m))
    <3>1. /\ nonces'[KeyOf(m)] = clock + NonceTTL
          /\ \A x \in Keys : nonces'[x] >= nonces[x]
          /\ \A x \in Keys \ {KeyOf(m)} : nonces'[x] = nonces[x]
          /\ reused' = reused
      BY <2>3, <1>1, <1>2, DeliveryEffect
    <3>2. \/ accepted' = [accepted EXCEPT ![m] = @ + 1] /\ burnt' = burnt
          \/ accepted' = accepted /\ burnt' = burnt \cup {m}
      BY <2>3, <1>1, <1>2, DeliveryEffect
    <3>3. /\ accepted \in [Messages -> Nat] /\ nonces \in [Keys -> Int] /\ nonces' \in [Keys -> Int]
          /\ accepted' \in [Messages -> Nat] /\ \A n \in Messages : KeyOf(n) \in Keys
          /\ \A n \in Messages : Timed(n) => n.ts \in Int
          /\ Window \in Nat /\ MaxSkew \in Nat /\ NonceTTL \in Nat
      BY <1>1, GuardAssumption DEF TypeOK, Keys, Timed
    <3>4. ASSUME NEW n \in Messages
          PROVE  nonces'[KeyOf(n)] >= accepted'[n] * (NonceTTL + 1) - 1
      <4> DEFINE before == nonces[KeyOf(n)]
                 after == nonces'[KeyOf(n)]
                 old == accepted[n] * (NonceTTL + 1)
      <4>1. /\ before \in Int /\ after \in Int /\ old \in Int /\ after >= before
            /\ accepted[n] \in Nat
        BY <3>1, <3>3
      <4>2. before >= old - 1
        BY DEF GuardInv, NonceKept
      <4>3. CASE accepted'[n] = accepted[n]
        <5>1. after >= old - 1
          <6> HIDE DEF before, after, old
          <6> QED BY <4>1, <4>2
        <5> QED BY <4>3, <5>1
      <4>4. CASE accepted'[n] # accepted[n]
        <5>1. n = m /\ accepted'[n] = accepted[n] + 1
          BY <4>4, <3>2, <3>3
        <5>2. after = clock + NonceTTL /\ clock > before
          BY <5>1, <3>1, <2>1, <2>3, <4>1 DEF Exists
        <5>3. accepted'[n] * (NonceTTL + 1) = old + NonceTTL + 1
          <6> DEFINE count == accepted[n]
          <6>1. accepted'[n] = count + 1 /\ old = count * (NonceTTL + 1)
            BY <5>1
          <6>2. count \in Nat
            BY <4>1
          <6> HIDE DEF count, old
          <6>3. (count + 1) * (NonceTTL + 1) = count * (NonceTTL + 1) + NonceTTL + 1
            BY <6>2, <3>3
          <6> QED BY <6>1, <6>3
        <5>4. after >= old + NonceTTL
          <6> HIDE DEF before, after, old
          <6> QED BY <5>2, <4>1, <4>2, <2>1, <3>3
        <5>5. after >= (old + NonceTTL + 1) - 1
          <6> HIDE DEF before, after, old
          <6> QED BY <5>4, <4>1, <3>3
        <5> HIDE DEF old, after
        <5>6. after >= accepted'[n] * (NonceTTL + 1) - 1
          BY <5>3, <5>5
        <5> QED BY <5>6 DEF after
      <4> QED BY <4>3, <4>4
    <3>5. ASSUME NEW n \in Messages, accepted'[n] > 0, Timed(n)
          PROVE  nonces'[KeyOf(n)] >= n.ts - Window - MaxSkew + NonceTTL
      <4> DEFINE before == nonces[KeyOf(n)]
                 after == nonces'[KeyOf(n)]
                 ts == n.ts
      <4>1. before \in Int /\ after \in Int /\ ts \in Int
        BY <3>3, <3>5
      <4>2. CASE n = m
        <5>1. after = clock + NonceTTL /\ clock >= ts - Window - MaxSkew
          BY <4>2, <3>1, <3>5, <2>1
        <5> HIDE DEF after, before, ts
        <5>2. after >= ts - Window - MaxSkew + NonceTTL
          BY <4>1, <5>1, <2>1, <3>3
        <5> QED BY <5>2 DEF after, ts
      <4>3. CASE n # m
        <5>1. accepted[n] > 0
          BY <4>3, <3>5, <3>2, <3>3, <2>1
        <5>2. before >= ts - Window - MaxSkew + NonceTTL
          BY <5>1, <3>5 DEF GuardInv, NonceKept
        <5>3. after >= before
          BY <3>1, <3>3
        <5> HIDE DEF after, before, ts
        <5>4. after >= ts - Window - MaxSkew + NonceTTL
          BY <4>1, <5>2, <5>3, <3>3
        <5> QED BY <5>4 DEF after, ts
      <4> QED BY <4>2, <4>3
    <3>6. NonceKept'
      BY <3>4, <3>5 DEF NonceKept
    <3>7. Spent(m)'
      BY <3>2, <3>3, <2>1 DEF Spent
    <3>8. \A n \in Messages : Spent(n) => Spent(n)'
      BY <3>2, <3>3, <2>1 DEF Spent
    <3>9. NonceSpent'
      <4>1. ASSUME NEW n \in Messages, nonces'[KeyOf(n)] # -1
            PROVE  \E o \in Messages : Spent(o)' /\ KeyOf(o) = KeyOf(n)
        <5>1. CASE KeyOf(n) = KeyOf(m)
          BY <5>1, <3>7
        <5>2. CASE KeyOf(n) # KeyOf(m)
          <6>1. nonces'[KeyOf(n)] = nonces[KeyOf(n)]
            BY <5>2, <3>1, <3>3
          <6>2. PICK o \in Messages : Spent(o) /\ KeyOf(o) = KeyOf(n)
            BY <6>1, <4>1 DEF GuardInv, NonceSpent
          <6> QED BY <6>2, <3>8
        <5> QED BY <5>1, <5>2
      <4> QED BY <4>1 DEF NonceSpent
    <3>10. NoFalseReuse'
      <4>1. ASSUME NEW x \in reused
            PROVE  \E n \in Messages : Spent(n)' /\ IF Plain(x) THEN Same(x, n) ELSE ReadsSame(x, n)
        <5>1. PICK n \in Messages : Spent(n) /\ IF Plain(x) THEN Same(x, n) ELSE ReadsSame(x, n)
          BY <4>1 DEF GuardInv, NoFalseReuse
        <5> QED BY <5>1, <3>8
      <4> QED BY <4>1, <3>1 DEF NoFalseReuse
    <3> QED BY <3>6, <3>9, <3>10
  <2> QED BY <2>2, <2>3
<1>3. CASE \A k \in Callers : ~Reply(k) /\ ~ReplyLost(k)
  BY <1>3, <1>1, OtherStep DEF GuardInv, NonceKept, NonceSpent, NoFalseReuse, Spent
<1> QED BY <1>1, <1>2, <1>3 DEF GuardInv

LEMMA InvInit == Init => GuardInv
<1> SUFFICES ASSUME Init PROVE GuardInv
  OBVIOUS
<1>1. \A m \in Messages : KeyOf(m) \in Keys
  BY DEF Keys
<1>2. 0 * (NonceTTL + 1) = 0
  BY GuardAssumption
<1> QED BY <1>1, <1>2, GuardAssumption DEF Init, GuardInv, TypeOK, CallsInTime, NonceKept, NonceSpent,
                                   NoFalseReuse, Spent

(***************************************************************************)
(* The inductive invariant, and with it the types.                         *)
(***************************************************************************)
THEOREM Guarded == Spec => []GuardInv
BY InvInit, InvStep, PTL DEF Spec

THEOREM TypeCorrect == Spec => []TypeOK
<1>1. GuardInv => TypeOK
  BY DEF GuardInv
<1> QED BY <1>1, Guarded, PTL

(***************************************************************************)
(* A message is answered nonce_reused only if its client spent that nonce  *)
(* or, if the id or the nonce has a colon, if one that reads the same was  *)
(* spent.                                                                  *)
(***************************************************************************)
THEOREM ReuseIsReal == Spec => []NoFalseReuse
<1>1. GuardInv => NoFalseReuse
  BY DEF GuardInv
<1> QED BY <1>1, Guarded, PTL

(***************************************************************************)
(* Whatever its timestamp, for every window and TTL, a message is accepted *)
(* no more often than nonces live one after the other.                     *)
(***************************************************************************)
LEMMA SecondAcceptance ==
  ASSUME GuardInv, NEW m \in Messages, accepted[m] > 1
  PROVE  clock > NonceTTL
<1> DEFINE count == accepted[m]
           expiry == nonces[KeyOf(m)]
<1>1. /\ clock \in Nat /\ NonceTTL \in Nat /\ count \in Nat /\ expiry \in Int
      /\ expiry <= clock + NonceTTL /\ expiry >= count * (NonceTTL + 1) - 1
  BY GuardAssumption DEF GuardInv, TypeOK, NonceKept, Keys
<1>2. count - 2 \in Nat
  BY <1>1
<1>3. count * (NonceTTL + 1) = (count - 2) * (NonceTTL + 1) + 2 * (NonceTTL + 1)
      /\ (count - 2) * (NonceTTL + 1) \in Nat
  <2> HIDE DEF count, expiry
  <2> QED BY <1>1, <1>2
<1> DEFINE rest == (count - 2) * (NonceTTL + 1)
           all == count * (NonceTTL + 1)
<1>4. rest \in Nat /\ all = rest + 2 * (NonceTTL + 1) /\ expiry >= all - 1
  BY <1>1, <1>3
<1> HIDE DEF rest, all, count, expiry
<1> QED BY <1>1, <1>4

THEOREM OneAcceptancePerLife == Spec => []OncePerNonceLife
<1>1. ASSUME GuardInv
      PROVE  OncePerNonceLife
  <2> SUFFICES ASSUME NEW m \in Messages, accepted[m] > 0
               PROVE  (accepted[m] - 1) * (NonceTTL + 1) <= clock
    BY DEF OncePerNonceLife
  <2> DEFINE count == accepted[m]
             expiry == nonces[KeyOf(m)]
             all == count * (NonceTTL + 1)
             before == (count - 1) * (NonceTTL + 1)
  <2>1. /\ clock \in Nat /\ NonceTTL \in Nat /\ count \in Nat /\ expiry \in Int
        /\ expiry <= clock + NonceTTL /\ expiry >= all - 1
    BY <1>1, GuardAssumption DEF GuardInv, TypeOK, NonceKept, Keys
  <2>2. all \in Int /\ before \in Int /\ all = before + NonceTTL + 1
    <3> HIDE DEF count
    <3> QED BY <2>1
  <2> HIDE DEF all, before, expiry
  <2>3. before <= clock
    BY <2>1, <2>2
  <2> QED BY <2>3 DEF before
<1>2. GuardInv => OncePerNonceLife
  BY <1>1
<1> QED BY <1>2, Guarded, PTL

-----------------------------------------------------------------------------
(***************************************************************************)
(* A message with a time is accepted only within its widened window: the   *)
(* step that accepts is a Reply, and its call was in time.                 *)
(***************************************************************************)
THEOREM InWindowOnly == Spec => AcceptedInWindow
<1> DEFINE Late(m) == accepted'[m] > accepted[m] /\ Timed(m) =>
                        /\ clock >= m.ts - Window - MaxSkew
                        /\ clock <= m.ts + Window + MaxSkew + MaxDelay
<1>1. ASSUME GuardInv, [Next]_vars, NEW m \in Messages, accepted'[m] > accepted[m], Timed(m)
      PROVE  /\ clock >= m.ts - Window - MaxSkew
             /\ clock <= m.ts + Window + MaxSkew + MaxDelay
  <2>1. accepted[m] \in Nat
    BY <1>1 DEF GuardInv, TypeOK
  <2>2. PICK k \in Callers : Reply(k) \/ ReplyLost(k)
    <3>1. accepted' # accepted
      BY <1>1, <2>1
    <3> QED BY <3>1, <1>1, OtherStep
  <2>3. call[k] # NoCall
    BY <2>2 DEF Reply, ReplyLost
  <2>4. call[k].msg = m
    <3>1. accepted' = accepted \/ accepted' = [accepted EXCEPT ![call[k].msg] = @ + 1]
      BY <2>2 DEF Reply, ReplyLost
    <3>2. accepted \in [Messages -> Nat]
      BY <1>1 DEF GuardInv, TypeOK
    <3> QED BY <3>1, <3>2, <2>1, <1>1
  <2> QED BY <2>3, <2>4, <1>1, CallTypes DEF GuardInv
<1>2. GuardInv /\ [Next]_vars => [\A m \in Messages : Late(m)]_vars
  BY <1>1
<1> HIDE DEF Late
<1>3. Spec => [][\A m \in Messages : Late(m)]_vars
  BY <1>2, Guarded, PTL DEF Spec
<1> QED BY <1>3 DEF AcceptedInWindow, Late

-----------------------------------------------------------------------------
(***************************************************************************)
(* With a nonce that outlives the window, the key of a message with a time *)
(* that was accepted before still exists whenever the SET of another       *)
(* delivery runs.                                                          *)
(***************************************************************************)
LEMMA FirstAcceptance ==
  ASSUME NonceCoversWindow, GuardInv, NEW k \in Callers, call[k] # NoCall,
         ~Exists(KeyOf(call[k].msg)), Timed(call[k].msg)
  PROVE  accepted[call[k].msg] = 0
<1> PICK m \in Messages : m = call[k].msg
  BY CallTypes DEF GuardInv
<1>1. accepted[m] \in Nat /\ nonces[KeyOf(m)] \in Int
  BY DEF GuardInv, TypeOK, Keys
<1>2. m.ts \in Int /\ clock \in Nat /\ clock <= m.ts + Window + MaxSkew + MaxDelay
  BY CallTypes DEF GuardInv
<1>3. clock > nonces[KeyOf(m)]
  BY <1>1, <1>2 DEF Exists
<1> SUFFICES ASSUME accepted[m] > 0
             PROVE  FALSE
  BY <1>1
<1>4. nonces[KeyOf(m)] >= m.ts - Window - MaxSkew + NonceTTL
  BY DEF GuardInv, NonceKept
<1> DEFINE expiry == nonces[KeyOf(m)]
           ts == m.ts
<1>5. /\ expiry \in Int /\ ts \in Int /\ clock > expiry
      /\ clock <= ts + Window + MaxSkew + MaxDelay /\ expiry >= ts - Window - MaxSkew + NonceTTL
  BY <1>1, <1>2, <1>3, <1>4
<1> HIDE DEF expiry, ts
<1> QED BY <1>2, <1>5, GuardAssumption DEF NonceCoversWindow

(***************************************************************************)
(* Every step of the guard accepts one new message that has a time or      *)
(* none.                                                                   *)
(***************************************************************************)
LEMMA AcceptStep ==
  ASSUME NonceCoversWindow, GuardInv, [Next]_vars
  PROVE  \/ \A m \in TimedMessages : accepted'[m] = accepted[m]
         \/ Abstract!Next
<1> SUFFICES ASSUME NEW x \in TimedMessages, accepted'[x] # accepted[x]
             PROVE  Abstract!Next
  OBVIOUS
<1>0. x \in Messages /\ Timed(x) /\ accepted \in [Messages -> Nat]
  BY DEF TimedMessages, GuardInv, TypeOK
<1>1. PICK k \in Callers : Reply(k) \/ ReplyLost(k)
  BY OtherStep
<1>2. call[k] # NoCall
  BY <1>1 DEF Reply, ReplyLost
<1> PICK m \in Messages : m = call[k].msg
  BY <1>2, CallTypes DEF GuardInv
<1>3. ~Exists(KeyOf(m)) /\ accepted' = [accepted EXCEPT ![m] = @ + 1]
  BY <1>1 DEF Reply, ReplyLost
<1>4. x = m
  BY <1>0, <1>3
<1>5. accepted[m] = 0
  BY <1>0, <1>2, <1>3, <1>4, FirstAcceptance
<1>6. accepted' = [accepted EXCEPT ![m] = 1]
  BY <1>0, <1>3, <1>5
<1>7. /\ [y \in TimedMessages |-> accepted[y]][m] = 0
      /\ [y \in TimedMessages |-> accepted'[y]]
           = [[y \in TimedMessages |-> accepted[y]] EXCEPT ![m] = 1]
  BY <1>0, <1>4, <1>5, <1>6 DEF TimedMessages
<1> QED BY <1>4, <1>7 DEF Abstract!Next, Abstract!Accept

(***************************************************************************)
(* The replay guard implements at-most-once acceptance of the messages     *)
(* that have a time.                                                       *)
(***************************************************************************)
THEOREM ImplementsAtMostOnce == NonceCoversWindow /\ Spec => AtMostOnceSpec
<1> SUFFICES ASSUME NonceCoversWindow
             PROVE  Spec => AtMostOnceSpec
  OBVIOUS
<1>1. Init => Abstract!Init
  BY DEF Init, Abstract!Init, TimedMessages
<1>2. GuardInv /\ [Next]_vars => [Abstract!Next]_([m \in TimedMessages |-> accepted[m]])
  BY AcceptStep
<1> QED BY <1>1, <1>2, Guarded, PTL DEF Spec, AtMostOnceSpec, Abstract!Spec

(***************************************************************************)
(* No message is accepted twice, but one without a time after the life of  *)
(* its nonce.                                                              *)
(***************************************************************************)
THEOREM AtMostOneAcceptance == NonceCoversWindow /\ Spec => []NoSecondAcceptance
<1> SUFFICES ASSUME NonceCoversWindow
             PROVE  Spec => []NoSecondAcceptance
  OBVIOUS
<1> DEFINE Once == \A m \in TimedMessages : accepted[m] <= 1
<1>1. ASSUME Init
      PROVE  Once
  <2>1. ASSUME NEW m \in TimedMessages
        PROVE  accepted[m] <= 1
    <3>1. accepted[m] = 0
      BY <1>1 DEF Init, TimedMessages
    <3> QED BY <3>1
  <2> QED BY <2>1
<1>2. ASSUME GuardInv, Once, [Next]_vars
      PROVE  Once'
  <2>1. CASE \A m \in TimedMessages : accepted'[m] = accepted[m]
    BY <2>1, <1>2
  <2>2. CASE Abstract!Next
    <3>1. PICK x \in TimedMessages : [y \in TimedMessages |-> accepted'[y]]
                                       = [[y \in TimedMessages |-> accepted[y]] EXCEPT ![x] = 1]
      BY <2>2 DEF Abstract!Next, Abstract!Accept
    <3>2. ASSUME NEW m \in TimedMessages
          PROVE  accepted'[m] = accepted[m] \/ accepted'[m] = 1
      BY <3>1
    <3> QED BY <3>2, <1>2
  <2> QED BY <2>1, <2>2, <1>2, AcceptStep
<1>3. ASSUME GuardInv, Once
      PROVE  NoSecondAcceptance
  <2>1. ASSUME NEW m \in Messages, accepted[m] > 1
        PROVE  Repeatable(m)
    <3>1. ~Timed(m)
      <4>1. accepted[m] \in Nat
        BY <1>3 DEF GuardInv, TypeOK
      <4> QED BY <2>1, <1>3, <4>1 DEF TimedMessages
    <3>2. clock > NonceTTL
      BY <2>1, <1>3, SecondAcceptance
    <3> QED BY <3>1, <3>2 DEF Repeatable
  <2> QED BY <2>1 DEF NoSecondAcceptance
<1>4. Init => Once
  BY <1>1
<1>5. GuardInv /\ Once /\ [Next]_vars => Once'
  BY <1>2
<1>6. GuardInv /\ Once => NoSecondAcceptance
  BY <1>3
<1> HIDE DEF Once
<1> QED BY <1>4, <1>5, <1>6, Guarded, PTL DEF Spec
=============================================================================
