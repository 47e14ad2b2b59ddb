---------------------------- MODULE BlacklistProofs ----------------------------
(***************************************************************************)
(* Proofs about the blacklist, for all addresses, workers and values of    *)
(* the constants that satisfy BlacklistAssumption.                         *)
(***************************************************************************)
EXTENDS Blacklist, TLAPS

(***************************************************************************)
(* An operation is awaited for at most MaxDelay after its last step, and a *)
(* violation whose EXPIRE is awaited was not recorded after the last one.  *)
(***************************************************************************)
StepsInTime ==
  \A w \in Workers : proc[w] # NoProc =>
    /\ proc[w].at <= clock /\ clock <= proc[w].at + MaxDelay
    /\ proc[w].pc = "EXPIRE" => proc[w].at <= streak[proc[w].ip].last

(***************************************************************************)
(* A counter with a TTL does not outlive the last violation by more than   *)
(* the TTL and the delay.                                                  *)
(***************************************************************************)
CountersInTime ==
  \A ip \in IPs :
    /\ streak[ip].last >= -1
    /\ \/ violations[ip].expires = Forever
       \/ /\ violations[ip].expires <= clock + BlacklistTTL
          /\ violations[ip].expires <= streak[ip].last + BlacklistTTL + MaxDelay

(***************************************************************************)
(* A counter without a TTL has lost an EXPIRE, or awaits that of the       *)
(* violation which it counted last.                                        *)
(***************************************************************************)
LatestExpires ==
  \A ip \in IPs : violations[ip].expires = Forever =>
    \/ ip \in lostExpire
    \/ \E w \in Workers : /\ proc[w] # NoProc /\ proc[w].pc = "EXPIRE" /\ proc[w].ip = ip
                          /\ proc[w].count = violations[ip].count

(***************************************************************************)
(* A counter at the threshold that an older violation is about to renew    *)
(* belongs to an address banned since that violation, with the exceptions  *)
(* of ThresholdBans but for a lost EXPIRE.                                 *)
(***************************************************************************)
BannedSince ==
  \A w \in Workers, ip \in IPs :
    /\ proc[w] # NoProc /\ proc[w].pc = "EXPIRE" /\ proc[w].ip = ip
    /\ Counted(ip) >= MaxViolations
    => \/ bans[ip].expires >= proc[w].at + BlacklistTTL
       \/ BanPending(ip) \/ Unbanning(ip) \/ ip \in lostBan

(***************************************************************************)
(* Every ban advertises its expiry, but for the skew and the delay.        *)
(***************************************************************************)
Advertised ==
  \A ip \in IPs : /\ bans[ip].advertised <= bans[ip].expires + MaxSkew
                  /\ bans[ip].expires <= bans[ip].advertised + MaxDelay + MaxSkew

BlacklistInv ==
  /\ TypeOK /\ StepsInTime /\ CountersInTime /\ LatestExpires /\ BannedSince
  /\ Advertised /\ ThresholdBans /\ CountIsEarned
-----------------------------------------------------------------------------
(***************************************************************************)
(* The operation of one worker becomes another one.                        *)
(***************************************************************************)
LEMMA ProcSet ==
  ASSUME TypeOK, NEW w \in Workers, NEW p \in Proc \cup {NoProc},
         proc' = [proc EXCEPT ![w] = p]
  PROVE  /\ proc' \in [Workers -> Proc \cup {NoProc}]
         /\ proc'[w] = p
         /\ \A v \in Workers : v # w => proc'[v] = proc[v]
BY DEF TypeOK

(***************************************************************************)
(* An operation goes to its next await.                                    *)
(***************************************************************************)
LEMMA ProcGoto ==
  ASSUME BlacklistAssumption, TypeOK, NEW w \in Workers, proc[w] # NoProc,
         NEW pc \in {"ban", "SET"}, Goto(w, pc)
  PROVE  /\ proc' \in [Workers -> Proc \cup {NoProc}]
         /\ proc'[w] # NoProc /\ proc'[w].pc = pc /\ proc'[w].at = clock
         /\ proc'[w].ip = proc[w].ip /\ proc'[w].count = proc[w].count
         /\ \A v \in Workers : v # w => proc'[v] = proc[v]
<1> DEFINE q == proc[w]
           p == [q EXCEPT !.pc = pc, !.at = clock]
<1>1. q \in Proc /\ clock \in Nat
  BY DEF TypeOK, BlacklistAssumption
<1>2. p \in Proc /\ p.pc = pc /\ p.at = clock /\ p.ip = q.ip /\ p.count = q.count
  BY <1>1 DEF Proc
<1>3. p # NoProc
  BY <1>2 DEF BlacklistAssumption
<1>4. proc' = [proc EXCEPT ![w] = p]
  BY DEF Goto, TypeOK
<1>5. /\ proc' \in [Workers -> Proc \cup {NoProc}] /\ proc'[w] = p
      /\ \A v \in Workers : v # w => proc'[v] = proc[v]
  BY <1>2, <1>4, ProcSet
<1> QED BY <1>2, <1>3, <1>5

-----------------------------------------------------------------------------
(***************************************************************************)
(* Nothing is counted or banned yet.                                       *)
(***************************************************************************)
LEMMA BlacklistInit ==
  ASSUME BlacklistAssumption, Init
  PROVE  BlacklistInv
<1>1. TypeOK
  BY DEF Init, TypeOK, BlacklistAssumption, Count, Ban
<1>2. StepsInTime /\ BannedSince
  BY DEF Init, StepsInTime, BannedSince
<1>3. CountersInTime /\ LatestExpires
  BY DEF Init, CountersInTime, LatestExpires, Forever, BlacklistAssumption
<1>4. Advertised
  <2>1. ASSUME NEW ip \in IPs
        PROVE  /\ bans[ip].advertised <= bans[ip].expires + MaxSkew
               /\ bans[ip].expires <= bans[ip].advertised + MaxDelay + MaxSkew
    <3>1. bans[ip].advertised = -1 /\ bans[ip].expires = -1
      BY DEF Init
    <3> QED BY <3>1 DEF BlacklistAssumption
  <2> QED BY <2>1 DEF Advertised
<1>5. ThresholdBans /\ CountIsEarned
  BY DEF Init, ThresholdBans, CountIsEarned, Counted, Exists, BlacklistAssumption
<1> QED BY <1>1, <1>2, <1>3, <1>4, <1>5 DEF BlacklistInv

(***************************************************************************)
(* INCR: the violation just counted is the latest, its EXPIRE is awaited,  *)
(* and if it reaches the threshold its ban is pending.                     *)
(***************************************************************************)
LEMMA IncrKeeps ==
  ASSUME BlacklistAssumption, BlacklistInv,
         NEW w \in Workers, NEW ip \in IPs, Incr(w, ip)
  PROVE  BlacklistInv'
<1> DEFINE n == Counted(ip) + 1
           c == [count |-> n, expires |-> IF Exists(violations[ip])
                                          THEN violations[ip].expires ELSE Forever]
           p == [pc |-> "EXPIRE", ip |-> ip, count |-> n, at |-> clock]
           m == IF clock - streak[ip].last <= BlacklistTTL + MaxDelay \/ ip \in lostExpire
                THEN streak[ip].count + 1 ELSE 1
           t == [count |-> m, last |-> clock]
<1>1. /\ BlacklistAssumption
      /\ TypeOK /\ StepsInTime /\ CountersInTime /\ LatestExpires /\ BannedSince
      /\ Advertised /\ ThresholdBans /\ CountIsEarned
  BY DEF BlacklistInv
<1>2. /\ proc[w] = NoProc
      /\ violations' = [violations EXCEPT ![ip] = c]
      /\ proc' = [proc EXCEPT ![w] = p]
      /\ streak' = [streak EXCEPT ![ip] = t]
      /\ UNCHANGED <<clock, bans, lostExpire, lostBan>>
  BY <1>1 DEF Incr, TypeOK
<1>3. /\ clock \in Nat /\ BlacklistTTL \in Nat /\ MaxDelay \in Nat /\ MaxTime \in Nat
      /\ MaxViolations \in Nat \ {0}
      /\ violations[ip] \in Count /\ streak[ip].count \in Nat /\ streak[ip].last \in Int
      /\ Forever \in Int /\ clock < Forever
  BY <1>1 DEF TypeOK, BlacklistAssumption, Forever
<1>4. n \in Nat \ {0} /\ c \in Count /\ m \in Nat \ {0}
  BY <1>3 DEF Counted, Count
<1>5. p \in Proc /\ p # NoProc /\ p.pc = "EXPIRE" /\ p.ip = ip /\ p.count = n /\ p.at = clock
  BY <1>3, <1>4 DEF Proc, BlacklistAssumption
<1>6. /\ proc' \in [Workers -> Proc \cup {NoProc}] /\ proc'[w] = p
      /\ \A v \in Workers : v # w => proc'[v] = proc[v]
  BY <1>1, <1>2, <1>5, ProcSet
<1>7. /\ violations' \in [IPs -> Count] /\ violations'[ip] = c
      /\ \A i \in IPs : i # ip => violations'[i] = violations[i]
  BY <1>1, <1>2, <1>4 DEF TypeOK
<1>8. /\ streak' \in [IPs -> [count : Nat, last : Int]] /\ streak'[ip] = t
      /\ \A i \in IPs : i # ip => streak'[i] = streak[i]
  BY <1>1, <1>2, <1>3, <1>4 DEF TypeOK
<1>9. TypeOK'
  BY <1>1, <1>2, <1>6, <1>7, <1>8 DEF TypeOK
<1>10. StepsInTime'
  BY <1>1, <1>2, <1>3, <1>5, <1>6, <1>8 DEF StepsInTime, TypeOK, Proc
<1>11. CountersInTime'
  <2>1. Forever' = Forever
    BY DEF Forever
  <2>2. c.expires = Forever \/ (c.expires <= clock + BlacklistTTL
                                /\ c.expires <= clock + BlacklistTTL + MaxDelay)
    BY <1>1, <1>3 DEF CountersInTime, Count
  <2> QED BY <1>1, <1>2, <1>3, <1>7, <1>8, <2>1, <2>2 DEF CountersInTime
<1>12. LatestExpires'
  <2>1. ASSUME NEW i \in IPs, i # ip, violations'[i].expires = Forever'
        PROVE  \/ i \in lostExpire'
               \/ \E v \in Workers : /\ proc'[v] # NoProc /\ proc'[v].pc = "EXPIRE" /\ proc'[v].ip = i
                                     /\ proc'[v].count = violations'[i].count
    BY <1>1, <1>2, <1>6, <1>7, <2>1 DEF LatestExpires, Forever
  <2>2. proc'[w] # NoProc /\ proc'[w].pc = "EXPIRE" /\ proc'[w].ip = ip
        /\ proc'[w].count = violations'[ip].count
    BY <1>5, <1>6, <1>7
  <2> QED BY <2>1, <2>2 DEF LatestExpires
<1>13. /\ \A i \in IPs : i # ip => Counted(i)' = Counted(i)
       /\ Counted(ip)' = n
  <2>1. Exists(violations[ip])'
    BY <1>2, <1>3, <1>7 DEF Exists
  <2> QED BY <1>2, <1>7, <2>1 DEF Counted, Exists
<1>14. /\ \A i \in IPs : BanPending(i) => BanPending(i)'
       /\ \A i \in IPs : Unbanning(i) => Unbanning(i)'
       /\ n >= MaxViolations => BanPending(ip)'
  BY <1>2, <1>5, <1>6 DEF BanPending, Unbanning, At
<1>15. BannedSince'
  <2> SUFFICES ASSUME NEW v \in Workers, NEW i \in IPs, proc'[v] # NoProc,
                      proc'[v].pc = "EXPIRE", proc'[v].ip = i, Counted(i)' >= MaxViolations
               PROVE  \/ bans'[i].expires >= proc'[v].at + BlacklistTTL
                      \/ BanPending(i)' \/ Unbanning(i)' \/ i \in lostBan'
    BY DEF BannedSince
  <2>1. CASE i = ip
    BY <1>13, <1>14, <2>1
  <2>2. CASE i # ip
    <3>1. v # w
      BY <1>5, <1>6, <2>2
    <3> QED BY <1>1, <1>2, <1>6, <1>13, <1>14, <2>2, <3>1 DEF BannedSince
  <2> QED BY <2>1, <2>2
<1>16. Advertised'
  BY <1>1, <1>2 DEF Advertised
<1>17. ThresholdBans'
  <2> SUFFICES ASSUME NEW i \in IPs, Counted(i)' >= MaxViolations
               PROVE  \/ bans'[i].expires >= violations'[i].expires - MaxDelay
                      \/ BanPending(i)' \/ Unbanning(i)' \/ i \in (lostBan \cup lostExpire)'
    BY DEF ThresholdBans
  <2>1. CASE i = ip
    BY <1>13, <1>14, <2>1
  <2>2. CASE i # ip
    BY <1>1, <1>2, <1>7, <1>13, <1>14, <2>2 DEF ThresholdBans
  <2> QED BY <2>1, <2>2
<1>18. CountIsEarned'
  <2>1. n <= m
    <3>1. CASE ~Exists(violations[ip])
      BY <1>3, <1>4, <3>1 DEF Counted
    <3>2. CASE Exists(violations[ip])
      <4>1. violations[ip].count \in Nat /\ n = violations[ip].count + 1
            /\ violations[ip].count <= streak[ip].count
        BY <1>1, <1>3, <3>2 DEF Counted, Count, CountIsEarned
      <4>2. ip \in lostExpire \/ clock - streak[ip].last <= BlacklistTTL + MaxDelay
        <5>1. CASE violations[ip].expires = Forever
          <6>1. CASE ip \in lostExpire
            BY <6>1
          <6>2. CASE ip \notin lostExpire
            <7>1. PICK v \in Workers : /\ proc[v] # NoProc /\ proc[v].pc = "EXPIRE"
                                       /\ proc[v].ip = ip
              BY <1>1, <5>1, <6>2 DEF LatestExpires
            <7>2. clock <= proc[v].at + MaxDelay /\ proc[v].at <= streak[ip].last
                  /\ proc[v].at \in Nat
              BY <1>1, <7>1 DEF StepsInTime, TypeOK, Proc
            <7> QED BY <1>3, <7>2
          <6> QED BY <6>1, <6>2
        <5>2. CASE violations[ip].expires # Forever
          BY <1>1, <1>3, <3>2, <5>2 DEF CountersInTime, Exists, Count
        <5> QED BY <5>1, <5>2
      <4> QED BY <1>3, <4>1, <4>2
    <3> QED BY <3>1, <3>2
  <2> QED BY <1>1, <1>8, <1>13, <2>1 DEF CountIsEarned
<1> QED BY <1>9, <1>10, <1>11, <1>12, <1>15, <1>16, <1>17, <1>18 DEF BlacklistInv

(***************************************************************************)
(* What a step keeps of the exceptions of the threshold, when it ends no   *)
(* operation but w's: the exceptions of others, and those of lost bans.    *)
(***************************************************************************)
LEMMA PendingElsewhere ==
  ASSUME NEW w \in Workers, \A v \in Workers : v # w => proc'[v] = proc[v],
         NEW i \in IPs, proc[w] = NoProc \/ proc[w].ip # i \/
                        (proc[w].pc # "DEL" /\ ~(proc[w].count >= MaxViolations))
  PROVE  /\ BanPending(i) => BanPending(i)'
         /\ Unbanning(i) => Unbanning(i)'
BY DEF BanPending, Unbanning, At

(***************************************************************************)
(* EXPIRE, and the test of the count: a ban that is due is pending, and an *)
(* older violation renews the counter of an address banned since.          *)
(***************************************************************************)
LEMMA ExpireKeeps ==
  ASSUME BlacklistAssumption, BlacklistInv, NEW w \in Workers, Expire(w)
  PROVE  BlacklistInv'
<1>1. /\ TypeOK /\ StepsInTime /\ CountersInTime /\ LatestExpires /\ BannedSince
      /\ Advertised /\ ThresholdBans /\ CountIsEarned
  BY DEF BlacklistInv
<1>2. /\ clock \in Nat /\ BlacklistTTL \in Nat /\ MaxDelay \in Nat /\ MaxTime \in Nat
      /\ MaxViolations \in Nat \ {0} /\ Forever \in Int /\ clock + BlacklistTTL < Forever
  BY <1>1 DEF TypeOK, BlacklistAssumption, Forever
<1> DEFINE ip == proc[w].ip
           n == proc[w].count
<1>3. /\ proc[w] \in Proc /\ proc[w] # NoProc /\ proc[w].pc = "EXPIRE"
      /\ ip \in IPs /\ n \in Nat /\ proc[w].at \in Nat
      /\ proc[w].at <= clock /\ clock <= proc[w].at + MaxDelay /\ proc[w].at <= streak[ip].last
  BY <1>1 DEF Expire, At, TypeOK, Proc, StepsInTime
<1>4. UNCHANGED <<clock, bans, streak, lostBan>>
  BY DEF Expire
<1>5. /\ proc' \in [Workers -> Proc \cup {NoProc}]
      /\ \A v \in Workers : v # w => proc'[v] = proc[v]
      /\ \/ ~AtThreshold(n) /\ proc'[w] = NoProc
         \/ /\ AtThreshold(n) /\ proc'[w] # NoProc /\ proc'[w].pc = "ban"
            /\ proc'[w].ip = ip /\ proc'[w].count = n /\ proc'[w].at = clock
  <2>1. CASE AtThreshold(n)
    BY <1>1, <1>3, <2>1, ProcGoto DEF Expire
  <2>2. CASE ~AtThreshold(n)
    BY <1>1, <1>3, <2>2, ProcSet DEF Expire, Return
  <2> QED BY <2>1, <2>2
<1>6. /\ \A i \in IPs : violations'[i].count = violations[i].count
      /\ \A i \in IPs : i # ip => violations'[i] = violations[i]
      /\ violations' \in [IPs -> Count]
      /\ \/ Exists(violations[ip]) /\ violations'[ip].expires = clock + BlacklistTTL
         \/ ~Exists(violations[ip]) /\ violations'[ip] = violations[ip]
  <2> DEFINE c == [violations[ip] EXCEPT !.expires = clock + BlacklistTTL]
  <2>1. violations[ip] \in Count
    BY <1>1, <1>3 DEF TypeOK
  <2>2. c \in Count /\ c.expires = clock + BlacklistTTL /\ c.count = violations[ip].count
    BY <1>2, <2>1 DEF Count
  <2>3. \/ Exists(violations[ip]) /\ violations' = [violations EXCEPT ![ip] = c]
        \/ ~Exists(violations[ip]) /\ violations' = violations
    BY <1>1 DEF Expire, TypeOK
  <2> HIDE DEF c
  <2> QED BY <1>1, <1>3, <2>2, <2>3 DEF TypeOK
<1>7. /\ lostExpire' \subseteq lostExpire
      /\ \A i \in IPs : i # ip => (i \in lostExpire' <=> i \in lostExpire)
      /\ ~Exists(violations[ip]) => lostExpire' = lostExpire
  BY DEF Expire
<1>8. \A i \in IPs : Counted(i)' = Counted(i)
  <2>1. ASSUME NEW i \in IPs PROVE Exists(violations[i])' = Exists(violations[i])
    BY <1>2, <1>4, <1>6 DEF Exists
  <2> QED BY <1>6, <2>1 DEF Counted
<1>9. /\ \A i \in IPs : BanPending(i) => BanPending(i)'
      /\ \A i \in IPs : Unbanning(i) => Unbanning(i)'
      /\ AtThreshold(n) => BanPending(ip)'
  BY <1>3, <1>5 DEF BanPending, Unbanning, At, AtThreshold
<1>10. TypeOK'
  BY <1>1, <1>4, <1>5, <1>6, <1>7 DEF TypeOK
<1>11. StepsInTime'
  BY <1>1, <1>2, <1>4, <1>5 DEF StepsInTime
<1>12. CountersInTime'
  <2>1. Forever' = Forever
    BY DEF Forever
  <2>2. /\ streak[ip].last \in Int
        /\ clock + BlacklistTTL <= streak[ip].last + BlacklistTTL + MaxDelay
    BY <1>1, <1>2, <1>3 DEF TypeOK
  <2> QED BY <1>1, <1>2, <1>4, <1>6, <2>1, <2>2 DEF CountersInTime
<1>13. LatestExpires'
  <2> SUFFICES ASSUME NEW i \in IPs, violations'[i].expires = Forever, i \notin lostExpire'
               PROVE  \E v \in Workers : /\ proc'[v] # NoProc /\ proc'[v].pc = "EXPIRE"
                                         /\ proc'[v].ip = i
                                         /\ proc'[v].count = violations'[i].count
    BY DEF LatestExpires, Forever
  <2>1. i # ip
    <3>1. Exists(violations[ip]) => violations'[ip].expires # Forever
      BY <1>2, <1>6
    <3>2. ~Exists(violations[ip]) => violations[ip].expires # Forever
      BY <1>2 DEF Exists
    <3> QED BY <1>6, <3>1, <3>2
  <2> QED BY <1>1, <1>3, <1>5, <1>6, <1>7, <2>1 DEF LatestExpires
<1>14. BannedSince'
  <2> SUFFICES ASSUME NEW v \in Workers, NEW i \in IPs, proc'[v] # NoProc,
                      proc'[v].pc = "EXPIRE", proc'[v].ip = i, Counted(i)' >= MaxViolations
               PROVE  \/ bans'[i].expires >= proc'[v].at + BlacklistTTL
                      \/ BanPending(i)' \/ Unbanning(i)' \/ i \in lostBan'
    BY DEF BannedSince
  <2>1. v # w
    BY <1>5
  <2> QED BY <1>1, <1>4, <1>5, <1>8, <1>9, <2>1 DEF BannedSince
<1>15. Advertised'
  BY <1>1, <1>4 DEF Advertised
<1>16. ThresholdBans'
  <2> SUFFICES ASSUME NEW i \in IPs, Counted(i)' >= MaxViolations
               PROVE  \/ bans'[i].expires >= violations'[i].expires - MaxDelay
                      \/ BanPending(i)' \/ Unbanning(i)' \/ i \in (lostBan \cup lostExpire)'
    BY DEF ThresholdBans
  <2>1. CASE i # ip
    BY <1>1, <1>4, <1>6, <1>7, <1>8, <1>9, <2>1 DEF ThresholdBans
  <2>2. CASE i = ip /\ ~Exists(violations[ip])
    BY <1>1, <1>4, <1>6, <1>7, <1>8, <1>9, <2>2 DEF ThresholdBans
  <2>3. CASE i = ip /\ Exists(violations[ip])
    <3>1. \/ bans[ip].expires >= proc[w].at + BlacklistTTL
          \/ BanPending(ip) \/ Unbanning(ip) \/ ip \in lostBan
      BY <1>1, <1>3, <1>8, <2>3 DEF BannedSince
    <3>2. bans[ip].expires \in Int
      BY <1>1, <1>3 DEF TypeOK, Ban
    <3> QED BY <1>2, <1>3, <1>4, <1>6, <1>9, <2>3, <3>1, <3>2
  <2> QED BY <2>1, <2>2, <2>3
<1>17. CountIsEarned'
  BY <1>1, <1>4, <1>8 DEF CountIsEarned
<1> QED BY <1>10, <1>11, <1>12, <1>13, <1>14, <1>15, <1>16, <1>17 DEF BlacklistInv

(***************************************************************************)
(* A step that moves one worker's operation, awaiting no EXPIRE, and       *)
(* changes nothing in Redis: what is pending stays so.                     *)
(***************************************************************************)
LEMMA MoveKeeps ==
  ASSUME BlacklistAssumption, BlacklistInv, NEW w \in Workers,
         proc' \in [Workers -> Proc \cup {NoProc}],
         \A v \in Workers : v # w => proc'[v] = proc[v],
         proc'[w] # NoProc, proc'[w].pc # "EXPIRE", proc'[w].at = clock,
         proc[w] = NoProc \/
           (proc[w].pc = "ban" /\ proc'[w].pc = "SET"
            /\ proc'[w].ip = proc[w].ip /\ proc'[w].count = proc[w].count),
         UNCHANGED <<clock, violations, bans, streak, lostExpire, lostBan>>
  PROVE  BlacklistInv'
<1>1. /\ TypeOK /\ StepsInTime /\ CountersInTime /\ LatestExpires /\ BannedSince
      /\ Advertised /\ ThresholdBans /\ CountIsEarned
  BY DEF BlacklistInv
<1>2. /\ clock \in Nat /\ BlacklistTTL \in Nat /\ MaxDelay \in Nat /\ MaxTime \in Nat
      /\ MaxViolations \in Nat \ {0} /\ Forever \in Int /\ clock + BlacklistTTL < Forever
  BY <1>1 DEF TypeOK, BlacklistAssumption, Forever
<1>3. \A i \in IPs : Counted(i)' = Counted(i)
  BY DEF Counted, Exists
<1>4. \A i \in IPs : (BanPending(i) => BanPending(i)') /\ (Unbanning(i) => Unbanning(i)')
  BY DEF BanPending, Unbanning, At
<1>5. TypeOK'
  BY <1>1 DEF TypeOK
<1>6. StepsInTime'
  BY <1>1, <1>2 DEF StepsInTime
<1>7. CountersInTime'
  BY <1>1 DEF CountersInTime, Forever
<1>8. LatestExpires'
  BY <1>1 DEF LatestExpires, Forever
<1>9. BannedSince'
  BY <1>1, <1>3, <1>4 DEF BannedSince
<1>10. Advertised'
  BY <1>1 DEF Advertised
<1>11. ThresholdBans'
  BY <1>1, <1>3, <1>4 DEF ThresholdBans
<1>12. CountIsEarned'
  BY <1>1, <1>3 DEF CountIsEarned
<1> QED BY <1>5, <1>6, <1>7, <1>8, <1>9, <1>10, <1>11, <1>12 DEF BlacklistInv

LEMMA BeginBanKeeps ==
  ASSUME BlacklistAssumption, BlacklistInv, NEW w \in Workers, BeginBan(w)
  PROVE  BlacklistInv'
<1>1. TypeOK /\ proc[w] # NoProc /\ proc[w].pc = "ban"
  BY DEF BlacklistInv, BeginBan, At
<1> QED BY <1>1, ProcGoto, MoveKeeps DEF BeginBan

LEMMA BanByAdminKeeps ==
  ASSUME BlacklistAssumption, BlacklistInv, NEW w \in Workers, NEW ip \in IPs,
         BanByAdmin(w, ip)
  PROVE  BlacklistInv'
<1> DEFINE p == [pc |-> "SET", ip |-> ip, count |-> 1, at |-> clock]
<1>1. TypeOK /\ clock \in Nat
  BY DEF BlacklistInv, TypeOK, BlacklistAssumption
<1>2. p \in Proc /\ p # NoProc /\ p.pc = "SET" /\ p.at = clock
  BY <1>1 DEF Proc, BlacklistAssumption
<1>3. proc[w] = NoProc /\ proc' = [proc EXCEPT ![w] = p]
      /\ UNCHANGED <<clock, violations, bans, streak, lostExpire, lostBan>>
  BY DEF BanByAdmin
<1> HIDE DEF p
<1> QED BY <1>1, <1>2, <1>3, ProcSet, MoveKeeps

(***************************************************************************)
(* SET: the address is banned for the TTL from now, as long as any counter *)
(* that has a TTL, and longer than any pending EXPIRE asks for.            *)
(***************************************************************************)
LEMMA SetBanKeeps ==
  ASSUME BlacklistAssumption, BlacklistInv, NEW w \in Workers, SetBan(w)
  PROVE  BlacklistInv'
<1>1. /\ TypeOK /\ StepsInTime /\ CountersInTime /\ LatestExpires /\ BannedSince
      /\ Advertised /\ ThresholdBans /\ CountIsEarned
  BY DEF BlacklistInv
<1>2. /\ clock \in Nat /\ BlacklistTTL \in Nat /\ MaxDelay \in Nat /\ MaxTime \in Nat
      /\ MaxViolations \in Nat \ {0} /\ Forever \in Int /\ clock + BlacklistTTL < Forever
  BY <1>1 DEF TypeOK, BlacklistAssumption, Forever
<1> DEFINE ip == proc[w].ip
<1>3. /\ proc[w] \in Proc /\ proc[w] # NoProc /\ proc[w].pc = "SET"
      /\ ip \in IPs /\ proc[w].at \in Nat
      /\ proc[w].at <= clock /\ clock <= proc[w].at + MaxDelay
  BY <1>1 DEF SetBan, At, TypeOK, Proc, StepsInTime
<1>4. /\ UNCHANGED <<clock, violations, streak, lostExpire>>
      /\ lostBan' = lostBan \ {ip}
  BY DEF SetBan
<1>5. /\ proc' \in [Workers -> Proc \cup {NoProc}] /\ proc'[w] = NoProc
      /\ \A v \in Workers : v # w => proc'[v] = proc[v]
  BY <1>1, ProcSet DEF SetBan, Return
<1>6. /\ bans' \in [IPs -> Ban]
      /\ \A i \in IPs : i # ip => bans'[i] = bans[i]
      /\ bans'[ip].expires = clock + BlacklistTTL
      /\ \E skew \in -MaxSkew .. MaxSkew :
            bans'[ip].advertised = proc[w].at + skew + BlacklistTTL
  <2>1. PICK skew \in -MaxSkew .. MaxSkew : bans' = [bans EXCEPT ![ip] = Entry(w, skew)]
    BY DEF SetBan
  <2> DEFINE b == Entry(w, skew)
  <2>2. MaxSkew \in Nat /\ skew \in Int
    BY <2>1 DEF BlacklistAssumption
  <2>3. b \in Ban /\ b.expires = clock + BlacklistTTL
        /\ b.advertised = proc[w].at + skew + BlacklistTTL
    BY <1>2, <1>3, <2>2 DEF Entry, Ban
  <2>4. bans' = [bans EXCEPT ![ip] = b]
    BY <2>1
  <2> HIDE DEF b
  <2> QED BY <1>1, <1>3, <2>1, <2>3, <2>4 DEF TypeOK
<1>7. \A i \in IPs : Counted(i)' = Counted(i)
  BY <1>4 DEF Counted, Exists
<1>8. \A i \in IPs : i # ip => (BanPending(i) => BanPending(i)') /\ (Unbanning(i) => Unbanning(i)')
  BY <1>3, <1>5, PendingElsewhere
<1>9. TypeOK'
  BY <1>1, <1>2, <1>4, <1>5, <1>6 DEF TypeOK
<1>10. StepsInTime'
  BY <1>1, <1>4, <1>5 DEF StepsInTime
<1>11. CountersInTime'
  BY <1>1, <1>4 DEF CountersInTime, Forever
<1>12. LatestExpires'
  BY <1>1, <1>3, <1>4, <1>5 DEF LatestExpires, Forever
<1>13. BannedSince'
  <2> SUFFICES ASSUME NEW v \in Workers, NEW i \in IPs, proc'[v] # NoProc,
                      proc'[v].pc = "EXPIRE", proc'[v].ip = i, Counted(i)' >= MaxViolations
               PROVE  \/ bans'[i].expires >= proc'[v].at + BlacklistTTL
                      \/ BanPending(i)' \/ Unbanning(i)' \/ i \in lostBan'
    BY DEF BannedSince
  <2>1. v # w /\ proc'[v] = proc[v]
    BY <1>5
  <2>2. CASE i = ip
    <3>1. proc[v].at \in Nat /\ proc[v].at <= clock
      BY <1>1, <2>1 DEF StepsInTime, TypeOK, Proc
    <3> QED BY <1>2, <1>6, <2>1, <2>2, <3>1
  <2>3. CASE i # ip
    BY <1>1, <1>4, <1>6, <1>7, <1>8, <2>1, <2>3 DEF BannedSince
  <2> QED BY <2>2, <2>3
<1>14. Advertised'
  <2>1. MaxSkew \in Nat
    BY DEF BlacklistAssumption
  <2>2. PICK skew \in -MaxSkew .. MaxSkew :
               bans'[ip].advertised = proc[w].at + skew + BlacklistTTL
    BY <1>6
  <2>3. skew \in Int /\ -MaxSkew <= skew /\ skew <= MaxSkew
    BY <2>1, <2>2
  <2>4. bans'[ip].advertised <= bans'[ip].expires + MaxSkew
        /\ bans'[ip].expires <= bans'[ip].advertised + MaxDelay + MaxSkew
    BY <1>2, <1>3, <1>6, <2>1, <2>2, <2>3
  <2> QED BY <1>1, <1>6, <2>4 DEF Advertised
<1>15. ThresholdBans'
  <2> SUFFICES ASSUME NEW i \in IPs, Counted(i)' >= MaxViolations
               PROVE  \/ bans'[i].expires >= violations'[i].expires - MaxDelay
                      \/ BanPending(i)' \/ Unbanning(i)' \/ i \in (lostBan \cup lostExpire)'
    BY DEF ThresholdBans
  <2>1. CASE i # ip
    BY <1>1, <1>4, <1>6, <1>7, <1>8, <2>1 DEF ThresholdBans
  <2>2. CASE i = ip /\ violations[ip].expires # Forever
    <3>1. violations[ip].expires \in Int /\ violations[ip].expires <= clock + BlacklistTTL
      BY <1>1, <1>3, <2>2 DEF CountersInTime, TypeOK, Count
    <3> QED BY <1>2, <1>4, <1>6, <2>2, <3>1
  <2>3. CASE i = ip /\ violations[ip].expires = Forever /\ ip \notin lostExpire
    <3>1. PICK v \in Workers : /\ proc[v] # NoProc /\ proc[v].pc = "EXPIRE" /\ proc[v].ip = ip
                               /\ proc[v].count = violations[ip].count
      BY <1>1, <1>3, <2>3 DEF LatestExpires
    <3>2. proc'[v] = proc[v]
      BY <1>3, <1>5, <3>1
    <3>3. violations[ip].count >= MaxViolations
      BY <1>2, <1>4, <2>3 DEF Counted, Exists
    <3>4. BanPending(i)'
      BY <2>3, <3>1, <3>2, <3>3 DEF BanPending
    <3> QED BY <3>4
  <2>4. CASE i = ip /\ ip \in lostExpire
    BY <1>4, <2>4
  <2> QED BY <2>1, <2>2, <2>3, <2>4
<1>16. CountIsEarned'
  BY <1>1, <1>4, <1>7 DEF CountIsEarned
<1> QED BY <1>9, <1>10, <1>11, <1>12, <1>13, <1>14, <1>15, <1>16 DEF BlacklistInv

(***************************************************************************)
(* The first DEL of an unban: the address is being unbanned.               *)
(***************************************************************************)
LEMMA UnbanKeeps ==
  ASSUME BlacklistAssumption, BlacklistInv, NEW w \in Workers, NEW ip \in IPs, Unban(w, ip)
  PROVE  BlacklistInv'
<1>1. /\ TypeOK /\ StepsInTime /\ CountersInTime /\ LatestExpires /\ BannedSince
      /\ Advertised /\ ThresholdBans /\ CountIsEarned
  BY DEF BlacklistInv
<1>2. /\ clock \in Nat /\ BlacklistTTL \in Nat /\ MaxDelay \in Nat /\ MaxTime \in Nat
      /\ MaxViolations \in Nat \ {0} /\ Forever \in Int /\ clock + BlacklistTTL < Forever
  BY <1>1 DEF TypeOK, BlacklistAssumption, Forever
<1> DEFINE p == [pc |-> "DEL", ip |-> ip, count |-> 0, at |-> clock]
           b == [expires |-> -1, advertised |-> -1]
<1>3. /\ proc[w] = NoProc
      /\ bans' = [bans EXCEPT ![ip] = b]
      /\ proc' = [proc EXCEPT ![w] = p]
      /\ UNCHANGED <<clock, violations, streak, lostExpire, lostBan>>
  BY DEF Unban
<1>4. p \in Proc /\ p # NoProc /\ p.pc = "DEL" /\ p.ip = ip /\ p.at = clock
  BY <1>2 DEF Proc, BlacklistAssumption
<1>5. b \in Ban /\ b.expires = -1 /\ b.advertised = -1
  BY DEF Ban
<1> HIDE DEF p, b
<1>6. /\ proc' \in [Workers -> Proc \cup {NoProc}] /\ proc'[w] = p
      /\ \A v \in Workers : v # w => proc'[v] = proc[v]
  BY <1>1, <1>3, <1>4, ProcSet
<1>7. /\ bans' \in [IPs -> Ban] /\ bans'[ip] = b
      /\ \A i \in IPs : i # ip => bans'[i] = bans[i]
  BY <1>1, <1>3, <1>5 DEF TypeOK
<1>8. \A i \in IPs : Counted(i)' = Counted(i)
  BY <1>3 DEF Counted, Exists
<1>9. /\ \A i \in IPs : (BanPending(i) => BanPending(i)') /\ (Unbanning(i) => Unbanning(i)')
      /\ Unbanning(ip)'
  BY <1>3, <1>4, <1>6 DEF BanPending, Unbanning, At
<1>10. TypeOK'
  <2>1. -1 <= clock + BlacklistTTL
    BY <1>2
  <2>2. \A i \in IPs : bans'[i].expires <= clock' + BlacklistTTL
    BY <1>1, <1>3, <1>5, <1>7, <2>1 DEF TypeOK
  <2> QED BY <1>1, <1>3, <1>6, <1>7, <2>2 DEF TypeOK
<1>11. StepsInTime'
  BY <1>1, <1>2, <1>3, <1>4, <1>6 DEF StepsInTime
<1>12. CountersInTime'
  BY <1>1, <1>3 DEF CountersInTime, Forever
<1>13. LatestExpires'
  BY <1>1, <1>3, <1>6 DEF LatestExpires, Forever
<1>14. BannedSince'
  <2> SUFFICES ASSUME NEW v \in Workers, NEW i \in IPs, proc'[v] # NoProc,
                      proc'[v].pc = "EXPIRE", proc'[v].ip = i, Counted(i)' >= MaxViolations
               PROVE  \/ bans'[i].expires >= proc'[v].at + BlacklistTTL
                      \/ BanPending(i)' \/ Unbanning(i)' \/ i \in lostBan'
    BY DEF BannedSince
  <2>1. v # w
    BY <1>4, <1>6
  <2> QED BY <1>1, <1>3, <1>6, <1>7, <1>8, <1>9, <2>1 DEF BannedSince
<1>15. Advertised'
  <2>1. -1 <= -1 + MaxSkew /\ -1 <= -1 + MaxDelay + MaxSkew
    BY <1>2 DEF BlacklistAssumption
  <2>2. ASSUME NEW i \in IPs
        PROVE  bans'[i].advertised <= bans'[i].expires + MaxSkew
               /\ bans'[i].expires <= bans'[i].advertised + MaxDelay + MaxSkew
    <3>1. CASE i = ip
      BY <1>5, <1>7, <2>1, <3>1
    <3>2. CASE i # ip
      BY <1>1, <1>7, <3>2 DEF Advertised
    <3> QED BY <3>1, <3>2
  <2> QED BY <2>2 DEF Advertised
<1>16. ThresholdBans'
  BY <1>1, <1>3, <1>7, <1>8, <1>9 DEF ThresholdBans
<1>17. CountIsEarned'
  BY <1>1, <1>3, <1>8 DEF CountIsEarned
<1> QED BY <1>10, <1>11, <1>12, <1>13, <1>14, <1>15, <1>16, <1>17 DEF BlacklistInv

(***************************************************************************)
(* The second DEL: nothing is counted any more, so nothing is owed.        *)
(***************************************************************************)
LEMMA DelViolationsKeeps ==
  ASSUME BlacklistAssumption, BlacklistInv, NEW w \in Workers, DelViolations(w)
  PROVE  BlacklistInv'
<1>1. /\ TypeOK /\ StepsInTime /\ CountersInTime /\ LatestExpires /\ BannedSince
      /\ Advertised /\ ThresholdBans /\ CountIsEarned
  BY DEF BlacklistInv
<1>2. /\ clock \in Nat /\ BlacklistTTL \in Nat /\ MaxDelay \in Nat /\ MaxTime \in Nat
      /\ MaxViolations \in Nat \ {0} /\ Forever \in Int /\ clock + BlacklistTTL < Forever
  BY <1>1 DEF TypeOK, BlacklistAssumption, Forever
<1> DEFINE ip == proc[w].ip
           c == [count |-> 0, expires |-> -1]
<1>3. proc[w] \in Proc /\ proc[w] # NoProc /\ proc[w].pc = "DEL" /\ ip \in IPs
  BY <1>1 DEF DelViolations, At, TypeOK, Proc
<1>4. /\ UNCHANGED <<clock, bans, streak>>
      /\ lostExpire' = lostExpire \ {ip} /\ lostBan' = lostBan \ {ip}
      /\ violations' = [violations EXCEPT ![ip] = c]
  BY DEF DelViolations
<1>5. /\ proc' \in [Workers -> Proc \cup {NoProc}] /\ proc'[w] = NoProc
      /\ \A v \in Workers : v # w => proc'[v] = proc[v]
  BY <1>1, ProcSet DEF DelViolations, Return
<1>6. c \in Count /\ c.count = 0 /\ c.expires = -1
  BY DEF Count
<1> HIDE DEF c
<1>7. /\ violations' \in [IPs -> Count] /\ violations'[ip] = c
      /\ \A i \in IPs : i # ip => violations'[i] = violations[i]
  BY <1>1, <1>3, <1>4, <1>6 DEF TypeOK
<1>8. \A i \in IPs : Counted(i)' = IF i = ip THEN 0 ELSE Counted(i)
  BY <1>4, <1>6, <1>7 DEF Counted, Exists
<1>9. \A i \in IPs : i # ip => (BanPending(i) => BanPending(i)') /\ (Unbanning(i) => Unbanning(i)')
  BY <1>3, <1>5, PendingElsewhere
<1>10. TypeOK'
  BY <1>1, <1>4, <1>5, <1>7 DEF TypeOK
<1>11. StepsInTime'
  BY <1>1, <1>4, <1>5 DEF StepsInTime
<1>12. CountersInTime'
  <2>1. Forever' = Forever
    BY DEF Forever
  <2>2. /\ streak[ip].last \in Int /\ streak[ip].last >= -1
        /\ -1 <= clock + BlacklistTTL /\ -1 <= streak[ip].last + BlacklistTTL + MaxDelay
    BY <1>1, <1>2, <1>3 DEF CountersInTime, TypeOK
  <2>3. ASSUME NEW i \in IPs
        PROVE  /\ streak'[i].last >= -1
               /\ \/ violations'[i].expires = Forever
                  \/ /\ violations'[i].expires <= clock' + BlacklistTTL
                     /\ violations'[i].expires <= streak'[i].last + BlacklistTTL + MaxDelay
    <3>1. CASE i = ip
      BY <1>4, <1>6, <1>7, <2>2, <3>1
    <3>2. CASE i # ip
      BY <1>1, <1>4, <1>7, <3>2 DEF CountersInTime
    <3> QED BY <3>1, <3>2
  <2> QED BY <2>1, <2>3 DEF CountersInTime
<1>13. LatestExpires'
  <2>1. -1 # Forever
    BY <1>2
  <2>2. ASSUME NEW i \in IPs, violations'[i].expires = Forever
        PROVE  \/ i \in lostExpire'
               \/ \E v \in Workers : /\ proc'[v] # NoProc /\ proc'[v].pc = "EXPIRE" /\ proc'[v].ip = i
                                     /\ proc'[v].count = violations'[i].count
    <3>1. i # ip
      BY <1>6, <1>7, <2>1, <2>2
    <3> QED BY <1>1, <1>3, <1>4, <1>5, <1>7, <2>2, <3>1 DEF LatestExpires
  <2> QED BY <2>2 DEF LatestExpires, Forever
<1>14. BannedSince'
  <2> SUFFICES ASSUME NEW v \in Workers, NEW i \in IPs, proc'[v] # NoProc,
                      proc'[v].pc = "EXPIRE", proc'[v].ip = i, Counted(i)' >= MaxViolations
               PROVE  \/ bans'[i].expires >= proc'[v].at + BlacklistTTL
                      \/ BanPending(i)' \/ Unbanning(i)' \/ i \in lostBan'
    BY DEF BannedSince
  <2>1. i # ip /\ v # w
    BY <1>2, <1>5, <1>8
  <2> QED BY <1>1, <1>4, <1>5, <1>8, <1>9, <2>1 DEF BannedSince
<1>15. Advertised'
  BY <1>1, <1>4 DEF Advertised
<1>16. ThresholdBans'
  <2> SUFFICES ASSUME NEW i \in IPs, Counted(i)' >= MaxViolations
               PROVE  \/ bans'[i].expires >= violations'[i].expires - MaxDelay
                      \/ BanPending(i)' \/ Unbanning(i)' \/ i \in (lostBan \cup lostExpire)'
    BY DEF ThresholdBans
  <2>1. i # ip
    BY <1>2, <1>8
  <2> QED BY <1>1, <1>4, <1>7, <1>8, <1>9, <2>1 DEF ThresholdBans
<1>17. CountIsEarned'
  <2>1. \A i \in IPs : streak[i].count \in Nat
    BY <1>1 DEF TypeOK
  <2> QED BY <1>1, <1>4, <1>8, <2>1 DEF CountIsEarned
<1> QED BY <1>10, <1>11, <1>12, <1>13, <1>14, <1>15, <1>16, <1>17 DEF BlacklistInv

(***************************************************************************)
(* An operation cut short is remembered as such.                           *)
(***************************************************************************)
LEMMA FailKeeps ==
  ASSUME BlacklistAssumption, BlacklistInv, NEW w \in Workers, Fail(w)
  PROVE  BlacklistInv'
<1>1. /\ TypeOK /\ StepsInTime /\ CountersInTime /\ LatestExpires /\ BannedSince
      /\ Advertised /\ ThresholdBans /\ CountIsEarned
  BY DEF BlacklistInv
<1>2. /\ clock \in Nat /\ BlacklistTTL \in Nat /\ MaxDelay \in Nat /\ MaxTime \in Nat
      /\ MaxViolations \in Nat \ {0} /\ Forever \in Int /\ clock + BlacklistTTL < Forever
  BY <1>1 DEF TypeOK, BlacklistAssumption, Forever
<1> DEFINE ip == proc[w].ip
<1>3. proc[w] \in Proc /\ proc[w] # NoProc /\ ip \in IPs /\ proc[w].count \in Nat
  BY <1>1 DEF Fail, TypeOK, Proc
<1>4. /\ UNCHANGED <<clock, violations, bans, streak>>
      /\ lostExpire' = IF proc[w].pc = "EXPIRE" THEN lostExpire \cup {ip} ELSE lostExpire
      /\ lostBan' = IF proc[w].pc = "DEL" \/ proc[w].count >= MaxViolations
                    THEN lostBan \cup {ip} ELSE lostBan
  BY DEF Fail
<1>5. /\ proc' \in [Workers -> Proc \cup {NoProc}] /\ proc'[w] = NoProc
      /\ \A v \in Workers : v # w => proc'[v] = proc[v]
  BY <1>1, ProcSet DEF Fail, Return
<1>6. \A i \in IPs : Counted(i)' = Counted(i)
  BY <1>4 DEF Counted, Exists
<1>7. ASSUME NEW i \in IPs, BanPending(i) \/ Unbanning(i) \/ i \in lostBan
      PROVE  BanPending(i)' \/ Unbanning(i)' \/ i \in lostBan'
  <2>1. CASE i \in lostBan
    BY <1>4, <2>1
  <2>2. CASE i # ip
    BY <1>4, <1>5, <1>7, <2>2, PendingElsewhere
  <2>3. CASE i = ip /\ (proc[w].pc = "DEL" \/ proc[w].count >= MaxViolations)
    BY <1>4, <2>3
  <2>4. CASE i = ip /\ ~(proc[w].pc = "DEL" \/ proc[w].count >= MaxViolations)
    BY <1>4, <1>5, <1>7, <2>4, PendingElsewhere
  <2> QED BY <2>1, <2>2, <2>3, <2>4
<1>8. TypeOK'
  BY <1>1, <1>3, <1>4, <1>5 DEF TypeOK
<1>9. StepsInTime'
  BY <1>1, <1>4, <1>5 DEF StepsInTime
<1>10. CountersInTime'
  BY <1>1, <1>4 DEF CountersInTime, Forever
<1>11. LatestExpires'
  <2>1. ASSUME NEW i \in IPs, violations[i].expires = Forever, i \notin lostExpire'
        PROVE  \E v \in Workers : /\ proc'[v] # NoProc /\ proc'[v].pc = "EXPIRE" /\ proc'[v].ip = i
                                  /\ proc'[v].count = violations[i].count
    <3>1. PICK v \in Workers : /\ proc[v] # NoProc /\ proc[v].pc = "EXPIRE" /\ proc[v].ip = i
                               /\ proc[v].count = violations[i].count
      BY <1>1, <1>4, <2>1 DEF LatestExpires
    <3>2. v # w
      BY <1>4, <2>1, <3>1
    <3> QED BY <1>5, <3>1, <3>2
  <2> QED BY <1>4, <2>1 DEF LatestExpires, Forever
<1>12. BannedSince'
  <2> SUFFICES ASSUME NEW v \in Workers, NEW i \in IPs, proc'[v] # NoProc,
                      proc'[v].pc = "EXPIRE", proc'[v].ip = i, Counted(i)' >= MaxViolations
               PROVE  \/ bans'[i].expires >= proc'[v].at + BlacklistTTL
                      \/ BanPending(i)' \/ Unbanning(i)' \/ i \in lostBan'
    BY DEF BannedSince
  <2>1. v # w
    BY <1>5
  <2> QED BY <1>1, <1>4, <1>5, <1>6, <1>7, <2>1 DEF BannedSince
<1>13. Advertised'
  BY <1>1, <1>4 DEF Advertised
<1>14. ThresholdBans'
  BY <1>1, <1>4, <1>6, <1>7 DEF ThresholdBans
<1>15. CountIsEarned'
  BY <1>1, <1>4, <1>6 DEF CountIsEarned
<1> QED BY <1>8, <1>9, <1>10, <1>11, <1>12, <1>13, <1>14, <1>15 DEF BlacklistInv

(***************************************************************************)
(* Time passes within the delay of every operation; keys expire.           *)
(***************************************************************************)
LEMMA TickKeeps ==
  ASSUME BlacklistAssumption, BlacklistInv, Tick
  PROVE  BlacklistInv'
<1>1. /\ TypeOK /\ StepsInTime /\ CountersInTime /\ LatestExpires /\ BannedSince
      /\ Advertised /\ ThresholdBans /\ CountIsEarned
  BY DEF BlacklistInv
<1>2. /\ clock \in Nat /\ BlacklistTTL \in Nat /\ MaxDelay \in Nat /\ MaxTime \in Nat
      /\ MaxViolations \in Nat \ {0} /\ Forever \in Int /\ clock + BlacklistTTL < Forever
  BY <1>1 DEF TypeOK, BlacklistAssumption, Forever
<1>3. /\ clock' = clock + 1 /\ clock' \in 0 .. MaxTime
      /\ \A w \in Workers : proc[w] # NoProc => clock - proc[w].at < MaxDelay
      /\ UNCHANGED <<violations, bans, proc, streak, lostExpire, lostBan>>
  BY <1>1 DEF Tick, TypeOK, BlacklistAssumption
<1>4. \A i \in IPs : violations[i].expires \in Int /\ violations[i].count \in Nat
                    /\ bans[i].expires \in Int /\ streak[i].count \in Nat
  BY <1>1 DEF TypeOK, Count, Ban
<1>5. \A i \in IPs : Counted(i)' = Counted(i) \/ Counted(i)' = 0
  BY <1>2, <1>3, <1>4 DEF Counted, Exists
<1>6. \A i \in IPs : BanPending(i)' = BanPending(i) /\ Unbanning(i)' = Unbanning(i)
  BY <1>3 DEF BanPending, Unbanning, At
<1>7. TypeOK'
  BY <1>1, <1>2, <1>3, <1>4 DEF TypeOK
<1>8. StepsInTime'
  <2>1. \A w \in Workers : proc[w] # NoProc => proc[w].at \in Nat
    BY <1>1 DEF TypeOK, Proc
  <2> QED BY <1>1, <1>2, <1>3, <2>1 DEF StepsInTime
<1>9. CountersInTime'
  BY <1>1, <1>2, <1>3, <1>4 DEF CountersInTime, Forever
<1>10. LatestExpires'
  BY <1>1, <1>3 DEF LatestExpires, Forever
<1>11. BannedSince'
  BY <1>1, <1>2, <1>3, <1>5, <1>6 DEF BannedSince
<1>12. Advertised'
  BY <1>1, <1>3 DEF Advertised
<1>13. ThresholdBans'
  BY <1>1, <1>2, <1>3, <1>5, <1>6 DEF ThresholdBans
<1>14. CountIsEarned'
  BY <1>1, <1>3, <1>4, <1>5 DEF CountIsEarned
<1> QED BY <1>7, <1>8, <1>9, <1>10, <1>11, <1>12, <1>13, <1>14 DEF BlacklistInv

(***************************************************************************)
(* The invariant is inductive.                                             *)
(***************************************************************************)
LEMMA BlacklistStep ==
  ASSUME BlacklistAssumption, BlacklistInv, [Next]_vars
  PROVE  BlacklistInv'
<1>1. CASE UNCHANGED vars
  BY <1>1 DEF BlacklistInv, vars, TypeOK, StepsInTime, CountersInTime, LatestExpires, BannedSince,
              Advertised, ThresholdBans, CountIsEarned, Forever, Counted, Exists,
              BanPending, Unbanning, At
<1>2. ASSUME NEW w \in Workers, NEW ip \in IPs,
             Incr(w, ip) \/ BanByAdmin(w, ip) \/ Unban(w, ip)
      PROVE  BlacklistInv'
  BY <1>2, IncrKeeps, BanByAdminKeeps, UnbanKeeps
<1>3. ASSUME NEW w \in Workers,
             Expire(w) \/ BeginBan(w) \/ SetBan(w) \/ DelViolations(w) \/ Fail(w)
      PROVE  BlacklistInv'
  BY <1>3, ExpireKeeps, BeginBanKeeps, SetBanKeeps, DelViolationsKeeps, FailKeeps
<1> QED BY <1>1, <1>2, <1>3, TickKeeps DEF Next

(***************************************************************************)
(* The blacklist keeps its invariant, whatever overlaps or is cut short.   *)
(***************************************************************************)
THEOREM Blacklisted == Spec => []BlacklistInv
<1>1. Init => BlacklistInv
  BY BlacklistAssumption, BlacklistInit
<1>2. BlacklistInv /\ [Next]_vars => BlacklistInv'
  BY BlacklistAssumption, BlacklistStep
<1> QED BY <1>1, <1>2, PTL DEF Spec

(***************************************************************************)
(* Counters, bans and operations have their types (blacklist.py).          *)
(***************************************************************************)
THEOREM TypeCorrect == Spec => []TypeOK
<1>1. BlacklistInv => TypeOK
  BY DEF BlacklistInv
<1> QED BY <1>1, Blacklisted, PTL

(***************************************************************************)
(* Violations that reach the threshold lead to a ban which lasts as long   *)
(* as they are remembered (blacklist.py, record_violation).                *)
(***************************************************************************)
THEOREM ThresholdLeadsToBan == Spec => []ThresholdBans
<1>1. BlacklistInv => ThresholdBans
  BY DEF BlacklistInv
<1> QED BY <1>1, Blacklisted, PTL

(***************************************************************************)
(* No counter lives for ever unless an EXPIRE was lost (record_violation). *)
(***************************************************************************)
THEOREM NoEternalCounter == Spec => []CountersExpire
<1>1. BlacklistInv => CountersExpire
  BY DEF BlacklistInv, LatestExpires, CountersExpire, At
<1> QED BY <1>1, Blacklisted, PTL

(***************************************************************************)
(* A count is never more than the violations that earned it                *)
(* (record_violation).                                                     *)
(***************************************************************************)
THEOREM EveryCountIsEarned == Spec => []CountIsEarned
<1>1. BlacklistInv => CountIsEarned
  BY DEF BlacklistInv
<1> QED BY <1>1, Blacklisted, PTL

(***************************************************************************)
(* What list_active shows is when a ban ends, but for the skew of the      *)
(* clock that dated it and the delay of its SET (ban).                     *)
(***************************************************************************)
THEOREM BansEndAsAdvertised == Spec => []AdvertisedExpiry
<1>1. BlacklistInv => AdvertisedExpiry
  BY DEF BlacklistInv, Advertised, AdvertisedExpiry
<1> QED BY <1>1, Blacklisted, PTL
=============================================================================
