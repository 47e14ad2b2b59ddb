------------------------------ MODULE Blacklist ------------------------------
(***************************************************************************)
(* The blacklist of app/security/blacklist.py.                             *)
(*                                                                         *)
(* record_violation(), ban() and unban() are sequences of Redis commands   *)
(* with an await at each, so operations of other coroutines and replicas   *)
(* on the same address come between them, and any of them can fail between *)
(* two commands.  A ban is dated by the clock of the replica that decides  *)
(* it, which may be ahead of Redis's or behind, and expires by Redis's.    *)
(***************************************************************************)
EXTENDS Integers

CONSTANTS
  IPs,            \* client addresses
  Workers,        \* the coroutines, of any replica, that use the blacklist
  MaxViolations,  \* max_violations_before_ban
  BlacklistTTL,   \* blacklist_ttl_seconds, in ticks
  MaxSkew,        \* a replica's clock is at most this far from Redis's
  MaxDelay,       \* ticks between two steps of one operation
  MaxTime,        \* bound of the clock
  MaxStreak,      \* bound of the violations recorded in a row
  NoProc          \* a worker in none of the operations

VARIABLES
  clock,       \* Redis's clock
  violations,  \* the violation counter of each address
  bans,        \* the ban entry of each address
  proc,        \* the operation each worker is in, at its await
  streak,      \* history: violations in a row, each soon after the last
  lostExpire,  \* history: addresses whose last EXPIRE was not sent
  lostBan      \* history: addresses whose last ban or unban was cut short

vars == <<clock, violations, bans, proc, streak, lostExpire, lostBan>>

Count == [count : Nat, expires : Int]
Ban   == [expires : Int, advertised : Int]
Proc  == [pc : {"EXPIRE", "ban", "SET", "DEL"}, ip : IPs, count : Nat, at : Nat]

ASSUME BlacklistAssumption ==
  /\ MaxViolations \in Nat \ {0} /\ BlacklistTTL \in Nat
  /\ MaxSkew \in Nat /\ MaxDelay \in Nat /\ MaxTime \in Nat /\ MaxStreak \in Nat
  /\ NoProc \notin Proc

(***************************************************************************)
(* The expiry of a key without a TTL; -1 is the expiry of a missing key.   *)
(***************************************************************************)
Forever == MaxTime + BlacklistTTL + 1

Exists(key) == clock <= key.expires
IsBanned(ip) == Exists(bans[ip])
Counted(ip) == IF Exists(violations[ip]) THEN violations[ip].count ELSE 0

(***************************************************************************)
(* Types, and every ban expires within its TTL.                            *)
(***************************************************************************)
TypeOK ==
  /\ clock \in 0 .. MaxTime
  /\ violations \in [IPs -> Count]
  /\ bans \in [IPs -> Ban]
  /\ \A ip \in IPs : bans[ip].expires <= clock + BlacklistTTL
  /\ proc \in [Workers -> Proc \cup {NoProc}]
  /\ streak \in [IPs -> [count : Nat, last : Int]]
  /\ lostExpire \subseteq IPs /\ lostBan \subseteq IPs

Init ==
  /\ clock = 0
  /\ violations = [ip \in IPs |-> [count |-> 0, expires |-> -1]]
  /\ bans = [ip \in IPs |-> [expires |-> -1, advertised |-> -1]]
  /\ proc = [w \in Workers |-> NoProc]
  /\ streak = [ip \in IPs |-> [count |-> 0, last |-> -1]]
  /\ lostExpire = {} /\ lostBan = {}

At(w, pc) == proc[w] # NoProc /\ proc[w].pc = pc
Goto(w, pc) == proc' = [proc EXCEPT ![w].pc = pc, ![w].at = clock]
Return(w) == proc' = [proc EXCEPT ![w] = NoProc]

(***************************************************************************)
(* record_violation(ip): INCR creates the counter without a TTL, or keeps  *)
(* the TTL the counter has.                                                *)
(***************************************************************************)
Incr(w, ip) ==
  /\ proc[w] = NoProc
  /\ streak[ip].count < MaxStreak
  /\ LET n == Counted(ip) + 1 IN
     /\ violations' = [violations EXCEPT ![ip] =
                         [count   |-> n,
                          expires |-> IF Exists(violations[ip]) THEN @.expires ELSE Forever]]
     /\ proc' = [proc EXCEPT ![w] = [pc |-> "EXPIRE", ip |-> ip, count |-> n, at |-> clock]]
  /\ streak' = [streak EXCEPT ![ip] =
                  [count |-> IF clock - @.last <= BlacklistTTL + MaxDelay \/ ip \in lostExpire
                             THEN @.count + 1 ELSE 1,
                   last  |-> clock]]
  /\ UNCHANGED <<clock, bans, lostExpire, lostBan>>

(***************************************************************************)
(* EXPIRE, which does nothing if the counter was deleted, and the test of  *)
(* the count that INCR returned.                                           *)
(***************************************************************************)
AboveThreshold(n) == n > MaxViolations
AtThreshold(n) == n >= MaxViolations

ExpireOmitted(w) ==
  /\ At(w, "EXPIRE")
  /\ IF AtThreshold(proc[w].count) THEN Goto(w, "ban") ELSE Return(w)
  /\ UNCHANGED <<clock, violations, bans, streak, lostExpire, lostBan>>

Expire(w) ==
  /\ At(w, "EXPIRE")
  /\ LET ip == proc[w].ip IN
     IF Exists(violations[ip])
     THEN /\ violations' = [violations EXCEPT ![ip].expires = clock + BlacklistTTL]
          /\ lostExpire' = lostExpire \ {ip}
     ELSE UNCHANGED <<violations, lostExpire>>
  /\ IF AtThreshold(proc[w].count) THEN Goto(w, "ban") ELSE Return(w)
  /\ UNCHANGED <<clock, bans, streak, lostBan>>

(***************************************************************************)
(* ban(): read the clock.  It is called by record_violation() and, with a  *)
(* violation count of 1, by the administrator.                             *)
(***************************************************************************)
BeginBan(w) ==
  /\ At(w, "ban")
  /\ Goto(w, "SET")
  /\ UNCHANGED <<clock, violations, bans, streak, lostExpire, lostBan>>

BanByAdmin(w, ip) ==
  /\ proc[w] = NoProc
  /\ proc' = [proc EXCEPT ![w] = [pc |-> "SET", ip |-> ip, count |-> 1, at |-> clock]]
  /\ UNCHANGED <<clock, violations, bans, streak, lostExpire, lostBan>>

(***************************************************************************)
(* SET with the TTL.  The entry advertises an expiry computed from the     *)
(* reading, which the replica took at the worker's last step and which is  *)
(* off by the skew of its clock.                                           *)
(***************************************************************************)
EntryWithoutEx(w, skew) ==
  [expires |-> Forever, advertised |-> proc[w].at + skew + BlacklistTTL]
EntryWithoutTTL(w, skew) ==
  [expires |-> clock + BlacklistTTL, advertised |-> proc[w].at + skew]
Entry(w, skew) ==
  [expires |-> clock + BlacklistTTL, advertised |-> proc[w].at + skew + BlacklistTTL]

SetBan(w) ==
  /\ At(w, "SET")
  /\ \E skew \in -MaxSkew .. MaxSkew : bans' = [bans EXCEPT ![proc[w].ip] = Entry(w, skew)]
  /\ lostBan' = lostBan \ {proc[w].ip}
  /\ Return(w)
  /\ UNCHANGED <<clock, violations, streak, lostExpire>>

(***************************************************************************)
(* unban(ip): DEL of the ban, then DEL of the counter.                     *)
(***************************************************************************)
Unban(w, ip) ==
  /\ proc[w] = NoProc
  /\ bans' = [bans EXCEPT ![ip] = [expires |-> -1, advertised |-> -1]]
  /\ proc' = [proc EXCEPT ![w] = [pc |-> "DEL", ip |-> ip, count |-> 0, at |-> clock]]
  /\ UNCHANGED <<clock, violations, streak, lostExpire, lostBan>>

DelViolations(w) ==
  /\ At(w, "DEL")
  /\ violations' = [violations EXCEPT ![proc[w].ip] = [count |-> 0, expires |-> -1]]
  /\ lostExpire' = lostExpire \ {proc[w].ip}
  /\ lostBan' = lostBan \ {proc[w].ip}
  /\ Return(w)
  /\ UNCHANGED <<clock, bans, streak>>

(***************************************************************************)
(* The operation ends between two commands: the connection fails, the      *)
(* client of the gateway disconnects, or the replica stops.                *)
(***************************************************************************)
Fail(w) ==
  /\ proc[w] # NoProc
  /\ LET p == proc[w] IN
     /\ lostExpire' = IF p.pc = "EXPIRE" THEN lostExpire \cup {p.ip} ELSE lostExpire
     /\ lostBan' = IF p.pc = "DEL" \/ p.count >= MaxViolations
                   THEN lostBan \cup {p.ip} ELSE lostBan
  /\ Return(w)
  /\ UNCHANGED <<clock, violations, bans, streak>>

Tick ==
  /\ clock < MaxTime
  /\ \A w \in Workers : proc[w] # NoProc => clock - proc[w].at < MaxDelay
  /\ clock' = clock + 1
  /\ UNCHANGED <<violations, bans, proc, streak, lostExpire, lostBan>>

Next ==
  \/ \E w \in Workers, ip \in IPs : Incr(w, ip) \/ BanByAdmin(w, ip) \/ Unban(w, ip)
  \/ \E w \in Workers : \/ Expire(w) \/ BeginBan(w) \/ SetBan(w)
                        \/ DelViolations(w) \/ Fail(w)
  \/ Tick

Spec == Init /\ [][Next]_vars

-----------------------------------------------------------------------------
(***************************************************************************)
(* A worker has yet to ban ip for a count at the threshold; a worker is    *)
(* between the two DELs of an unban of ip.                                 *)
(***************************************************************************)
BanPending(ip) ==
  \E w \in Workers : /\ proc[w] # NoProc /\ proc[w].ip = ip /\ proc[w].pc # "DEL"
                     /\ proc[w].count >= MaxViolations
Unbanning(ip) == \E w \in Workers : At(w, "DEL") /\ proc[w].ip = ip

(***************************************************************************)
(* An address whose counter has reached the threshold is banned for as     *)
(* long as the counter lives, but for the MaxDelay by which the EXPIRE of  *)
(* an earlier violation can outlast the SET of a later one, unless the ban *)
(* is on its way, an unban is half done, or an operation was cut short.    *)
(***************************************************************************)
ThresholdBans ==
  \A ip \in IPs :
    Counted(ip) >= MaxViolations =>
      \/ bans[ip].expires >= violations[ip].expires - MaxDelay
      \/ BanPending(ip) \/ Unbanning(ip)
      \/ ip \in lostBan \cup lostExpire

(***************************************************************************)
(* A counter is without a TTL only while an EXPIRE is on its way, or after *)
(* one was not sent: INCR and EXPIRE are not one command.                  *)
(***************************************************************************)
CountersExpire ==
  \A ip \in IPs :
    violations[ip].expires = Forever =>
      ip \in lostExpire \/ \E w \in Workers : At(w, "EXPIRE") /\ proc[w].ip = ip

(***************************************************************************)
(* A count is earned: there were as many violations in a row, each within  *)
(* the TTL of the one before it and the delay of its EXPIRE.               *)
(***************************************************************************)
CountIsEarned == \A ip \in IPs : Counted(ip) <= streak[ip].count

(***************************************************************************)
(* The expires_at shown to administrators is the expiry of the ban in      *)
(* Redis, but for the skew of the clock that computed it and, on the early *)
(* side, the delay of the SET: whatever overlaps, no administrator is told *)
(* of a ban that has ended long before or will outlast what is shown.      *)
(***************************************************************************)
AdvertisedExpiry ==
  \A ip \in IPs :
    IsBanned(ip) => /\ bans[ip].advertised <= bans[ip].expires + MaxSkew
                    /\ bans[ip].expires <= bans[ip].advertised + MaxDelay + MaxSkew

(***************************************************************************)
(* When unban() returns ("unbanned", main.py:103) no ban that was decided  *)
(* before it began, by any replica's clock, is in force.                   *)
(***************************************************************************)
UnbanLiftsEarlierBans ==
  [][\A w \in Workers : DelViolations(w) =>
       ~ /\ IsBanned(proc[w].ip)
         /\ bans[proc[w].ip].advertised - BlacklistTTL + MaxSkew < proc[w].at]_vars
=============================================================================
