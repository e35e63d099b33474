----------------------------- MODULE RateLimiter -----------------------------
(***************************************************************************)
(* The token buckets of server/webbou/ratelimit.go: one global bucket      *)
(* (Allow, AllowN) and one lazily created bucket per remote address        *)
(* (AllowIP), evicted by the cleanup goroutine when idle.  Every method    *)
(* runs under rl.mu, so each one is a single action.  AllowIP reads the    *)
(* clock twice, once to refill and once to stamp the bucket: its action    *)
(* takes the time that passes in between.                                  *)
(*                                                                         *)
(* Time is discrete and tokens are integers in a finer unit: 1.0 token of  *)
(* the code is Unit, so a Unit larger than the refill of one instant gives *)
(* the fractional tokens of the float64 fields.                            *)
(***************************************************************************)
EXTENDS Integers

CONSTANTS
  IPs,        \* keys of perIPLimiters
  Unit,       \* 1.0 token
  IPMax,      \* maxTokens / 10
  IPRate,     \* refillRate / 10, per instant
  IdleLimit,  \* the 5 minutes after which cleanup evicts
  Gaps,       \* times that may pass between the two readings of AllowIP
  Requests,   \* amounts asked of the global bucket (Unit is Allow)
  MaxTime     \* bound on now

\* An idle bucket has refilled by the time it is evicted (300s * 10/s >= 100
\* for the NewRateLimiter(1000, 100) of server.go).
ASSUME LimiterAssumption ==
  /\ Unit \in Nat /\ IPMax \in Nat /\ IPRate \in Nat /\ IdleLimit \in Nat
  /\ MaxTime \in Nat /\ Requests \subseteq Nat /\ Gaps \subseteq Nat
  /\ Unit <= IPMax
  /\ IPMax <= IPRate * IdleLimit

MaxTokens == 10 * IPMax
RefillRate == 10 * IPRate

VARIABLES
  now,         \* time.Now()
  tokens,      \* global bucket
  lastRefill,
  present,     \* keys of perIPLimiters
  ipTokens,    \* tokens of each present key
  lastAccess,
  \* History: an arbitrary window that opened at since, and what was granted
  \* in it; the last instant each address' bucket was full, the requests
  \* granted to it from then on, and the time its calls spent between their
  \* two readings of the clock.
  since, spent, granted, fullAt, taken, lost

bucket == <<tokens, lastRefill>>
ipBucket == <<present, ipTokens, lastAccess>>
window == <<since, spent, granted>>
busy == <<fullAt, taken, lost>>
vars == <<now, bucket, ipBucket, window, busy>>

Init ==
  /\ now = 0 /\ tokens = MaxTokens /\ lastRefill = 0
  /\ present = {}
  /\ ipTokens = [ip \in IPs |-> 0]
  /\ lastAccess = [ip \in IPs |-> 0]
  /\ since = 0 /\ spent = 0 /\ granted = [ip \in IPs |-> 0]
  /\ fullAt = [ip \in IPs |-> 0] /\ taken = [ip \in IPs |-> 0]
  /\ lost = [ip \in IPs |-> 0]

Capped(n, cap) == IF n > cap THEN cap ELSE n

(***************************************************************************)
(* The global bucket: refill, then take n when there are n.                *)
(***************************************************************************)
Uncapped_refill == tokens + (now - lastRefill) * RefillRate
refill == Capped(tokens + (now - lastRefill) * RefillRate, MaxTokens)

AllowN(n) ==
  /\ lastRefill' = now
  /\ \/ /\ refill >= n
        /\ tokens' = refill - n
        /\ spent' = spent + n
     \/ /\ refill < n
        /\ tokens' = refill
        /\ UNCHANGED spent
  /\ UNCHANGED <<now, ipBucket, since, granted, busy>>

(***************************************************************************)
(* The bucket of one address.  A missing key starts full.                  *)
(***************************************************************************)
Level(ip) == IF ip \in present
             THEN ipTokens[ip] + (now - lastAccess[ip]) * IPRate
             ELSE IPMax

Filled(ip) == Capped(Level(ip), IPMax)

Full(ip) == Level(ip) >= IPMax

\* What both outcomes of AllowIP do: create the entry, refill it by the time up
\* to now and stamp it with the time gap later.  History.
Access(ip, gap) ==
  /\ now + gap <= MaxTime
  /\ now' = now + gap
  /\ present' = present \cup {ip}
  /\ lastAccess' = [lastAccess EXCEPT ![ip] = now + gap]
  /\ fullAt' = [fullAt EXCEPT ![ip] = IF Full(ip) THEN now ELSE @]
  /\ lost' = [lost EXCEPT ![ip] = (IF Full(ip) THEN 0 ELSE @) + gap]
  /\ UNCHANGED <<bucket, since, spent>>

TakenBefore(ip) == IF Full(ip) THEN 0 ELSE taken[ip]

AdmitIP(ip, gap) ==
  /\ Filled(ip) >= Unit
  /\ ipTokens' = [ipTokens EXCEPT ![ip] = Filled(ip) - Unit]
  /\ granted' = [granted EXCEPT ![ip] = @ + 1]
  /\ taken' = [taken EXCEPT ![ip] = TakenBefore(ip) + 1]
  /\ Access(ip, gap)

Forgetful_RefuseIP(ip, gap) ==
  /\ Filled(ip) < Unit
  /\ taken' = [taken EXCEPT ![ip] = TakenBefore(ip)]
  /\ Access(ip, gap)
  /\ UNCHANGED <<granted, ipTokens>>

RefuseIP(ip, gap) ==
  /\ Filled(ip) < Unit
  /\ ipTokens' = [ipTokens EXCEPT ![ip] = Filled(ip)]
  /\ taken' = [taken EXCEPT ![ip] = TakenBefore(ip)]
  /\ Access(ip, gap)
  /\ UNCHANGED granted

AllowIP(ip, gap) == AdmitIP(ip, gap) \/ RefuseIP(ip, gap)

(***************************************************************************)
(* One pass of the cleanup goroutine.                                      *)
(***************************************************************************)
Eager_Idle == present
Idle == {ip \in present : now - lastAccess[ip] > IdleLimit}

cleanup ==
  /\ Idle # {}
  /\ present' = present \ Idle
  /\ UNCHANGED <<now, bucket, ipTokens, lastAccess, window, busy>>

Tick ==
  /\ now < MaxTime
  /\ now' = now + 1
  /\ UNCHANGED <<bucket, ipBucket, window, busy>>

\* History only: the window under observation may open at any instant.
OpenWindow ==
  /\ since < now
  /\ since' = now
  /\ spent' = 0
  /\ granted' = [ip \in IPs |-> 0]
  /\ UNCHANGED <<now, bucket, ipBucket, busy>>

Next ==
  \/ \E n \in Requests : AllowN(n)
  \/ \E ip \in IPs, gap \in Gaps : AllowIP(ip, gap)
  \/ cleanup
  \/ Tick
  \/ OpenWindow

Spec == Init /\ [][Next]_vars

-----------------------------------------------------------------------------
\* Types: the levels stay between empty and full, and no stamp is in the future.
TypeOK ==
  /\ now \in 0..MaxTime
  /\ tokens \in 0..MaxTokens /\ lastRefill \in 0..now
  /\ present \subseteq IPs
  /\ ipTokens \in [IPs -> 0..IPMax]
  /\ lastAccess \in [IPs -> 0..now]
  /\ since \in 0..now /\ spent \in Nat
  /\ granted \in [IPs -> Nat]
  /\ fullAt \in [IPs -> 0..now]
  /\ taken \in [IPs -> Nat] /\ lost \in [IPs -> Nat]

\* Over any window of time, Allow and AllowN hand out no more than one full
\* bucket plus what the refill rate yields in the window.
GlobalWindow == spent <= MaxTokens + RefillRate * (now - since)

\* Over any window of time, AllowIP admits one address at most one full
\* per-address bucket plus the refill of the window, even though cleanup
\* forgets the address and AllowIP then recreates its bucket full.
IPWindow == \A ip \in IPs :
  Unit * granted[ip] <= IPMax + IPRate * (now - since)

\* AllowIP refuses an address only if that address has used up its allowance:
\* since its bucket was last full, one more request would exceed the full
\* bucket plus the refill of the time since.  The time that passed within its
\* own calls between the reading that refills and the reading that stamps is
\* lost, with every call, refused ones included; no other refill is.
RefusalJustified == [][\A ip \in IPs, gap \in Gaps :
  RefuseIP(ip, gap) =>
    Unit * (taken[ip] + 1) > IPMax + IPRate * (now - fullAt[ip] - lost[ip])]_vars

=============================================================================
