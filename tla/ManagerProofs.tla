---------------------------- MODULE ManagerProofs ----------------------------
(***************************************************************************)
(* Proofs about the rate limiter, the session table, the configuration,    *)
(* the load balancer and the choice of a path, for every size and limit    *)
(* and for any number of addresses, goroutines, backends and paths.  The   *)
(* parts share nothing; each has a section of its own.                     *)
(***************************************************************************)
EXTENDS RateLimiter, SessionManager, ConfigManager, LoadBalancer, MultiPathManager,
        TLAPS

-----------------------------------------------------------------------------
(* RateLimiter: the token buckets keep to their rates *)

(***************************************************************************)
(* Arithmetic of a bucket that refills at rate r.                          *)
(***************************************************************************)

\* Refills over adjacent spans of time add up, and grow with time.
LEMMA RefillAdds ==
  ASSUME NEW r \in Nat, NEW a \in Int, NEW b \in Int, NEW c \in Int
  PROVE  r * (b - a) + r * (c - b) = r * (c - a)
  OBVIOUS

LEMMA RefillGrows ==
  ASSUME NEW r \in Nat, NEW a \in Int, NEW b \in Int, a <= b
  PROVE  r * (b - a) \in Nat
  OBVIOUS

LEMMA MaxTypes == MaxTokens \in Nat /\ RefillRate \in Nat
  BY LimiterAssumption DEF MaxTokens, RefillRate

-----------------------------------------------------------------------------
(***************************************************************************)
(* The inductive invariant.  Until the window opens after the last access, *)
(* what was granted in the window plus what is left in the bucket is       *)
(* covered by one full bucket and the refill up to that access.  An        *)
(* evicted address has been idle so long that the refill alone covers it,  *)
(* which pays for the full bucket it gets when it comes back.              *)
(***************************************************************************)
GlobalInv ==
  /\ since <= lastRefill => spent + tokens <= MaxTokens + RefillRate * (lastRefill - since)
  /\ since > lastRefill => spent = 0

PresentInv(ip) ==
  /\ since <= lastAccess[ip] =>
       Unit * granted[ip] + ipTokens[ip] <= IPMax + IPRate * (lastAccess[ip] - since)
  /\ since > lastAccess[ip] => granted[ip] = 0

AbsentInv(ip) == Unit * granted[ip] <= IPRate * (now - since)

\* The level of a bucket, from when it was last full, without the refill of the
\* time that its calls lost.
Base(ip) == fullAt[ip] + lost[ip]

LevelInv(ip) ==
  /\ Base(ip) <= lastAccess[ip]
  /\ ipTokens[ip] = IPMax + IPRate * (lastAccess[ip] - Base(ip)) - Unit * taken[ip]

IPInv(ip) ==
  /\ ip \in present => PresentInv(ip) /\ LevelInv(ip)
  /\ ip \notin present => AbsentInv(ip)

IInv == TypeOK /\ GlobalInv /\ \A ip \in IPs : IPInv(ip)

\* Everything the model computes with is an integer.
LEMMA Types ==
  ASSUME TypeOK, NEW ip \in IPs
  PROVE  /\ now \in Nat /\ tokens \in Nat /\ lastRefill \in Nat /\ since \in Nat /\ spent \in Nat
         /\ ipTokens[ip] \in Nat /\ lastAccess[ip] \in Nat /\ granted[ip] \in Nat
         /\ fullAt[ip] \in Nat /\ taken[ip] \in Nat /\ lost[ip] \in Nat /\ Base(ip) \in Nat
         /\ lastRefill <= now /\ since <= now /\ lastAccess[ip] <= now /\ fullAt[ip] <= now
         /\ ipTokens[ip] <= IPMax /\ tokens <= MaxTokens
  BY LimiterAssumption, MaxTypes DEF TypeOK, Base

\* A refilled bucket is between empty and full.
LEMMA FilledType ==
  ASSUME TypeOK, NEW ip \in IPs
  PROVE  /\ Level(ip) \in Nat
         /\ Filled(ip) \in 0..IPMax
         /\ Filled(ip) <= Level(ip)
         /\ Level(ip) < IPMax => Filled(ip) = Level(ip)
         /\ Level(ip) >= IPMax => Filled(ip) = IPMax
<1>1. (now - lastAccess[ip]) * IPRate \in Nat
  <2>1. IPRate * (now - lastAccess[ip]) \in Nat
    BY Types, RefillGrows, LimiterAssumption
  <2> QED
    BY <2>1, Types, LimiterAssumption
<1> QED
  BY <1>1, Types, LimiterAssumption DEF Level, Filled, Capped

LEMMA RefillType ==
  ASSUME TypeOK
  PROVE  /\ refill \in 0..MaxTokens
         /\ refill <= tokens + RefillRate * (now - lastRefill)
<1>0. now \in Nat /\ lastRefill \in Nat /\ lastRefill <= now /\ tokens \in Nat
  BY MaxTypes, LimiterAssumption DEF TypeOK
<1>1. RefillRate * (now - lastRefill) \in Nat
  BY <1>0, RefillGrows, MaxTypes
<1>2. (now - lastRefill) * RefillRate = RefillRate * (now - lastRefill)
  BY <1>0, MaxTypes
<1> QED
  BY <1>0, <1>1, <1>2, MaxTypes DEF refill, Capped

-----------------------------------------------------------------------------
LEMMA InitIInv == Init => IInv
<1> SUFFICES ASSUME Init PROVE IInv
  BY Zenon
<1>1. TypeOK
  BY LimiterAssumption, MaxTypes DEF Init, TypeOK
<1>2. GlobalInv
  BY MaxTypes DEF Init, GlobalInv
<1>3. ASSUME NEW ip \in IPs PROVE IPInv(ip)
  BY LimiterAssumption DEF Init, IPInv, AbsentInv
<1> QED
  BY <1>1, <1>2, <1>3, Zenon DEF IInv

\* AllowN touches the global bucket only.
LEMMA AllowNStep ==
  ASSUME IInv, NEW n \in Requests, AllowN(n)
  PROVE  IInv'
<1> DEFINE left == refill - n
<1>0. /\ TypeOK /\ n \in Nat
      /\ now \in Nat /\ lastRefill \in Nat /\ since \in Nat /\ spent \in Nat /\ tokens \in Nat
      /\ lastRefill <= now /\ since <= now /\ tokens <= MaxTokens
  BY LimiterAssumption, MaxTypes DEF IInv, TypeOK
<1>1. refill \in Nat /\ refill <= MaxTokens /\ refill <= tokens + RefillRate * (now - lastRefill)
  BY <1>0, RefillType, MaxTypes
<1>2. spent + refill <= MaxTokens + RefillRate * (now - since)
  <2>1. CASE since <= lastRefill
    <3>1. RefillRate * (lastRefill - since) + RefillRate * (now - lastRefill)
            = RefillRate * (now - since)
      BY <1>0, RefillAdds, MaxTypes
    <3>2. spent + tokens <= MaxTokens + RefillRate * (lastRefill - since)
      BY <2>1, Zenon DEF IInv, GlobalInv
    <3>3. /\ RefillRate * (lastRefill - since) \in Int
          /\ RefillRate * (now - lastRefill) \in Int
      BY <1>0, MaxTypes
    <3> QED
      BY <1>0, <1>1, <3>1, <3>2, <3>3, MaxTypes
  <2>2. CASE since > lastRefill
    <3>1. RefillRate * (now - since) \in Nat
      BY <1>0, RefillGrows, MaxTypes
    <3> QED
      BY <1>0, <1>1, <2>2, <3>1, MaxTypes DEF IInv, GlobalInv
  <2> QED
    BY <1>0, <2>1, <2>2
<1>3. /\ tokens' \in 0..MaxTokens /\ spent' \in Nat
      /\ spent' + tokens' <= MaxTokens + RefillRate * (now - since)
  <2>1. RefillRate * (now - since) \in Int
    BY <1>0, MaxTypes
  <2> QED
    BY <1>0, <1>1, <1>2, <2>1, MaxTypes DEF AllowN
<1>4. TypeOK'
  BY <1>0, <1>3 DEF AllowN, TypeOK, ipBucket, busy
<1>5. GlobalInv'
  BY <1>0, <1>3 DEF AllowN, GlobalInv
<1>6. ASSUME NEW ip \in IPs PROVE IPInv(ip)'
  BY Zenon DEF IInv, AllowN, IPInv, PresentInv, AbsentInv, LevelInv, Base, ipBucket, busy
<1> QED
  BY <1>4, <1>5, <1>6, Zenon DEF IInv

\* What the window's requests and a refilled bucket add up to.
LEMMA FilledCovered ==
  ASSUME IInv, NEW ip \in IPs
  PROVE  Unit * granted[ip] + Filled(ip) <= IPMax + IPRate * (now - since)
<1>0. TypeOK
  BY Zenon DEF IInv
<1>t. /\ now \in Int /\ since \in Int /\ lastAccess[ip] \in Int /\ granted[ip] \in Nat
      /\ since <= now /\ lastAccess[ip] <= now
  BY <1>0, Types
<1>1. /\ Unit * granted[ip] \in Nat
      /\ IPRate * (now - since) \in Nat
      /\ IPRate * (now - lastAccess[ip]) \in Nat
      /\ (now - lastAccess[ip]) * IPRate = IPRate * (now - lastAccess[ip])
  <2>1. Unit \in Nat /\ IPRate \in Nat
    BY LimiterAssumption, Zenon
  <2>2. Unit * granted[ip] \in Nat
    BY <1>t, <2>1
  <2>3. IPRate * (now - since) \in Nat /\ IPRate * (now - lastAccess[ip]) \in Nat
    BY <1>t, <2>1, RefillGrows, Zenon
  <2>4. (now - lastAccess[ip]) * IPRate = IPRate * (now - lastAccess[ip])
    BY <1>t, <2>1
  <2> QED
    BY <2>2, <2>3, <2>4, Zenon
<1>2. Filled(ip) \in Nat /\ Filled(ip) <= IPMax /\ Filled(ip) <= Level(ip)
  BY <1>0, FilledType, LimiterAssumption
<1>3. CASE ip \notin present
  <2>1. Unit * granted[ip] <= IPRate * (now - since)
    BY <1>3, Zenon DEF IInv, IPInv, AbsentInv
  <2> QED
    BY <1>1, <1>2, <2>1, LimiterAssumption
<1>4. CASE ip \in present /\ since > lastAccess[ip]
  <2>1. granted[ip] = 0
    BY <1>4, Zenon DEF IInv, IPInv, PresentInv
  <2>2. Unit * granted[ip] = 0
    BY <2>1, LimiterAssumption
  <2> QED
    BY <1>1, <1>2, <2>2, LimiterAssumption
<1>5. CASE ip \in present /\ since <= lastAccess[ip]
  <2>1. Unit * granted[ip] + ipTokens[ip] <= IPMax + IPRate * (lastAccess[ip] - since)
    BY <1>5, Zenon DEF IInv, IPInv, PresentInv
  <2>2. IPRate * (lastAccess[ip] - since) + IPRate * (now - lastAccess[ip])
          = IPRate * (now - since)
    <3>1. IPRate \in Nat
      BY LimiterAssumption, Zenon
    <3> QED
      BY <1>t, <3>1, RefillAdds
  <2>3. Level(ip) = ipTokens[ip] + IPRate * (now - lastAccess[ip])
    BY <1>1, <1>5, Zenon DEF Level
  <2>4. IPRate * (lastAccess[ip] - since) \in Int /\ ipTokens[ip] \in Nat
    BY <1>0, Types, LimiterAssumption
  <2> QED
    BY <1>1, <1>2, <2>1, <2>2, <2>3, <2>4, LimiterAssumption
<1> QED
  BY <1>0, <1>3, <1>4, <1>5, Types

\* The refilled level, counted from when the bucket was last full.
LEMMA FilledLevel ==
  ASSUME IInv, NEW ip \in IPs, Level(ip) < IPMax
  PROVE  /\ ip \in present
         /\ Filled(ip) = IPMax + IPRate * (now - Base(ip)) - Unit * taken[ip]
<1>0. TypeOK
  BY Zenon DEF IInv
<1>1. ip \in present
  BY LimiterAssumption DEF Level
<1>2. /\ Base(ip) <= lastAccess[ip]
      /\ ipTokens[ip] = IPMax + IPRate * (lastAccess[ip] - Base(ip)) - Unit * taken[ip]
  BY <1>1, Zenon DEF IInv, IPInv, LevelInv
<1>3. IPRate * (lastAccess[ip] - Base(ip)) + IPRate * (now - lastAccess[ip])
        = IPRate * (now - Base(ip))
  BY <1>0, Types, RefillAdds, LimiterAssumption
<1>4. Filled(ip) = ipTokens[ip] + (now - lastAccess[ip]) * IPRate
  BY <1>0, <1>1, FilledType, Zenon DEF Level
<1>5. (now - lastAccess[ip]) * IPRate = IPRate * (now - lastAccess[ip])
  BY <1>0, Types, LimiterAssumption
<1>6. /\ IPRate * (lastAccess[ip] - Base(ip)) \in Int
      /\ IPRate * (now - lastAccess[ip]) \in Int
      /\ Unit * taken[ip] \in Int
  BY <1>0, Types, LimiterAssumption
<1> QED
  BY <1>1, <1>2, <1>3, <1>4, <1>5, <1>6, LimiterAssumption

-----------------------------------------------------------------------------
\* The refill of a window grows as time passes.
LEMMA Passes ==
  ASSUME TypeOK, NEW ip \in IPs, NEW later \in Nat, now <= later
  PROVE  /\ IPRate * (now - since) \in Nat /\ IPRate * (later - since) \in Nat
         /\ IPRate * (now - since) <= IPRate * (later - since)
         /\ Unit * granted[ip] \in Nat
<1>1. /\ now \in Nat /\ since \in Nat /\ since <= now /\ granted[ip] \in Nat
      /\ IPRate \in Nat /\ Unit \in Nat
  BY Types, LimiterAssumption
<1>2. /\ IPRate * (now - since) \in Nat /\ IPRate * (later - now) \in Nat
      /\ IPRate * (later - since) \in Nat
  BY <1>1, RefillGrows
<1>3. IPRate * (now - since) + IPRate * (later - now) = IPRate * (later - since)
  BY <1>1, RefillAdds
<1>4. Unit * granted[ip] \in Nat
  BY <1>1
<1> QED
  BY <1>2, <1>3, <1>4

\* Either outcome of AllowIP leaves the other buckets alone.
LEMMA AllowIPStep ==
  ASSUME IInv, NEW ip \in IPs, NEW gap \in Gaps, AllowIP(ip, gap)
  PROVE  IInv'
<1>0. TypeOK
  BY Zenon DEF IInv
<1>1. Filled(ip) \in Nat /\ Filled(ip) <= IPMax
  BY <1>0, FilledType, LimiterAssumption
<1> DEFINE later == now + gap
<1>2. /\ Access(ip, gap)
      /\ \/ /\ Filled(ip) >= Unit
            /\ ipTokens' = [ipTokens EXCEPT ![ip] = Filled(ip) - Unit]
            /\ granted' = [granted EXCEPT ![ip] = @ + 1]
            /\ taken' = [taken EXCEPT ![ip] = TakenBefore(ip) + 1]
         \/ /\ ipTokens' = [ipTokens EXCEPT ![ip] = Filled(ip)]
            /\ granted' = granted
            /\ taken' = [taken EXCEPT ![ip] = TakenBefore(ip)]
  BY Zenon DEF AllowIP, AdmitIP, RefuseIP
<1>3. /\ now' = later /\ later <= MaxTime /\ tokens' = tokens /\ lastRefill' = lastRefill
      /\ since' = since /\ spent' = spent
      /\ present' = present \cup {ip}
      /\ lastAccess' = [lastAccess EXCEPT ![ip] = later]
      /\ fullAt' = [fullAt EXCEPT ![ip] = IF Full(ip) THEN now ELSE fullAt[ip]]
      /\ lost' = [lost EXCEPT ![ip] = (IF Full(ip) THEN 0 ELSE lost[ip]) + gap]
  BY <1>2, Zenon DEF Access, bucket
<1>4. TakenBefore(ip) \in Nat /\ (IF Full(ip) THEN 0 ELSE lost[ip]) \in Nat
  BY <1>0, Types DEF TakenBefore
<1>g. now \in Nat /\ gap \in Nat /\ later \in Nat /\ now <= later /\ since <= now
  BY <1>0, Types, LimiterAssumption
<1> HIDE DEF later
<1>5. TypeOK'
  <2>1. ipTokens' \in [IPs -> 0..IPMax]
    BY <1>0, <1>1, <1>2, LimiterAssumption DEF TypeOK
  <2>2. granted' \in [IPs -> Nat] /\ taken' \in [IPs -> Nat]
    BY <1>0, <1>2, <1>4 DEF TypeOK
  <2>3. lastAccess' \in [IPs -> 0..later] /\ fullAt' \in [IPs -> 0..later]
    BY <1>0, <1>3, <1>g DEF TypeOK
  <2>4. lost' \in [IPs -> Nat]
    <3>1. (IF Full(ip) THEN 0 ELSE lost[ip]) + gap \in Nat
      BY <1>4, <1>g
    <3>2. lost \in [IPs -> Nat]
      BY <1>0, Zenon DEF TypeOK
    <3> QED
      BY <1>3, <3>1, <3>2
  <2>5. later \in 0..MaxTime /\ lastRefill \in 0..later /\ since \in 0..later
    BY <1>0, <1>3, <1>g, LimiterAssumption DEF TypeOK
  <2> QED
    BY <1>0, <1>3, <2>1, <2>2, <2>3, <2>4, <2>5, Zenon DEF TypeOK
<1>6. GlobalInv'
  BY <1>3, Zenon DEF IInv, GlobalInv
<1>7. /\ ip \in present' /\ lastAccess'[ip] = later
      /\ fullAt'[ip] = IF Full(ip) THEN now ELSE fullAt[ip]
      /\ lost'[ip] = (IF Full(ip) THEN 0 ELSE lost[ip]) + gap
      /\ \/ /\ ipTokens'[ip] = Filled(ip) - Unit
            /\ granted'[ip] = granted[ip] + 1
            /\ taken'[ip] = TakenBefore(ip) + 1
         \/ /\ ipTokens'[ip] = Filled(ip)
            /\ granted'[ip] = granted[ip]
            /\ taken'[ip] = TakenBefore(ip)
  BY <1>0, <1>2, <1>3, Zenon DEF TypeOK
<1>8. PresentInv(ip)'
  <2>1. Unit * granted[ip] + Filled(ip) <= IPMax + IPRate * (now - since)
    BY FilledCovered, Zenon
  <2>2. Unit * (granted[ip] + 1) = Unit * granted[ip] + Unit
    BY <1>0, Types, LimiterAssumption
  <2>3. /\ IPRate * (now - since) \in Nat /\ IPRate * (later - since) \in Nat
        /\ IPRate * (now - since) <= IPRate * (later - since)
        /\ Unit * granted[ip] \in Nat
    BY <1>0, <1>g, Passes, Zenon
  <2>4. Unit * granted'[ip] + ipTokens'[ip] <= IPMax + IPRate * (later - since)
    BY <1>1, <1>7, <2>1, <2>2, <2>3, LimiterAssumption
  <2>5. ~(since > later)
    BY <1>0, <1>g, Types
  <2> QED
    BY <1>3, <1>7, <2>4, <2>5, Zenon DEF PresentInv
<1>9. LevelInv(ip)'
  <2>1. /\ Unit * (TakenBefore(ip) + 1) = Unit * TakenBefore(ip) + Unit
        /\ Unit * TakenBefore(ip) \in Int
    BY <1>4, LimiterAssumption
  <2>p. Base(ip)' = fullAt'[ip] + lost'[ip]
    BY Zenon DEF Base
  <2>2. CASE Full(ip)
    <3>1. Filled(ip) = IPMax /\ TakenBefore(ip) = 0 /\ fullAt'[ip] = now /\ lost'[ip] = 0 + gap
      BY <1>0, <1>7, <2>2, FilledType, Zenon DEF TakenBefore, Full
    <3>2. Base(ip)' = later
      BY <1>g, <2>p, <3>1 DEF later
    <3>3. IPRate * (later - later) = 0 /\ Unit * TakenBefore(ip) = 0 /\ later <= later
      BY <1>g, <3>1, LimiterAssumption
    <3>4. IPRate * (lastAccess'[ip] - Base(ip)') = 0 /\ Base(ip)' <= lastAccess'[ip]
      BY <1>7, <3>2, <3>3, Zenon
    <3>5. ipTokens'[ip] = IPMax - Unit * taken'[ip] /\ Unit * taken'[ip] \in Int
      <4>1. \/ ipTokens'[ip] = IPMax - Unit /\ taken'[ip] = 1
            \/ ipTokens'[ip] = IPMax /\ taken'[ip] = 0
        BY <1>7, <3>1
      <4>2. Unit \in Nat /\ IPMax \in Nat
        BY LimiterAssumption, Zenon
      <4>3. Unit * 0 = 0 /\ Unit * 1 = Unit
        BY <4>2
      <4> QED
        BY <4>1, <4>2, <4>3
    <3> QED
      BY <3>4, <3>5, LimiterAssumption DEF LevelInv
  <2>3. CASE ~Full(ip)
    <3>0. Level(ip) < IPMax
      BY <1>0, <2>3, FilledType, LimiterAssumption DEF Full
    <3>1. /\ ip \in present
          /\ Filled(ip) = IPMax + IPRate * (now - Base(ip)) - Unit * taken[ip]
      BY <3>0, FilledLevel, Zenon
    <3>2. TakenBefore(ip) = taken[ip] /\ fullAt'[ip] = fullAt[ip] /\ lost'[ip] = lost[ip] + gap
      BY <1>7, <2>3, Zenon DEF TakenBefore
    <3>3. Base(ip)' = Base(ip) + gap /\ Base(ip) \in Nat
      BY <1>0, <1>g, <2>p, <3>2, Types DEF Base
    <3>4. Base(ip) <= lastAccess[ip] /\ lastAccess[ip] <= now /\ lastAccess[ip] \in Nat
      BY <1>0, <3>1, Types, Zenon DEF IInv, IPInv, LevelInv
    <3>5. later - Base(ip)' = now - Base(ip) /\ Base(ip)' <= later
      BY <1>g, <3>3, <3>4 DEF later
    <3>6. IPRate * (lastAccess'[ip] - Base(ip)') = IPRate * (now - Base(ip))
      BY <1>7, <3>5, Zenon
    <3>7. IPRate * (now - Base(ip)) \in Int
      BY <1>g, <3>3, LimiterAssumption
    <3>8. ipTokens'[ip] = IPMax + IPRate * (now - Base(ip)) - Unit * taken'[ip]
      BY <1>7, <2>1, <3>1, <3>2, <3>7, LimiterAssumption
    <3> QED
      BY <1>7, <3>5, <3>6, <3>8, Zenon DEF LevelInv
  <2> QED
    BY <2>2, <2>3, Zenon
<1>10. ASSUME NEW other \in IPs PROVE IPInv(other)'
  <2>1. CASE other = ip
    BY <1>7, <1>8, <1>9, <2>1, Zenon DEF IPInv
  <2>2. CASE other # ip
    <3>1. /\ ipTokens'[other] = ipTokens[other] /\ granted'[other] = granted[other]
          /\ taken'[other] = taken[other] /\ lastAccess'[other] = lastAccess[other]
          /\ fullAt'[other] = fullAt[other] /\ lost'[other] = lost[other]
          /\ other \in present' <=> other \in present
      BY <1>0, <1>2, <1>3, <2>2, Zenon DEF TypeOK
    <3>2. AbsentInv(other) => AbsentInv(other)'
      <4>1. /\ IPRate * (now - since) \in Nat /\ IPRate * (later - since) \in Nat
            /\ IPRate * (now - since) <= IPRate * (later - since)
            /\ Unit * granted[other] \in Nat
        BY <1>0, <1>g, Passes, Zenon
      <4>2. Unit * granted[other] <= IPRate * (now - since)
              => Unit * granted[other] <= IPRate * (later - since)
        BY <4>1
      <4> QED
        BY <1>3, <3>1, <4>2, Zenon DEF AbsentInv
    <3> QED
      BY <1>3, <3>1, <3>2, Zenon DEF IInv, IPInv, PresentInv, LevelInv, Base
  <2> QED
    BY <2>1, <2>2, Zenon
<1> QED
  BY <1>5, <1>6, <1>10, Zenon DEF IInv

\* An evicted address is covered by the refill of its idle time.
LEMMA CleanupStep ==
  ASSUME IInv, cleanup
  PROVE  IInv'
<1>0. TypeOK
  BY Zenon DEF IInv
<1>1. TypeOK' /\ GlobalInv'
  BY <1>0, Zenon DEF IInv, cleanup, TypeOK, GlobalInv, bucket, window, busy
<1>2. ASSUME NEW ip \in IPs PROVE IPInv(ip)'
  <2>1. CASE ip \in Idle
    <3>1. ip \in present /\ now - lastAccess[ip] > IdleLimit
      BY <2>1, Zenon DEF Idle
    <3>2. IPMax <= IPRate * (now - lastAccess[ip])
      <4>1. IPRate * IdleLimit <= IPRate * (now - lastAccess[ip])
        BY <1>0, <3>1, Types, LimiterAssumption
      <4> QED
        BY <1>0, <4>1, Types, LimiterAssumption
    <3>3. Unit * granted[ip] <= IPRate * (now - since)
      <4>1. CASE since > lastAccess[ip]
        <5>1. granted[ip] = 0
          BY <3>1, <4>1, Zenon DEF IInv, IPInv, PresentInv
        <5>2. Unit * granted[ip] = 0
          BY <5>1, LimiterAssumption
        <5>3. IPRate * (now - since) \in Nat
          BY <1>0, Types, RefillGrows, LimiterAssumption
        <5> QED
          BY <5>2, <5>3
      <4>2. CASE since <= lastAccess[ip]
        <5>1. Unit * granted[ip] + ipTokens[ip] <= IPMax + IPRate * (lastAccess[ip] - since)
          BY <3>1, <4>2, Zenon DEF IInv, IPInv, PresentInv
        <5>2. IPRate * (lastAccess[ip] - since) + IPRate * (now - lastAccess[ip])
                = IPRate * (now - since)
          BY <1>0, Types, RefillAdds, LimiterAssumption
        <5>3. /\ IPRate * (lastAccess[ip] - since) \in Int
              /\ IPRate * (now - lastAccess[ip]) \in Int
              /\ Unit * granted[ip] \in Int /\ ipTokens[ip] \in Nat
          BY <1>0, Types, LimiterAssumption
        <5> QED
          BY <3>2, <5>1, <5>2, <5>3, LimiterAssumption
      <4> QED
        BY <1>0, <4>1, <4>2, Types
    <3> QED
      BY <2>1, <3>3, Zenon DEF cleanup, IPInv, AbsentInv, window
  <2>2. CASE ip \notin Idle
    BY <2>2, Zenon DEF IInv, cleanup, IPInv, PresentInv, AbsentInv, LevelInv, Base, window, busy
  <2> QED
    BY <2>1, <2>2, Zenon
<1> QED
  BY <1>1, <1>2, Zenon DEF IInv

LEMMA TickStep ==
  ASSUME IInv, Tick
  PROVE  IInv'
<1>0. TypeOK
  BY Zenon DEF IInv
<1>1. now \in Nat /\ now' = now + 1 /\ now' \in 0..MaxTime /\ since \in Nat /\ since <= now
  BY <1>0, LimiterAssumption DEF TypeOK, Tick
<1>2. TypeOK'
  BY <1>0, <1>1 DEF TypeOK, Tick, bucket, ipBucket, window, busy
<1>3. GlobalInv'
  BY Zenon DEF IInv, Tick, GlobalInv, bucket, window
<1>4. ASSUME NEW ip \in IPs PROVE IPInv(ip)'
  <2>1. IPRate * (now - since) <= IPRate * (now' - since)
    BY <1>1, LimiterAssumption
  <2>2. AbsentInv(ip) => AbsentInv(ip)'
    <3>1. Unit * granted[ip] \in Int /\ IPRate * (now - since) \in Int /\ IPRate * (now' - since) \in Int
      BY <1>0, <1>1, Types, LimiterAssumption
    <3>2. since' = since /\ granted' = granted
      BY Zenon DEF Tick, window
    <3> QED
      BY <2>1, <3>1, <3>2 DEF AbsentInv
  <2> QED
    BY <2>2, Zenon DEF IInv, Tick, IPInv, PresentInv, LevelInv, Base, ipBucket, window, busy
<1> QED
  BY <1>2, <1>3, <1>4, Zenon DEF IInv

\* Wherever the window opens, nothing was granted in it yet.
LEMMA OpenWindowStep ==
  ASSUME IInv, OpenWindow
  PROVE  IInv'
<1>0. TypeOK
  BY Zenon DEF IInv
<1>1. /\ now' = now /\ tokens' = tokens /\ lastRefill' = lastRefill
      /\ present' = present /\ ipTokens' = ipTokens /\ lastAccess' = lastAccess
      /\ fullAt' = fullAt /\ taken' = taken /\ lost' = lost
      /\ since' = now /\ spent' = 0 /\ granted' = [ip \in IPs |-> 0]
  BY Zenon DEF OpenWindow, bucket, ipBucket, busy
<1>2. TypeOK'
  BY <1>0, <1>1, LimiterAssumption DEF TypeOK
<1>3. GlobalInv'
  <2>1. now \in Nat /\ lastRefill \in Nat /\ lastRefill <= now /\ tokens \in Nat /\ tokens <= MaxTokens
    BY <1>0, LimiterAssumption, MaxTypes DEF TypeOK
  <2>2. now <= lastRefill => RefillRate * (lastRefill - now) = 0
    BY <2>1, MaxTypes
  <2> QED
    BY <1>1, <2>1, <2>2, MaxTypes DEF GlobalInv
<1>4. ASSUME NEW ip \in IPs PROVE IPInv(ip)'
  <2>1. granted'[ip] = 0 /\ Unit * granted'[ip] = 0
    BY <1>1, LimiterAssumption
  <2>2. now <= lastAccess[ip] => IPRate * (lastAccess[ip] - now) = 0
    BY <1>0, Types, LimiterAssumption
  <2>3. IPRate * (now - now) = 0
    BY <1>0, Types, LimiterAssumption
  <2>4. ipTokens[ip] \in Nat /\ ipTokens[ip] <= IPMax
    BY <1>0, Types, Zenon
  <2>5. PresentInv(ip)' /\ AbsentInv(ip)'
    BY <1>1, <2>1, <2>2, <2>3, <2>4, LimiterAssumption DEF PresentInv, AbsentInv
  <2>6. LevelInv(ip) => LevelInv(ip)'
    BY <1>1, Zenon DEF LevelInv, Base
  <2> QED
    BY <1>1, <2>5, <2>6, Zenon DEF IInv, IPInv
<1> QED
  BY <1>2, <1>3, <1>4, Zenon DEF IInv

LEMMA StepIInv == IInv /\ [Next]_vars => IInv'
<1> SUFFICES ASSUME IInv, [Next]_vars PROVE IInv'
  BY Zenon
<1>1. CASE UNCHANGED vars
  BY <1>1, Zenon DEF vars, bucket, ipBucket, window, busy, IInv, TypeOK, GlobalInv, IPInv,
              PresentInv, AbsentInv, LevelInv, Base
<1> QED
  BY <1>1, AllowNStep, AllowIPStep, CleanupStep, TickStep, OpenWindowStep, Zenon DEF Next

-----------------------------------------------------------------------------
\* The buckets of ratelimit.go satisfy the inductive invariant throughout.
THEOREM Inductive == Spec => []IInv
  BY InitIInv, StepIInv, PTL DEF Spec

\* Levels stay between empty and full, for every set of addresses.
THEOREM TypeCorrect == Spec => []TypeOK
<1>1. IInv => TypeOK
  BY Zenon DEF IInv
<1> QED
  BY Inductive, <1>1, PTL

\* Allow and AllowN keep to the global rate over any window.
THEOREM GlobalWindowHolds == Spec => []GlobalWindow
<1>1. IInv => GlobalWindow
  <2> SUFFICES ASSUME IInv PROVE GlobalWindow
    BY Zenon
  <2>0. /\ now \in Nat /\ lastRefill \in Nat /\ since \in Nat /\ spent \in Nat /\ tokens \in Nat
        /\ lastRefill <= now /\ since <= now
    BY LimiterAssumption, MaxTypes DEF IInv, TypeOK
  <2>1. RefillRate * (now - since) \in Nat /\ RefillRate * (now - lastRefill) \in Nat
    BY <2>0, RefillGrows, MaxTypes
  <2>2. RefillRate * (lastRefill - since) + RefillRate * (now - lastRefill) = RefillRate * (now - since)
    BY <2>0, RefillAdds, MaxTypes
  <2>3. RefillRate * (lastRefill - since) \in Int
    BY <2>0, MaxTypes
  <2> QED
    BY <2>0, <2>1, <2>2, <2>3, MaxTypes DEF IInv, GlobalInv, GlobalWindow
<1> QED
  BY Inductive, <1>1, PTL

\* AllowIP keeps every address to its rate over any window, although cleanup
\* evicts idle addresses and they come back with a full bucket.
THEOREM IPWindowHolds == Spec => []IPWindow
<1>1. IInv => IPWindow
  <2> SUFFICES ASSUME IInv, NEW ip \in IPs
               PROVE  Unit * granted[ip] <= IPMax + IPRate * (now - since)
    BY Zenon DEF IPWindow
  <2>0. TypeOK
    BY Zenon DEF IInv
  <2>1. Unit * granted[ip] + Filled(ip) <= IPMax + IPRate * (now - since)
    BY FilledCovered, Zenon
  <2>2. Filled(ip) \in Nat /\ Unit * granted[ip] \in Int /\ IPRate * (now - since) \in Int
    BY <2>0, FilledType, Types, LimiterAssumption
  <2> QED
    BY <2>1, <2>2, LimiterAssumption
<1> QED
  BY Inductive, <1>1, PTL

\* AllowIP refuses only an address that has used up its allowance, less the
\* refill of the time between the two readings of the clock in its own calls.
THEOREM RefusalJustifiedHolds == Spec => RefusalJustified
<1> DEFINE Justified == \A ip \in IPs, gap \in Gaps :
             RefuseIP(ip, gap) =>
               Unit * (taken[ip] + 1) > IPMax + IPRate * (now - fullAt[ip] - lost[ip])
<1>1. IInv => Justified
  <2> SUFFICES ASSUME IInv, NEW ip \in IPs, NEW gap \in Gaps, RefuseIP(ip, gap)
               PROVE  Unit * (taken[ip] + 1) > IPMax + IPRate * (now - fullAt[ip] - lost[ip])
    BY Zenon
  <2>0. TypeOK /\ Filled(ip) < Unit
    BY Zenon DEF IInv, RefuseIP
  <2>1. Level(ip) < IPMax
    BY <2>0, FilledType, LimiterAssumption
  <2>2. Filled(ip) = IPMax + IPRate * (now - Base(ip)) - Unit * taken[ip]
    BY <2>1, FilledLevel, Zenon
  <2>3. Unit * (taken[ip] + 1) = Unit * taken[ip] + Unit
    BY <2>0, Types, LimiterAssumption
  <2>4. IPRate * (now - Base(ip)) \in Int /\ Unit * taken[ip] \in Int /\ Filled(ip) \in Int
    BY <2>0, Types, FilledType, LimiterAssumption
  <2>5. now - fullAt[ip] - lost[ip] = now - Base(ip)
    BY <2>0, Types DEF Base
  <2>6. Unit * (taken[ip] + 1) > IPMax + IPRate * (now - Base(ip))
    BY <2>0, <2>2, <2>3, <2>4, LimiterAssumption
  <2> QED
    BY <2>5, <2>6, Zenon
<1>2. Justified => [Justified]_vars
  BY Zenon
<1> QED
  BY Inductive, <1>1, <1>2, PTL DEF RefusalJustified

-----------------------------------------------------------------------------
(* SessionManager: no session is lost while it is in use *)

\* Who is found expired has lapsed, and GetSession deletes only what it found
\* expired, however much later the deletion comes.
LapseInv ==
  /\ \A id \in created : Expired(id) => id \in lapsed
  /\ \A g \in Getters : stage[g] = "delete" => key[g] \in lapsed

\* GetSession holds only sessions that were created.
FoundInv ==
  \A g \in Getters : stage[g] # "idle" => key[g] \in created

SessionInv == SessionTypeOK /\ FoundInv /\ LapseInv /\ Kept

LEMMA SessionInvInit == SessionInit => SessionInv
  BY SessionAssumption
     DEF SessionInit, SessionInv, SessionTypeOK, FoundInv, LapseInv, Kept, Expired

\* Every step preserves the invariant; SessionTick is where sessions lapse.
LEMMA SessionInvNext == SessionInv /\ [SessionNext]_sessionVars => SessionInv'
<1> SUFFICES ASSUME SessionInv, [SessionNext]_sessionVars PROVE SessionInv'
  BY Zenon
<1> USE SessionAssumption DEF SessionInv
<1>1. ASSUME NEW id \in IDs, CreateSession(id) PROVE SessionInv'
  BY <1>1 DEF CreateSession, getting, SessionTypeOK, FoundInv, LapseInv, Kept, Expired
<1>2. ASSUME NEW id \in IDs, UpdateActivity(id) PROVE SessionInv'
  BY <1>2 DEF UpdateActivity, getting, history, SessionTypeOK, FoundInv, LapseInv, Kept, Expired
<1>3. ASSUME NEW id \in IDs, AuthenticateSession(id) PROVE SessionInv'
  BY <1>3 DEF AuthenticateSession, getting, history, SessionTypeOK, FoundInv, LapseInv, Kept, Expired
<1>4. ASSUME NEW id \in IDs, DeleteSession(id) PROVE SessionInv'
  BY <1>4, Zenon DEF DeleteSession, getting, SessionTypeOK, FoundInv, LapseInv, Kept, Expired
<1>5. ASSUME NEW g \in Getters, NEW id \in IDs, Lookup(g, id) PROVE SessionInv'
  BY <1>5, Zenon DEF Lookup, table, history, SessionTypeOK, FoundInv, LapseInv, Kept, Expired
<1>6. ASSUME NEW g \in Getters, Judge(g) PROVE SessionInv'
  BY <1>6, Zenon DEF Judge, table, history, SessionTypeOK, FoundInv, LapseInv, Kept, Expired
<1>7. ASSUME NEW g \in Getters, DeleteExpired(g) PROVE SessionInv'
  BY <1>7, Zenon DEF DeleteExpired, history, SessionTypeOK, FoundInv, LapseInv, Kept, Expired
<1>8. CASE cleanupExpired
  BY <1>8, Zenon DEF cleanupExpired, getting, history, SessionTypeOK, FoundInv, LapseInv, Kept, Expired
<1>9. CASE SessionTick
  BY <1>9 DEF SessionTick, getting, SessionTypeOK, FoundInv, LapseInv, Kept, Expired
<1>10. CASE UNCHANGED sessionVars
  BY <1>10, Zenon DEF sessionVars, table, getting, history, SessionTypeOK, FoundInv, LapseInv, Kept, Expired
<1> QED
  BY <1>1, <1>2, <1>3, <1>4, <1>5, <1>6, <1>7, <1>8, <1>9, <1>10, Zenon DEF SessionNext

\* The table holds only sessions that CreateSession made.
THEOREM SessionTyped == SessionSpec => []SessionTypeOK
<1>1. SessionInv => SessionTypeOK
  BY Zenon DEF SessionInv
<1> QED
  BY SessionInvInit, SessionInvNext, <1>1, PTL DEF SessionSpec

\* A session that stays active and that nobody deletes is never lost to
\* GetSession or to the cleanup goroutine of SessionManager.
THEOREM KeptHolds == SessionSpec => []Kept
<1>1. SessionInv => Kept
  BY Zenon DEF SessionInv
<1> QED
  BY SessionInvInit, SessionInvNext, <1>1, PTL DEF SessionSpec

-----------------------------------------------------------------------------
(* ConfigManager: onChange hears of every configuration that Get returns,  *)
(* and the files never set one without a frame size                        *)

\* The goroutine that holds the mutex is the one that is about to run the
\* callback: only it finds a configuration that was not announced.
Exclusive ==
  /\ pc \in [Updaters -> {"off", "idle", "load", "update", "callback"}]
  /\ \A p \in Updaters : pc[p] = "callback" <=> mu = p

ConfigInv == Exclusive /\ Announced

LEMMA ConfigInvInit == ConfigInit => ConfigInv
<1> SUFFICES ASSUME ConfigInit PROVE ConfigInv
  BY Zenon
<1>1. ~onChange
  BY Zenon DEF ConfigInit
<1>2. Exclusive
  BY ConfigAssumption, Zenon DEF ConfigInit, Exclusive, Updaters
<1> QED
  BY <1>1, <1>2, Zenon DEF ConfigInv, Announced

\* Every step preserves the invariant.
LEMMA ConfigInvNext == ConfigInv /\ [ConfigNext]_configVars => ConfigInv'
<1> SUFFICES ASSUME ConfigInv, [ConfigNext]_configVars PROVE ConfigInv'
  BY Zenon
<1>0. free \notin Updaters /\ watcher \in Updaters /\ Callers \subseteq Updaters
  BY ConfigAssumption, Zenon DEF Updaters
<1> USE DEF ConfigInv, Exclusive, Announced
<1>1. CASE Write
  BY <1>1, Zenon DEF Write, manager
<1>2. CASE Watch
  BY <1>0, <1>2, Zenon DEF Watch, manager
<1>3. CASE OnChange
  BY <1>3, Zenon DEF OnChange
<1>4. CASE Stat \/ Load \/ LoadFails
  BY <1>0, <1>4 DEF Stat, Load, LoadFails, manager
<1>5. ASSUME NEW c \in Callers, CallUpdate(c) PROVE ConfigInv'
  BY <1>0, <1>5, Zenon DEF CallUpdate, manager
<1>6. ASSUME NEW p \in Updaters, Install(p) PROVE ConfigInv'
  BY <1>0, <1>6, Zenon DEF Install
<1>7. ASSUME NEW p \in Updaters, Notify(p) PROVE ConfigInv'
  BY <1>0, <1>7, Zenon DEF Notify
<1>8. CASE UNCHANGED configVars
  BY <1>8, Zenon DEF configVars, manager
<1> QED
  BY <1>0, <1>1, <1>2, <1>3, <1>4, <1>5, <1>6, <1>7, <1>8, Zenon DEF ConfigNext, WatcherStep

\* Update holds the mutex from the change of the configuration to the end of
\* the callback, so Get never returns what the callback has not heard of.
THEOREM AnnouncedHolds == ConfigSpec => []Announced
<1>1. ConfigInv => Announced
  BY Zenon DEF ConfigInv
<1> QED
  BY ConfigInvInit, ConfigInvNext, <1>1, PTL DEF ConfigSpec

\* Configurations that have a frame size, or that were given without one.
Configs ==
  [TCPAddr : {8444} \cup Callers \cup Ports, MaxStreams : Nat, MaxFrameSize : Int]

Sized == {c \in Configs : c.MaxFrameSize = 0 => c \in Original \cup FromCallers}

Files == [edits : 0..MaxWrites, mod : 1..MaxWrites + 1, kept : BOOLEAN,
          is : {"good", "broken", "missing"}, yaml : Yaml]

\* Every goroutine is about to install one of those, or none.
ConfigTypes ==
  /\ file \in Files /\ file.mod <= file.edits + 1
  /\ config \in Sized /\ newCfg \in [Updaters -> Sized \cup {nil}]
  /\ version \in Nat \ {0} /\ onChange \in BOOLEAN /\ lastMod \in Nat
  /\ mu \in Updaters \cup {free}
  /\ pc \in [Updaters -> {"off", "idle", "load", "update", "callback"}]

LEMMA SizedConfigs ==
  /\ Original \subseteq Sized
  /\ \A c \in Callers, size \in Sizes : Given(c, size) \in Sized
  /\ \A y \in Yaml : Loaded(y) \in Sized
<1>1. Original \subseteq Sized
  <2>1. Original \subseteq Configs
    BY DEF Default, Original, Configs
  <2> QED
    BY <2>1, Zenon DEF Sized
<1>2. ASSUME NEW c \in Callers, NEW size \in Sizes PROVE Given(c, size) \in Sized
  <2>1. Given(c, size) \in Configs
    BY ConfigAssumption DEF Given, Configs
  <2>2. Given(c, size) \in FromCallers
    BY DEF FromCallers
  <2> QED
    BY <2>1, <2>2, Zenon DEF Sized
<1>3. ASSUME NEW y \in Yaml PROVE Loaded(y) \in Sized
  <2>1. y.port \in Ports /\ y.size \in Int
    BY ConfigAssumption, Zenon DEF Yaml
  <2>2. (IF y.size = 0 THEN 65536 ELSE y.size) \in Int \ {0}
    BY <2>1
  <2>3. Loaded(y) \in Configs /\ Loaded(y).MaxFrameSize # 0
    BY <2>1, <2>2 DEF Loaded, Configs
  <2> QED
    BY <2>3, Zenon DEF Sized
<1> QED
  BY <1>1, <1>2, <1>3, Zenon

LEMMA ConfigTypesInit == ConfigInit => ConfigTypes
<1> SUFFICES ASSUME ConfigInit PROVE ConfigTypes
  BY Zenon
<1>1. file \in Files /\ file.mod <= file.edits + 1
  <2>1. file \in [edits : {0}, mod : {1}, kept : {FALSE}, is : {"good"}, yaml : Yaml]
    BY Zenon DEF ConfigInit
  <2>2. file \in Files
    <3>1. 0 \in 0..MaxWrites /\ 1 \in 1..MaxWrites + 1
      BY ConfigAssumption
    <3> QED
      BY <2>1, <3>1, Zenon DEF Files
  <2>3. file.mod = 1 /\ file.edits = 0
    BY <2>1
  <2> QED
    BY <2>2, <2>3
<1>2. config \in Sized /\ newCfg \in [Updaters -> Sized \cup {nil}]
  BY SizedConfigs, Zenon DEF ConfigInit
<1>3. pc \in [Updaters -> {"off", "idle", "load", "update", "callback"}]
  BY Zenon DEF ConfigInit
<1>4. version \in Nat \ {0} /\ lastMod \in Nat
  BY DEF ConfigInit
<1>5. onChange \in BOOLEAN /\ mu \in Updaters \cup {free}
  BY Zenon DEF ConfigInit
<1> QED
  BY <1>1, <1>2, <1>3, <1>4, <1>5, Zenon DEF ConfigTypes

LEMMA ConfigTypesNext == ConfigTypes /\ [ConfigNext]_configVars => ConfigTypes'
<1> SUFFICES ASSUME ConfigTypes, [ConfigNext]_configVars PROVE ConfigTypes'
  BY Zenon
<1>0. watcher \in Updaters /\ Callers \subseteq Updaters
  BY Zenon DEF Updaters
<1> USE DEF ConfigTypes
<1>1. CASE Write
  <2>1. file' \in Files /\ file'.mod <= file'.edits + 1
    BY <1>1, ConfigAssumption DEF Write, Files
  <2> QED
    BY <1>1, <2>1, Zenon DEF Write, manager
<1>2. CASE Watch \/ OnChange
  BY <1>0, <1>2, Zenon DEF Watch, OnChange, manager
<1>3. CASE Stat \/ LoadFails
  <2>1. file.mod \in Nat
    BY DEF Files
  <2> QED
    BY <1>0, <1>3, <2>1, Zenon DEF Stat, LoadFails, manager
<1>4. CASE Load
  <2>1. Loaded(file.yaml) \in Sized
    BY SizedConfigs, Zenon DEF Files
  <2> QED
    BY <1>0, <1>4, <2>1, Zenon DEF Load, manager
<1>5. ASSUME NEW c \in Callers, CallUpdate(c) PROVE ConfigTypes'
  <2>1. PICK g \in Sized \cup {nil} : newCfg' = [newCfg EXCEPT ![c] = g]
    BY <1>5, SizedConfigs, Zenon DEF CallUpdate
  <2> QED
    BY <1>0, <1>5, <2>1, Zenon DEF CallUpdate, manager
<1>6. ASSUME NEW p \in Updaters, Install(p) PROVE ConfigTypes'
  BY <1>6 DEF Install
<1>7. ASSUME NEW p \in Updaters, Notify(p) PROVE ConfigTypes'
  BY <1>7, Zenon DEF Notify
<1>8. CASE UNCHANGED configVars
  BY <1>8, Zenon DEF configVars, manager
<1> QED
  BY <1>0, <1>1, <1>2, <1>3, <1>4, <1>5, <1>6, <1>7, <1>8, Zenon DEF ConfigNext, WatcherStep

\* Hot reload never puts a configuration without a frame size in force: one
\* that has none is one the manager or Update was given.
THEOREM ConfigTyped == ConfigSpec => []ConfigTypeOK
<1>1. ConfigTypes => ConfigTypeOK
  <2> SUFFICES ASSUME ConfigTypes PROVE ConfigTypeOK
    BY Zenon
  <2>1. config \in Configs /\ (config.MaxFrameSize = 0 => config \in Original \cup FromCallers)
    BY Zenon DEF ConfigTypes, Sized
  <2>2. config.TCPAddr \in {8444} \cup Callers \cup Ports /\ config.MaxStreams \in Nat
    BY <2>1 DEF Configs
  <2>3. file \in [edits : 0..MaxWrites, mod : 1..MaxWrites + 1, kept : BOOLEAN,
                  is : {"good", "broken", "missing"}, yaml : Yaml]
    BY DEF ConfigTypes, Files
  <2>4. /\ file.mod <= file.edits + 1 /\ version \in Nat \ {0} /\ lastMod \in Nat
        /\ onChange \in BOOLEAN /\ mu \in Updaters \cup {free}
        /\ pc \in [Updaters -> {"off", "idle", "load", "update", "callback"}]
    BY Zenon DEF ConfigTypes
  <2> QED
    BY <2>1, <2>2, <2>3, <2>4 DEF ConfigTypeOK
<1> QED
  BY ConfigTypesInit, ConfigTypesNext, <1>1, PTL DEF ConfigSpec

-----------------------------------------------------------------------------
(* LoadBalancer: who is out of the rotation stays out, and the others take *)
(* their turns                                                             *)

\* Exactly the requests in progress have a backend.
BalancerInv ==
  /\ healthy \subseteq Backends
  /\ step \in [Reqs -> {"idle", "sent", "healing", "judging", "marking"}]
  /\ target \in [Reqs -> Backends \cup {NoBackend}]
  /\ \A r \in Reqs : step[r] = "idle" <=> target[r] = NoBackend

LEMMA BalancerInitInv == BalancerInit => BalancerInv
  BY Zenon DEF BalancerInit, BalancerInv

StaysLost(b) == Lost(b) => Lost(b)' \/ b \in Registered' \ Registered

LEMMA BalancerStep ==
  ASSUME BalancerInv, [BalancerNext]_balancer
  PROVE  BalancerInv' /\ \A b \in Backends : StaysLost(b)
<1> USE NoBackendAssumption DEF BalancerInv, StaysLost, Lost
<1>1. ASSUME NEW a \in Backends, Register(a)
      PROVE  BalancerInv' /\ \A b \in Backends : StaysLost(b)
  <2>1. backends' = Append(backends, a) /\ a \notin Registered
    BY <1>1, Zenon DEF Register
  <2>2. a \in Registered'
    BY <2>1 DEF Registered
  <2> QED
    BY <1>1, <2>1, <2>2, Zenon DEF Register
<1>2. ASSUME NEW a \in Backends, Unregister(a)
      PROVE  BalancerInv' /\ \A b \in Backends : StaysLost(b)
  BY <1>2, Zenon DEF Unregister
<1>3. ASSUME NEW r \in Reqs, Select(r)
      PROVE  BalancerInv' /\ \A b \in Backends : StaysLost(b)
  BY <1>3, Zenon DEF Select
<1>4. ASSUME NEW r \in Reqs,
             RecordSuccess(r) \/ Heal(r) \/ RecordFailure(r) \/ Judged(r) \/ Mark(r)
      PROVE  BalancerInv' /\ \A b \in Backends : StaysLost(b)
  BY <1>4 DEF Proceeds, RecordSuccess, Heal, RecordFailure, Judged, Mark
<1>5. CASE UNCHANGED balancer
  BY <1>5, Zenon DEF balancer
<1> QED
  BY <1>1, <1>2, <1>3, <1>4, <1>5, Zenon DEF BalancerNext

\* A backend that RecordFailure marked unhealthy, and that no request in progress
\* was given, is never selected and never marked healthy again unless it is
\* unregistered and registered anew.
THEOREM LostStaysHolds == BalancerSpec => LostStays
<1>1. BalancerInv /\ [BalancerNext]_balancer => BalancerInv'
  BY BalancerStep, Zenon
<1>2. BalancerInv /\ [BalancerNext]_balancer
        => [\A b \in Backends : Lost(b) => Lost(b)' \/ b \in Registered' \ Registered]_balancer
  BY BalancerStep, Zenon DEF StaysLost
<1> QED
  BY BalancerInitInv, <1>1, <1>2, PTL DEF BalancerSpec, LostStays

LEMMA Product == ASSUME NEW n \in Nat \ {0}, NEW d \in Int
                 PROVE  (d <= -1 => n * d <= -n) /\ (d >= 2 => n * d >= 2 * n)
  OBVIOUS

\* The index modulo the number of backends goes round.
LEMMA Round ==
  ASSUME NEW n \in Nat \ {0}, NEW r \in Nat
  PROVE  /\ r % n \in 0..n - 1 /\ (r + 1) % n \in 0..n - 1 /\ 0 % n = 0
         /\ (r + 1) % n = IF r % n = n - 1 THEN 0 ELSE (r % n) + 1
<1>1. r % n \in 0..n - 1 /\ (r + 1) % n \in 0..n - 1 /\ 0 % n = 0
  OBVIOUS
<1> DEFINE k == r \div n
           l == (r + 1) \div n
<1>2. k \in Int /\ l \in Int
  OBVIOUS
<1>3. r = n * k + (r % n) /\ r + 1 = n * l + ((r + 1) % n)
  OBVIOUS
<1> HIDE DEF k, l
<1>4. n * (l - k) = 1 + (r % n) - ((r + 1) % n)
  <2>1. n * (l - k) = n * l - n * k /\ n * l \in Int /\ n * k \in Int
    BY <1>2
  <2> QED
    BY <1>1, <1>3, <2>1
<1>5. PICK d \in Int : d = l - k
  BY <1>2
<1>6. d = 0 \/ d = 1
  BY <1>1, <1>4, <1>5, Product
<1> QED
  BY <1>1, <1>4, <1>5, <1>6

\* The positions from u round to the one before v.
InRun(j, u, v) == IF u <= v THEN u <= j /\ j < v ELSE u <= j \/ j < v

\* The turns each position had: those of base, and one more in the run of
\* turns that began at u, which ends before the next turn.
Even(base, u) ==
  /\ \A i, j \in 1..Len(backends) : base[i] - base[j] <= wraps
  /\ \A i \in 1..Len(backends) :
       tried[backends[i]] = IF InRun(i - 1, u, rrIndex % Len(backends)) THEN base[i] + 1 ELSE base[i]

RoundTypes ==
  /\ backends \in Seq(Backends) /\ rrIndex \in 0..IndexRange - 1 /\ wraps \in Nat /\ tried \in [Backends -> Nat]
  /\ \A i, j \in 1..Len(backends) : backends[i] = backends[j] => i = j

RoundInv ==
  /\ RoundTypes
  /\ backends # <<>> =>
       \E base \in [1..Len(backends) -> Nat], u \in 0..Len(backends) - 1 : Even(base, u)

\* After a change of rr.backends the count begins anew.
LEMMA EvenAnew ==
  ASSUME backends' \in Seq(Backends), rrIndex' \in 0..IndexRange - 1, wraps' = 0, tried' = Untried,
         \A i, j \in 1..Len(backends') : backends'[i] = backends'[j] => i = j
  PROVE  RoundInv'
<1>1. tried' \in [Backends -> Nat] /\ wraps' \in Nat
  BY Zenon DEF Untried
<1>2. ASSUME backends' # <<>>
      PROVE  \E base \in [1..Len(backends') -> Nat], u \in 0..Len(backends') - 1 : Even(base, u)'
  <2>1. Len(backends') \in Nat \ {0}
    BY <1>2
  <2>2. PICK u \in 0..Len(backends') - 1 : u = rrIndex' % Len(backends')
    <3>1. PICK r \in Nat : r = rrIndex'
      OBVIOUS
    <3> QED
      BY <2>1, <3>1, Round, Zenon
  <2>3. PICK zero \in [1..Len(backends') -> Nat] : zero = [i \in 1..Len(backends') |-> 0]
    BY Zenon
  <2>4. \A i \in 1..Len(backends') : ~InRun(i - 1, u, u)
    BY DEF InRun
  <2>5. Even(zero, u)'
    <3>1. \A i \in 1..Len(backends') : backends'[i] \in Backends
      OBVIOUS
    <3>2. \A i \in 1..Len(backends') : zero[i] = 0 /\ tried'[backends'[i]] = 0
      BY <2>3, <3>1, Zenon DEF Untried
    <3>3. wraps' \in Nat /\ 0 - 0 <= wraps'
      BY <1>1
    <3> QED
      BY <2>2, <2>4, <3>2, <3>3, Zenon DEF Even
  <2> QED
    BY <2>5, Zenon
<1> QED
  BY <1>1, <1>2, Zenon DEF RoundInv, RoundTypes

LEMMA RoundRegister == ASSUME RoundInv, NEW b \in Backends, Register(b) PROVE RoundInv'
<1>1. /\ backends' = Append(backends, b) /\ b \notin Registered
      /\ rrIndex' = rrIndex /\ tried' = Untried /\ wraps' = 0
  BY Zenon DEF Register
<1>2. RoundTypes
  BY Zenon DEF RoundInv
<1>3. \A i, j \in 1..Len(backends') : backends'[i] = backends'[j] => i = j
  <2>1. \A i \in 1..Len(backends) : backends[i] # b
    BY <1>1, <1>2 DEF Registered, RoundTypes
  <2> QED
    BY <1>1, <1>2, <2>1 DEF RoundTypes
<1>4. backends' \in Seq(Backends) /\ rrIndex' \in 0..IndexRange - 1
  BY <1>1, <1>2 DEF RoundTypes
<1> QED
  BY <1>1, <1>3, <1>4, EvenAnew, Zenon

LEMMA Concatenated ==
  ASSUME NEW T, NEW p \in Seq(T), NEW q \in Seq(T)
  PROVE  /\ p \o q \in Seq(T) /\ Len(p \o q) = Len(p) + Len(q)
         /\ Len(p) \in Nat /\ Len(q) \in Nat
         /\ \A i \in 1..Len(p) + Len(q) :
              /\ i <= Len(p) => (p \o q)[i] = p[i]
              /\ ~(i <= Len(p)) => (p \o q)[i] = q[i - Len(p)]
  OBVIOUS

LEMMA Near ==
  ASSUME NEW a \in Nat, NEW b \in Nat, NEW w \in Nat, a - b <= w,
         NEW x \in {a, a + 1}, NEW y \in {b, b + 1}
  PROVE  x - y <= w + 1
  OBVIOUS

\* Unregister closes the gap.
LEMMA Removed ==
  ASSUME NEW T, NEW s \in Seq(T), NEW k \in 1..Len(s)
  PROVE  LET t == SubSeq(s, 1, k - 1) \o SubSeq(s, k + 1, Len(s))
         IN  /\ t \in Seq(T) /\ Len(t) = Len(s) - 1
             /\ \A i \in 1..Len(s) - 1 : t[i] = s[IF i < k THEN i ELSE i + 1]
<1>1. /\ SubSeq(s, 1, k - 1) \in Seq(T) /\ Len(SubSeq(s, 1, k - 1)) = k - 1
      /\ \A i \in 1..k - 1 : SubSeq(s, 1, k - 1)[i] = s[i]
  OBVIOUS
<1>2. /\ SubSeq(s, k + 1, Len(s)) \in Seq(T)
      /\ Len(SubSeq(s, k + 1, Len(s))) = IF k + 1 <= Len(s) THEN Len(s) - (k + 1) + 1 ELSE 0
      /\ \A i \in 1..Len(s) - (k + 1) + 1 : SubSeq(s, k + 1, Len(s))[i] = s[k + 1 + i - 1]
  OBVIOUS
<1>3. PICK p \in Seq(T), q \in Seq(T) :
        p = SubSeq(s, 1, k - 1) /\ q = SubSeq(s, k + 1, Len(s))
  BY <1>1, <1>2, Zenon
<1>4. Len(p) = k - 1 /\ \A i \in 1..k - 1 : p[i] = s[i]
  BY <1>1, <1>3, Zenon
<1>5. Len(q) = Len(s) - k /\ \A i \in 1..Len(s) - k : q[i] = s[k + i]
  <2>1. /\ Len(q) = IF k + 1 <= Len(s) THEN Len(s) - (k + 1) + 1 ELSE 0
        /\ \A i \in 1..Len(s) - (k + 1) + 1 : q[i] = s[k + 1 + i - 1]
    BY <1>2, <1>3, Zenon
  <2> QED
    BY <2>1
<1>6. Len(s) \in Nat /\ Len(p \o q) = Len(s) - 1 /\ p \o q \in Seq(T)
  BY <1>4, <1>5, Concatenated
<1>7. ASSUME NEW i \in 1..Len(s) - 1 PROVE (p \o q)[i] = s[IF i < k THEN i ELSE i + 1]
  <2>1. i <= k - 1 => (p \o q)[i] = p[i]
    BY <1>4, <1>5, <1>6, Concatenated
  <2>2. ~(i <= k - 1) => (p \o q)[i] = q[i - (k - 1)]
    BY <1>4, <1>5, <1>6, Concatenated
  <2>3. CASE i < k
    BY <1>4, <2>1, <2>3
  <2>4. CASE ~(i < k)
    <3>1. q[i - (k - 1)] = s[k + (i - (k - 1))]
      BY <1>5, <1>6, <2>4
    <3>2. k + (i - (k - 1)) = i + 1 /\ ~(i <= k - 1)
      BY <2>4
    <3> QED
      BY <2>2, <2>4, <3>1, <3>2, Zenon
  <2> QED
    BY <2>3, <2>4, Zenon
<1> QED
  BY <1>3, <1>6, <1>7, Zenon

LEMMA RoundUnregister == ASSUME RoundInv, NEW b \in Backends, Unregister(b) PROVE RoundInv'
<1>1. PICK k \in 1..Len(backends) :
        backends' = SubSeq(backends, 1, k - 1) \o SubSeq(backends, k + 1, Len(backends))
  <2>1. DOMAIN backends = 1..Len(backends)
    BY DEF RoundInv, RoundTypes
  <2> QED
    BY <2>1, Zenon DEF Unregister
<1>2. rrIndex' = rrIndex /\ tried' = Untried /\ wraps' = 0
  BY Zenon DEF Unregister
<1>3. RoundTypes
  BY Zenon DEF RoundInv
<1>4. /\ backends' \in Seq(Backends) /\ Len(backends') = Len(backends) - 1
      /\ \A i \in 1..Len(backends') : backends'[i] = backends[IF i < k THEN i ELSE i + 1]
  <2>1. backends \in Seq(Backends)
    BY <1>3, Zenon DEF RoundTypes
  <2>2. /\ backends' \in Seq(Backends) /\ Len(backends') = Len(backends) - 1
        /\ \A i \in 1..Len(backends) - 1 : backends'[i] = backends[IF i < k THEN i ELSE i + 1]
    BY <1>1, <2>1, Removed, Zenon
  <2> QED
    BY <2>2, Zenon
<1>5. ASSUME NEW i \in 1..Len(backends'), NEW j \in 1..Len(backends'), backends'[i] = backends'[j]
      PROVE  i = j
  <2>1. PICK x \in 1..Len(backends), y \in 1..Len(backends) :
          x = (IF i < k THEN i ELSE i + 1) /\ y = (IF j < k THEN j ELSE j + 1)
    <3>1. Len(backends) \in Nat
      BY <1>3 DEF RoundTypes
    <3> QED
      BY <1>4, <3>1
  <2>2. x = y
    BY <1>3, <1>4, <1>5, <2>1, Zenon DEF RoundTypes
  <2> QED
    BY <2>1, <2>2
<1> QED
  BY <1>2, <1>3, <1>4, <1>5, EvenAnew, Zenon DEF RoundTypes

\* A turn of Select goes to the position after the run.
LEMMA RoundAdvance == ASSUME RoundInv, backends # <<>>, backends' = backends, TakeTurn PROVE RoundInv'
<1>0. RoundTypes
  BY Zenon DEF RoundInv
<1>1. PICK n \in Nat \ {0}, r \in Nat : n = Len(backends) /\ r = rrIndex
  BY <1>0 DEF RoundTypes
<1>2. PICK base \in [1..n -> Nat], u \in 0..n - 1 : Even(base, u)
  BY <1>1, Zenon DEF RoundInv
<1>3. PICK v \in 0..n - 1 : v = r % n
  BY Round, Zenon
<1>4. /\ Turn = backends[v + 1] /\ v + 1 \in 1..n
      /\ \A i \in 1..n : backends[i] \in Backends /\ (backends[i] = Turn <=> i - 1 = v)
  <2>1. v + 1 \in 1..n /\ \A i \in 1..n : i = v + 1 <=> i - 1 = v
    OBVIOUS
  <2>2. Turn = backends[v + 1]
    BY <1>1, <1>3, Zenon DEF Turn
  <2>3. \A i \in 1..n : backends[i] \in Backends
    BY <1>0, <1>1 DEF RoundTypes
  <2> QED
    BY <1>0, <1>1, <2>1, <2>2, <2>3, Zenon DEF RoundTypes
<1>5. \A i \in 1..n : tried[backends[i]] = IF InRun(i - 1, u, v) THEN base[i] + 1 ELSE base[i]
  BY <1>1, <1>2, <1>3, Zenon DEF Even
<1>6. /\ tried' = [tried EXCEPT ![Turn] = @ + 1] /\ rrIndex' = (r + 1) % IndexRange
      /\ wraps' = IF rrIndex' = 0 THEN wraps + 1 ELSE wraps
  BY <1>1, Zenon DEF TakeTurn
<1>7. \A i \in 1..n :
        tried'[backends[i]] = IF InRun(i - 1, u, v) \/ i - 1 = v THEN base[i] + 1 ELSE base[i]
  <2>1. ~InRun(v, u, v)
    BY DEF InRun
  <2> QED
    BY <1>0, <1>4, <1>5, <1>6, <2>1, Zenon DEF RoundTypes
<1>8. /\ backends' \in Seq(Backends) /\ rrIndex' \in 0..IndexRange - 1 /\ wraps' \in Nat
      /\ tried' \in [Backends -> Nat]
  BY <1>0, <1>1, <1>4, <1>6, BalancerAssumption DEF RoundTypes
<1>9. \E c \in [1..n -> Nat], w \in 0..n - 1 : Even(c, w)'
  <2>1. CASE rrIndex' = 0
    <3>1. PICK c \in [1..n -> Nat] : \A i \in 1..n : c[i] = tried'[backends[i]]
      <4>1. [i \in 1..n |-> tried'[backends[i]]] \in [1..n -> Nat]
        BY <1>4, <1>8, Zenon
      <4> QED
        BY <4>1, Zenon
    <3>2. \A i, j \in 1..n : base[i] - base[j] <= wraps
      BY <1>1, <1>2, Zenon DEF Even
    <3>3. \A i, j \in 1..n : c[i] - c[j] <= wraps'
      <4>1. wraps \in Nat /\ wraps' = wraps + 1
        BY <1>0, <1>6, <2>1, Zenon DEF RoundTypes
      <4>2. \A i \in 1..n : c[i] = base[i] \/ c[i] = base[i] + 1
        BY <1>7, <3>1, Zenon
      <4> SUFFICES ASSUME NEW i \in 1..n, NEW j \in 1..n PROVE c[i] - c[j] <= wraps'
        BY Zenon
      <4>3. base[i] \in Nat /\ base[j] \in Nat /\ base[i] - base[j] <= wraps
        BY <3>2, Zenon
      <4>4. c[i] \in {base[i], base[i] + 1} /\ c[j] \in {base[j], base[j] + 1}
        BY <4>2, Zenon
      <4> QED
        BY <4>1, <4>3, <4>4, Near, Zenon
    <3>4. 0 % n = 0 /\ 0 \in 0..n - 1 /\ \A i \in 1..n : ~InRun(i - 1, 0, 0)
      BY Round DEF InRun
    <3> QED
      <4>1. Even(c, 0)'
        BY <1>1, <2>1, <3>1, <3>3, <3>4, Zenon DEF Even
      <4> QED
        BY <3>4, <4>1, Zenon
  <2>2. CASE rrIndex' # 0
    <3>1. rrIndex' = r + 1 /\ wraps' = wraps
      <4>1. r \in 0..IndexRange - 1
        BY <1>0, <1>1, Zenon DEF RoundTypes
      <4>2. (r + 1) % IndexRange = IF r % IndexRange = IndexRange - 1 THEN 0 ELSE (r % IndexRange) + 1
        BY BalancerAssumption, Round, Zenon
      <4>3. r % IndexRange = r
        BY <4>1, BalancerAssumption
      <4> QED
        BY <1>6, <2>2, <4>1, <4>2, <4>3, Zenon
    <3>2. PICK w \in 0..n - 1 :
            w = (r + 1) % n /\ (v = n - 1 => w = 0) /\ (v # n - 1 => w = v + 1)
      BY <1>3, Round, Zenon
    <3>3. CASE w = u
      <4>1. PICK c \in [1..n -> Nat] : \A i \in 1..n : c[i] = base[i] + 1
        <5>1. [i \in 1..n |-> base[i] + 1] \in [1..n -> Nat]
          OBVIOUS
        <5> QED
          BY <5>1, Zenon
      <4>2. \A i \in 1..n : tried'[backends[i]] = c[i] /\ ~InRun(i - 1, u, w)
        <5>1. \A j \in 0..n - 1 : (InRun(j, u, v) \/ j = v) /\ ~InRun(j, u, w)
          BY <3>2, <3>3 DEF InRun
        <5>2. \A i \in 1..n : i - 1 \in 0..n - 1
          OBVIOUS
        <5> QED
          BY <1>7, <4>1, <5>1, <5>2, Zenon
      <4>3. \A i, j \in 1..n : c[i] - c[j] <= wraps
        <5>1. \A i, j \in 1..n : base[i] - base[j] <= wraps
          BY <1>1, <1>2, Zenon DEF Even
        <5>2. \A i, j \in 1..n : c[i] - c[j] = base[i] - base[j]
          BY <4>1
        <5> QED
          BY <5>1, <5>2, Zenon
      <4> QED
        <5>1. Even(c, u)'
          BY <1>1, <3>1, <3>2, <4>2, <4>3, Zenon DEF Even
        <5> QED
          BY <5>1, Zenon
    <3>4. CASE w # u
      <4>1. \A i \in 1..n : InRun(i - 1, u, w) <=> InRun(i - 1, u, v) \/ i - 1 = v
        <5>1. \A j \in 0..n - 1 : InRun(j, u, w) <=> InRun(j, u, v) \/ j = v
          BY <3>2, <3>4 DEF InRun
        <5>2. \A i \in 1..n : i - 1 \in 0..n - 1
          OBVIOUS
        <5> QED
          BY <5>1, <5>2, Zenon
      <4>2. \A i, j \in 1..n : base[i] - base[j] <= wraps
        BY <1>1, <1>2, Zenon DEF Even
      <4> QED
        <5>1. Even(base, u)'
          BY <1>1, <1>7, <3>1, <3>2, <4>1, <4>2, Zenon DEF Even
        <5> QED
          BY <5>1, Zenon
    <3> QED
      BY <3>3, <3>4, Zenon
  <2> QED
    BY <2>1, <2>2, Zenon
<1> QED
  BY <1>0, <1>1, <1>8, <1>9, Zenon DEF RoundInv, RoundTypes

\* RoundRobin gives the registered backends their turns evenly.
THEOREM BalancedHolds == BalancerSpec => []Balanced
<1>1. BalancerInit => RoundInv
  BY BalancerAssumption DEF BalancerInit, RoundInv, RoundTypes, Untried
<1>2. RoundInv /\ [BalancerNext]_balancer => RoundInv'
  <2> SUFFICES ASSUME RoundInv, [BalancerNext]_balancer PROVE RoundInv'
    BY Zenon
  <2>1. ASSUME NEW r \in Reqs, Select(r) PROVE RoundInv'
    BY <2>1, RoundAdvance, Zenon DEF Select
  <2>2. ASSUME UNCHANGED <<backends, rrIndex, tried, wraps>> PROVE RoundInv'
    <3>1. RoundTypes'
      BY <2>2, Zenon DEF RoundInv, RoundTypes
    <3>2. ASSUME backends # <<>>
          PROVE  \E base \in [1..Len(backends) -> Nat], u \in 0..Len(backends) - 1 : Even(base, u)'
      <4>1. PICK base \in [1..Len(backends) -> Nat], u \in 0..Len(backends) - 1 : Even(base, u)
        BY <3>2, Zenon DEF RoundInv
      <4>2. Even(base, u)'
        BY <2>2, <4>1, Zenon DEF Even
      <4> QED
        BY <4>2, Zenon
    <3> QED
      BY <2>2, <3>1, <3>2, Zenon DEF RoundInv
  <2>3. ASSUME NEW r \in Reqs,
               RecordSuccess(r) \/ Heal(r) \/ RecordFailure(r) \/ Judged(r) \/ Mark(r)
        PROVE  RoundInv'
    BY <2>2, <2>3, Zenon DEF RecordSuccess, Heal, RecordFailure, Judged, Mark, Proceeds
  <2> QED
    BY <2>1, <2>2, <2>3, RoundRegister, RoundUnregister, Zenon DEF BalancerNext, balancer
<1>3. RoundInv => Balanced
  <2> SUFFICES ASSUME RoundInv, NEW a \in Registered, NEW b \in Registered
               PROVE  tried[a] - tried[b] <= 1 + wraps
    BY Zenon DEF Balanced
  <2>1. PICK i \in 1..Len(backends), j \in 1..Len(backends) : a = backends[i] /\ b = backends[j]
    <3>1. DOMAIN backends = 1..Len(backends)
      BY DEF RoundInv, RoundTypes
    <3> QED
      BY <3>1, Zenon DEF Registered
  <2>2. PICK base \in [1..Len(backends) -> Nat], u \in 0..Len(backends) - 1 : Even(base, u)
    BY <2>1 DEF RoundInv
  <2>3. /\ tried[a] \in {base[i], base[i] + 1} /\ tried[b] \in {base[j], base[j] + 1}
        /\ base[i] - base[j] <= wraps
    BY <2>1, <2>2, Zenon DEF Even
  <2>4. base[i] \in Nat /\ base[j] \in Nat /\ wraps \in Nat
    BY Zenon DEF RoundInv, RoundTypes
  <2> QED
    BY <2>3, <2>4
<1> QED
  BY <1>1, <1>2, <1>3, PTL DEF BalancerSpec

-----------------------------------------------------------------------------
(* MultiPathManager: the best path is the best *)

PathTypes ==
  /\ activeID \in Nat
  /\ active \subseteq 1..activeID
  /\ latency \in [1..activeID -> Int]
  /\ scanning \in BOOLEAN
  /\ unvisited \subseteq 1..activeID
  /\ best \in [id : Nat, latency : Int]

\* What GetBestPath has found among the active paths it has visited: nothing if
\* there is none, otherwise one of them with its own latency, the least of
\* theirs.
PathInv ==
  /\ PathTypes
  /\ scanning =>
       \/ best.id = 0 /\ active \subseteq unvisited
       \/ /\ best.id \in active \ unvisited
          /\ best.latency = latency[best.id]
          /\ \A id \in active \ unvisited : best.latency <= latency[id]

LEMMA Mapped ==
  ASSUME NEW S, NEW s \in Seq(S) PROVE s \in [1..Len(s) -> S]
  OBVIOUS

LEMMA PathInitInv == PathInit => PathInv
<1> SUFFICES ASSUME PathInit PROVE PathInv
  BY Zenon
<1>1. latency \in [1..activeID -> Int] /\ activeID \in Nat
  BY DEF PathInit
<1>2. best \in [id : Nat, latency : Int]
  BY DEF PathInit, NoPath
<1> QED
  BY <1>1, <1>2, Zenon DEF PathInit, PathInv, PathTypes

\* One round of the loop keeps the best of the paths visited.
LEMMA PathVisit ==
  ASSUME PathInv, NEW id \in 1..MaxPaths, Visit(id)
  PROVE  PathInv'
<1>1. PathTypes /\ scanning /\ id \in unvisited /\ id \in 1..activeID /\ id # 0
  BY DEF PathInv, PathTypes, Visit
<1>2. /\ activeID' = activeID /\ active' = active /\ latency' = latency /\ scanning' = scanning
      /\ unvisited' = unvisited \ {id}
  BY Zenon DEF Visit, paths
<1>3. latency[id] \in Int /\ best.latency \in Int
  BY <1>1, Zenon DEF PathTypes
<1>4. CASE id \in active /\ (best.id = 0 \/ latency[id] < best.latency)
  <2>1. best' = [id |-> id, latency |-> latency[id]]
    BY <1>4, Zenon DEF Visit, Better
  <2>2. best' \in [id : Nat, latency : Int] /\ best'.id = id /\ best'.latency = latency[id]
    BY <2>1, <1>1, <1>3
  <2>3. PathTypes'
    BY <2>2, <1>1, <1>2, Zenon DEF PathTypes
  <2>4. ASSUME NEW other \in active \ (unvisited \ {id}) PROVE latency[id] <= latency[other]
    <3>1. latency[other] \in Int
      BY <1>1, Zenon DEF PathTypes
    <3>2. CASE other = id
      BY <3>2, <1>3
    <3>3. CASE other # id
      <4>1. best.latency <= latency[other] /\ best.id # 0
        BY <3>3, <1>1 DEF PathInv, PathTypes
      <4> QED
        BY <4>1, <3>1, <1>3, <1>4
    <3> QED
      BY <3>2, <3>3, Zenon
  <2>5. id \in active \ (unvisited \ {id})
    BY <1>4, Zenon
  <2> QED
    BY <2>2, <2>3, <2>4, <2>5, <1>2, Zenon DEF PathInv
<1>5. CASE ~(id \in active /\ (best.id = 0 \/ latency[id] < best.latency))
  <2>1. best' = best
    BY <1>5, Zenon DEF Visit, Better
  <2>2. PathTypes'
    BY <2>1, <1>1, <1>2, Zenon DEF PathTypes
  <2>3. CASE best.id = 0 /\ active \subseteq unvisited
    BY <2>1, <2>2, <2>3, <1>2, <1>5, Zenon DEF PathInv
  <2>4. CASE /\ best.id \in active \ unvisited
             /\ best.latency = latency[best.id]
             /\ \A p \in active \ unvisited : best.latency <= latency[p]
    <3>1. best.id # 0
      BY <2>4, <1>1 DEF PathTypes
    <3>2. ASSUME NEW other \in active \ (unvisited \ {id}) PROVE best.latency <= latency[other]
      <4>1. CASE other = id
        BY <4>1, <3>1, <1>3, <1>5
      <4>2. CASE other # id
        BY <4>2, <2>4, Zenon
      <4> QED
        BY <4>1, <4>2, Zenon
    <3> QED
      BY <2>1, <2>2, <2>4, <3>2, <1>2, Zenon DEF PathInv
  <2> QED
    BY <2>3, <2>4, <1>1, Zenon DEF PathInv
<1> QED
  BY <1>4, <1>5, Zenon

LEMMA PathStep == PathInv /\ [PathNext]_multipath => PathInv'
<1> SUFFICES ASSUME PathInv, [PathNext]_multipath PROVE PathInv'
  BY Zenon
<1>t. PathTypes
  BY Zenon DEF PathInv
<1>1. ASSUME AddPath PROVE PathInv'
  <2>1. activeID' \in Nat /\ active' \subseteq 1..activeID' /\ unvisited' \subseteq 1..activeID'
    BY <1>1, <1>t DEF AddPath, PathTypes, scan
  <2>2. latency' \in [1..activeID' -> Int]
    <3>1. latency \in Seq(Int) /\ Len(latency) = activeID
      BY <1>t DEF PathTypes
    <3>2. Append(latency, 0) \in Seq(Int) /\ Len(Append(latency, 0)) = activeID + 1
      BY <3>1
    <3> QED
      <4>1. latency' \in Seq(Int) /\ Len(latency') = activeID'
        BY <3>2, <1>1, Zenon DEF AddPath
      <4> QED
        BY <4>1, Mapped, Zenon
  <2> QED
    BY <1>1, <1>t, <2>1, <2>2, Zenon DEF AddPath, PathInv, PathTypes, scan
<1>2. ASSUME GetBestPath PROVE PathInv'
  <2>1. best' \in [id : Nat, latency : Int] /\ best'.id = 0
    BY <1>2 DEF GetBestPath, NoPath
  <2> QED
    BY <1>2, <1>t, <2>1, Zenon DEF GetBestPath, PathInv, PathTypes, paths
<1>3. ASSUME ReturnBest PROVE PathInv'
  <2>1. best' \in [id : Nat, latency : Int]
    BY <1>3 DEF ReturnBest, NoPath
  <2> QED
    BY <1>3, <1>t, <2>1, Zenon DEF ReturnBest, PathInv, PathTypes, paths
<1>4. ASSUME NEW id \in 1..MaxPaths, RemovePath(id) PROVE PathInv'
  BY <1>4, <1>t, Zenon DEF RemovePath, PathInv, PathTypes, scan
<1>5. ASSUME NEW id \in 1..MaxPaths, NEW l \in Latencies, UpdateLatency(id, l) PROVE PathInv'
  <2>1. l \in Int
    BY PathAssumption, Zenon
  <2> QED
    BY <1>5, <1>t, <2>1, Zenon DEF UpdateLatency, PathInv, PathTypes, scan
<1>6. ASSUME UNCHANGED multipath PROVE PathInv'
  BY <1>6, Zenon DEF multipath, paths, scan, PathInv, PathTypes
<1> QED
  BY <1>1, <1>2, <1>3, <1>4, <1>5, <1>6, PathVisit, Zenon DEF PathNext

\* BestIsLeast for any number of paths, any latencies and any order of the map's
\* iteration: GetBestPath returns an active path of least latency, and nothing
\* only if no path is active.
THEOREM BestIsLeastHolds == PathSpec => []BestIsLeast
<1>1. PathInv => BestIsLeast
  BY Zenon DEF PathInv, PathTypes, BestIsLeast
<1> QED
  BY <1>1, PathInitInv, PathStep, PTL DEF PathSpec

=============================================================================
