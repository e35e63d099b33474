---------------------------- MODULE DDOSProtector ----------------------------
(***************************************************************************)
(* DDOSProtector of server/webbou/pool.go: blocked addresses and a counter *)
(* of requests per address and window, under ddos.mu.  Allow looks the     *)
(* address up under the read lock, asks its rate limiter without a lock,   *)
(* which may answer either way, and counts under the write lock.  Times    *)
(* are kept as remaining times and as ages.                                *)
(***************************************************************************)
EXTENDS Integers

CONSTANTS
  Peers,                  \* remote addresses
  Handlers,               \* goroutines that call the protector
  maxRequestsPerWindow,
  windowSize,
  BlockTime               \* the 5 minutes of a refusal by the limiter

ASSUME ProtectorAssumption ==
  /\ maxRequestsPerWindow \in Nat \ {0} /\ windowSize \in Nat \ {0} /\ BlockTime \in Nat

VARIABLES
  blockedIPs,    \* time each block has left, or NoBlock
  count,         \* of each address' counter,
  windowAge,     \* and the time since its windowStart
  handling,      \* of each call: its step,
  peer,          \* and its address
  crashed,       \* has the runtime stopped the program?
  \* History, for each address: requests allowed in an arbitrary interval that
  \* UnblockIP does not interrupt, and the time since it began.
  allowed, elapsed

protector == <<blockedIPs, count, windowAge, handling, peer, crashed, allowed, elapsed>>
blocks == <<blockedIPs, crashed>>
counters == <<count, windowAge>>
interval == <<allowed, elapsed>>

NoBlock == -2

\* A counter this old is dropped by cleanup and starts anew in Allow, as one
\* that is not there does: its windowStart is the zero time.
Stale == 5 * windowSize + 1

ProtectorInit ==
  /\ blockedIPs = [p \in Peers |-> NoBlock]
  /\ count = [p \in Peers |-> 0] /\ windowAge = [p \in Peers |-> Stale]
  /\ handling = [h \in Handlers |-> "idle"] /\ peer \in [Handlers -> Peers]
  /\ crashed = FALSE
  /\ allowed = [p \in Peers |-> 0] /\ elapsed = [p \in Peers |-> 0]

-----------------------------------------------------------------------------
(* The mutex: readers are checking or deleting, a stuck call holds it for ever *)

Stuck == \E h \in Handlers : handling[h] = "stuck"
CanLock == ~crashed /\ \A h \in Handlers : handling[h] \notin {"checking", "deleting", "stuck"}

Step(h, from, to) ==
  /\ handling[h] = from
  /\ handling' = [handling EXCEPT ![h] = to]

-----------------------------------------------------------------------------
(* Allow *)

Arrive(h, p) ==
  /\ ~crashed /\ ~Stuck /\ Step(h, "idle", "checking")
  /\ peer' = [peer EXCEPT ![h] = p]
  /\ UNCHANGED <<blocks, counters, interval>>

CheckBlocked(h) ==
  /\ ~crashed
  /\ LET left == blockedIPs[peer[h]]
     IN  Step(h, "checking", CASE left = NoBlock -> "passed"
                               [] left > 0 -> "idle"
                               [] OTHER -> "deleting")
  /\ UNCHANGED <<blocks, counters, peer, interval>>

\* The map is written under the read lock,
DeleteBlock(h) ==
  /\ ~crashed /\ Step(h, "deleting", "passed")
  /\ blockedIPs' = [blockedIPs EXCEPT ![peer[h]] = NoBlock]
  /\ UNCHANGED <<counters, peer, crashed, interval>>

\* which the runtime may notice when another reader uses the map.
MapRace ==
  /\ ~crashed
  /\ \E g, h \in Handlers : /\ g # h /\ handling[g] = "deleting"
                            /\ handling[h] \in {"checking", "deleting"}
  /\ crashed' = TRUE
  /\ UNCHANGED <<blockedIPs, counters, handling, peer, interval>>

\* limiter.Allow() is false; BlockIP.
LimiterRefuses(h) ==
  /\ CanLock /\ Step(h, "passed", "idle")
  /\ blockedIPs' = [blockedIPs EXCEPT ![peer[h]] = BlockTime]
  /\ UNCHANGED <<counters, peer, crashed, interval>>

Fresh(p) == windowAge[p] <= windowSize
Counted(p) == IF Fresh(p) THEN count[p] + 1 ELSE 1

Unstarted_CountRequest(h) ==
  LET p == peer[h] IN
  /\ CanLock
  /\ count' = [count EXCEPT ![p] = Counted(p)]
  /\ UNCHANGED windowAge
  /\ IF count'[p] > maxRequestsPerWindow
     THEN Step(h, "passed", "stuck") /\ UNCHANGED allowed
     ELSE Step(h, "passed", "idle") /\ allowed' = [allowed EXCEPT ![p] = @ + 1]
  /\ UNCHANGED <<blocks, peer, elapsed>>

\* Over the limit, Allow calls BlockIP with ddos.mu locked, and waits for itself.
CountRequest(h) ==
  LET p == peer[h] IN
  /\ CanLock
  /\ count' = [count EXCEPT ![p] = Counted(p)]
  /\ windowAge' = [windowAge EXCEPT ![p] = IF Fresh(p) THEN @ ELSE 0]
  /\ IF count'[p] > maxRequestsPerWindow
     THEN Step(h, "passed", "stuck") /\ UNCHANGED allowed
     ELSE Step(h, "passed", "idle") /\ allowed' = [allowed EXCEPT ![p] = @ + 1]
  /\ UNCHANGED <<blocks, peer, elapsed>>

-----------------------------------------------------------------------------
UnblockIP(p) ==
  /\ CanLock
  /\ blockedIPs' = [blockedIPs EXCEPT ![p] = NoBlock]
  /\ count' = [count EXCEPT ![p] = 0]
  /\ windowAge' = [windowAge EXCEPT ![p] = Stale]
  /\ allowed' = [allowed EXCEPT ![p] = 0] /\ elapsed' = [elapsed EXCEPT ![p] = 0]
  /\ UNCHANGED <<handling, peer, crashed>>

\* One pass of the cleanup goroutine.
ddosCleanup ==
  /\ CanLock
  /\ blockedIPs' = [p \in Peers |-> IF blockedIPs[p] < 0 THEN NoBlock ELSE blockedIPs[p]]
  /\ count' = [p \in Peers |-> IF windowAge[p] = Stale THEN 0 ELSE count[p]]
  /\ UNCHANGED <<windowAge, handling, peer, crashed, interval>>

ProtectorTick ==
  /\ ~crashed
  /\ blockedIPs' = [p \in Peers |-> IF blockedIPs[p] >= 0 THEN blockedIPs[p] - 1 ELSE blockedIPs[p]]
  /\ windowAge' = [p \in Peers |-> IF windowAge[p] = Stale THEN Stale ELSE windowAge[p] + 1]
  /\ elapsed' = [p \in Peers |-> IF elapsed[p] > windowSize THEN elapsed[p] ELSE elapsed[p] + 1]
  /\ allowed' = [p \in Peers |-> IF elapsed'[p] > windowSize THEN 0 ELSE allowed[p]]
  /\ UNCHANGED <<count, handling, peer, crashed>>

\* History: another interval begins.
Observe(p) ==
  /\ ~crashed
  /\ allowed' = [allowed EXCEPT ![p] = 0] /\ elapsed' = [elapsed EXCEPT ![p] = 0]
  /\ UNCHANGED <<blocks, counters, handling, peer>>

\* A call of Allow goes on.
Proceed(h) == CheckBlocked(h) \/ DeleteBlock(h) \/ LimiterRefuses(h) \/ CountRequest(h)

ProtectorNext ==
  \/ \E h \in Handlers : Proceed(h) \/ \E p \in Peers : Arrive(h, p)
  \/ MapRace
  \/ \E p \in Peers : UnblockIP(p) \/ Observe(p)
  \/ ddosCleanup \/ ProtectorTick

ProtectorSpec == ProtectorInit /\ [][ProtectorNext]_protector

\* Goroutines run.
FairProtectorSpec ==
  ProtectorSpec /\ \A h \in Handlers : WF_protector(Proceed(h))

-----------------------------------------------------------------------------
\* Types.
ProtectorTypeOK ==
  /\ blockedIPs \in [Peers -> NoBlock..BlockTime]
  /\ count \in [Peers -> Nat] /\ windowAge \in [Peers -> 0..Stale]
  /\ handling \in [Handlers -> {"idle", "checking", "deleting", "passed", "stuck"}]
  /\ peer \in [Handlers -> Peers] /\ crashed \in BOOLEAN
  /\ allowed \in [Peers -> Nat] /\ elapsed \in [Peers -> 0..windowSize + 1]

\* A window begins with the first request after the end of the last one.  So
\* in any interval no longer than a window an address gets less than twice the
\* limit, however calls of Allow, expiring blocks and cleanup interleave.
SlidingLimit ==
  \A p \in Peers : elapsed[p] <= windowSize => allowed[p] < 2 * maxRequestsPerWindow

\* CHANGELOG.md: "DDoS Protection - limits and blocking of IPs".  An address
\* whose counter exceeds the limit is blocked.
OverLimitBlocked == \A p \in Peers :
  count[p] > maxRequestsPerWindow ~> blockedIPs[p] >= 0 \/ crashed

\* What happens instead, for the proofs: the protector hangs, with its mutex
\* locked, exactly when an address has exceeded its limit.
HangsOverLimit == Stuck <=> \E p \in Peers : count[p] > maxRequestsPerWindow

=============================================================================
