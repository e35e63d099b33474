---------------------------- MODULE LoadBalancer -----------------------------
(***************************************************************************)
(* RoundRobin of server/webbou/loadbalancer.go.  Select, Register and      *)
(* Unregister run under rr.mu; RecordSuccess and RecordFailure update the  *)
(* atomics of the backend one by one, without a lock.  A request selects a *)
(* backend and reports its outcome.  Latency and LastError, which nothing  *)
(* reads, are left out.                                                    *)
(***************************************************************************)
EXTENDS Integers, Sequences

CONSTANTS
  Backends,        \* backends, each with an address of its own
  Reqs,            \* requests in progress at the same time
  FailureLimit,    \* a backend with more failures in a row is unhealthy
  IndexRange,      \* 2^32 for the uint32 rr.index
  MaxTried,        \* bounds on the history: selections of one backend,
  MaxWraps         \* and wraps of the index, between two registrations

ASSUME BalancerAssumption ==
  /\ FailureLimit \in Nat /\ IndexRange \in Nat \ {0}
  /\ MaxTried \in Nat /\ MaxWraps \in Nat

NoBackend == "none"
ASSUME NoBackendAssumption == NoBackend \notin Backends

VARIABLES
  backends,        \* rr.backends
  rrIndex,         \* rr.index
  healthy,         \* backends with Healthy set
  failedReqs,      \* FailedReqs; more than FailureLimit + 1 are not told apart
  step, target,    \* of each request: where it is, and the backend it was given
  \* History, since the last change of rr.backends: how often the turn came to
  \* each backend, and how often the index wrapped.
  tried, wraps

balancer == <<backends, rrIndex, healthy, failedReqs, step, target, tried, wraps>>

Registered == {backends[i] : i \in DOMAIN backends}
Untried == [b \in Backends |-> 0]

BalancerInit ==
  /\ backends = <<>> /\ rrIndex = 0 /\ healthy = {}
  /\ failedReqs = [b \in Backends |-> 0]
  /\ step = [r \in Reqs |-> "idle"] /\ target = [r \in Reqs |-> NoBackend]
  /\ tried = Untried /\ wraps = 0

Register(b) ==
  /\ b \notin Registered
  /\ healthy' = healthy \cup {b}
  /\ backends' = Append(backends, b)
  /\ tried' = Untried /\ wraps' = 0
  /\ UNCHANGED <<rrIndex, failedReqs, step, target>>

Unregister(b) ==
  /\ \E i \in DOMAIN backends :
       /\ backends[i] = b
       /\ backends' = SubSeq(backends, 1, i - 1) \o SubSeq(backends, i + 1, Len(backends))
  /\ tried' = Untried /\ wraps' = 0
  /\ UNCHANGED <<rrIndex, healthy, failedReqs, step, target>>

Turn == backends[(rrIndex % Len(backends)) + 1]

TakeTurn ==
  /\ tried[Turn] < MaxTried /\ wraps < MaxWraps
  /\ rrIndex' = (rrIndex + 1) % IndexRange
  /\ tried' = [tried EXCEPT ![Turn] = @ + 1]
  /\ wraps' = IF rrIndex' = 0 THEN wraps + 1 ELSE wraps

Heedless_Select(r) ==
  /\ step[r] = "idle" /\ backends # <<>>
  /\ TakeTurn
  /\ step' = [step EXCEPT ![r] = "sent"]
  /\ target' = [target EXCEPT ![r] = Turn]
  /\ UNCHANGED <<backends, healthy, failedReqs>>

Waiting_Select(r) ==
  /\ step[r] = "idle" /\ backends # <<>>
  /\ \/ /\ Turn \in healthy
        /\ TakeTurn
        /\ step' = [step EXCEPT ![r] = "sent"]
        /\ target' = [target EXCEPT ![r] = Turn]
     \/ /\ Turn \notin healthy /\ tried[Turn] < MaxTried
        /\ tried' = [tried EXCEPT ![Turn] = @ + 1]
        /\ UNCHANGED <<rrIndex, wraps, step, target>>
  /\ UNCHANGED <<backends, healthy, failedReqs>>

\* The turn moves on also when it came to an unhealthy backend, and the caller
\* gets nil.
Select(r) ==
  /\ step[r] = "idle" /\ backends # <<>>
  /\ TakeTurn
  /\ \/ /\ Turn \in healthy
        /\ step' = [step EXCEPT ![r] = "sent"]
        /\ target' = [target EXCEPT ![r] = Turn]
     \/ Turn \notin healthy /\ UNCHANGED <<step, target>>
  /\ UNCHANGED <<backends, healthy, failedReqs>>

-----------------------------------------------------------------------------
Proceeds(r, from, to) ==
  /\ step[r] = from
  /\ step' = [step EXCEPT ![r] = to]
  /\ target' = IF to = "idle" THEN [target EXCEPT ![r] = NoBackend] ELSE target
  /\ UNCHANGED <<backends, rrIndex, tried, wraps>>

RecordSuccess(r) ==
  /\ Proceeds(r, "sent", "healing")
  /\ failedReqs' = [failedReqs EXCEPT ![target[r]] = 0]
  /\ UNCHANGED healthy

Heal(r) ==
  /\ Proceeds(r, "healing", "idle")
  /\ healthy' = healthy \cup {target[r]}
  /\ UNCHANGED failedReqs

RecordFailure(r) ==
  /\ Proceeds(r, "sent", "judging")
  /\ failedReqs' = [failedReqs EXCEPT ![target[r]] = IF @ > FailureLimit THEN @ ELSE @ + 1]
  /\ UNCHANGED healthy

Judged(r) ==
  /\ Proceeds(r, "judging", IF failedReqs[target[r]] > FailureLimit THEN "marking" ELSE "idle")
  /\ UNCHANGED <<healthy, failedReqs>>

Mark(r) ==
  /\ Proceeds(r, "marking", "idle")
  /\ healthy' = healthy \ {target[r]}
  /\ UNCHANGED failedReqs

BalancerNext ==
  \/ \E b \in Backends : Register(b) \/ Unregister(b)
  \/ \E r \in Reqs : \/ Select(r) \/ RecordSuccess(r) \/ Heal(r)
                     \/ RecordFailure(r) \/ Judged(r) \/ Mark(r)

BalancerSpec == BalancerInit /\ [][BalancerNext]_balancer

-----------------------------------------------------------------------------
\* Types; exactly the requests in progress have a backend.
BalancerTypeOK ==
  /\ backends \in Seq(Backends) /\ rrIndex \in 0..IndexRange - 1
  /\ healthy \subseteq Backends /\ failedReqs \in [Backends -> 0..FailureLimit + 1]
  /\ step \in [Reqs -> {"idle", "sent", "healing", "judging", "marking"}]
  /\ target \in [Reqs -> Backends \cup {NoBackend}]
  /\ \A r \in Reqs : step[r] = "idle" <=> target[r] = NoBackend
  /\ tried \in [Backends -> 0..MaxTried] /\ wraps \in 0..MaxWraps

\* An unhealthy backend that no request in progress was given is lost: nothing
\* will report a success for it, as Select only hands out healthy ones.
Lost(b) == b \notin healthy /\ \A r \in Reqs : target[r] # b

\* A lost backend stays lost until it is unregistered and registered again: no
\* health check, time-out or later report of RoundRobin brings it back.
LostStays ==
  [][\A b \in Backends : Lost(b) => Lost(b)' \/ b \in Registered' \ Registered]_balancer

\* The turns of the registered backends are even, healthy or not, and with any
\* number of callers: since the last registration they differ by at most one,
\* and by one more for each time the uint32 index wrapped.
Balanced == \A a, b \in Registered : tried[a] - tried[b] <= 1 + wraps

=============================================================================
