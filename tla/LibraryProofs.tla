---------------------------- MODULE LibraryProofs ----------------------------
(***************************************************************************)
(* Proofs about the client's heartbeat and back-pressure controller, about *)
(* the parts of state.go, pool.go and auth.go that the server creates or   *)
(* offers but does not call yet, and about the frame readers of both ends, *)
(* for any number of goroutines, addresses and streams, any frames, and    *)
(* any limits.  The parts share nothing; each has a section of its own.    *)
(***************************************************************************)
EXTENDS Heartbeat, BackPressureController, CircuitBreaker, DDOSProtector,
        FlowControlManager, FrameReader, TLAPS

-----------------------------------------------------------------------------
(* Heartbeat: it beats in time *)

\* A task that was at its ticker before: it left a tick behind, or time passed.
Settled(h) == age[h] > 0 \/ left[h] > 0

\* The inductive strengthening: Cadence must already hold before time passes,
\* must bound idle by itself (ticks that are made up have left[h] < 0), and
\* must carry over to the check after the tick.
Waiting(h) == pc[h] = "wait" /\ Settled(h) =>
                idle + left[h] < 2 * Interval /\ idle < 2 * Interval
Checking(h) == pc[h] = "check" /\ age[h] > 0 => idle < 2 * Interval
Unborn(h) == pc[h] = "none" => age[h] = 0
Expired(h) == timedOut[h] => age[h] = 0 /\ pc[h] \in {"exit", "dead"}

IInv == TypeOK /\ \A h \in Beats : Waiting(h) /\ Checking(h) /\ Unborn(h) /\ Expired(h)

LEMMA InitIInv == Init => IInv
<1> SUFFICES ASSUME Init PROVE IInv
  BY Zenon
<1>1. TypeOK
  <2>1. timedOut \in [Beats -> BOOLEAN]
    BY Zenon DEF Init
  <2>2. left \in [Beats -> (-MaxLag)..Interval] /\ age \in [Beats -> 0..Timeout]
    BY HeartbeatAssumption DEF Init
  <2>3. idle \in 0..Timeout
    BY HeartbeatAssumption DEF Init
  <2>4. /\ is_running \in BOOLEAN /\ locked \in BOOLEAN
        /\ pc \in [Beats -> {"none", "wait", "check", "send", "stamp", "exit", "dead"}]
    BY Zenon DEF Init
  <2> QED
    BY <2>1, <2>2, <2>3, <2>4, Zenon DEF TypeOK
<1>2. ASSUME NEW h \in Beats PROVE pc[h] = "none" /\ age[h] = 0 /\ ~timedOut[h]
  BY Zenon DEF Init
<1>3. ASSUME NEW h \in Beats PROVE Waiting(h) /\ Checking(h) /\ Unborn(h) /\ Expired(h)
  BY <1>2, Zenon DEF Waiting, Checking, Unborn, Expired
<1> QED
  BY <1>1, <1>3, Zenon DEF IInv

LEMMA TypeStep == TypeOK /\ [Next]_vars => TypeOK'
<1> SUFFICES ASSUME TypeOK, [Next]_vars PROVE TypeOK'
  BY Zenon
<1> USE HeartbeatAssumption DEF TypeOK, To
<1>1. ASSUME NEW h \in Beats, Start(h) PROVE TypeOK'
  BY <1>1 DEF Start
<1>2. ASSUME NEW h \in Beats, Tick(h) PROVE TypeOK'
  BY <1>2 DEF Tick
<1>3. ASSUME NEW h \in Beats, CheckIdle(h) PROVE TypeOK'
  <2>1. (idle >= Timeout) \in BOOLEAN
    OBVIOUS
  <2>2. timedOut' \in [Beats -> BOOLEAN]
    BY <1>3, <2>1, Zenon DEF CheckIdle
  <2>3. pc' \in [Beats -> {"none", "wait", "check", "send", "stamp", "exit", "dead"}]
    BY <1>3 DEF CheckIdle
  <2> QED
    BY <1>3, <2>2, <2>3, Zenon DEF CheckIdle
<1>4. ASSUME NEW h \in Beats, Ping(h) PROVE TypeOK'
  BY <1>4, Zenon DEF Ping
<1>5. ASSUME NEW h \in Beats, Stamp(h) PROVE TypeOK'
  BY <1>5 DEF Stamp
<1>6. ASSUME NEW h \in Beats, Exit(h) PROVE TypeOK'
  BY <1>6, Zenon DEF Exit
<1>7. CASE Stop
  BY <1>7, Zenon DEF Stop
<1>8. CASE MarkActivity
  BY <1>8 DEF MarkActivity
<1>9. CASE RecvLocks
  BY <1>9, Zenon DEF RecvLocks
<1>10. CASE Advance
  <2>1. idle' \in 0..Timeout
    BY <1>10 DEF Advance
  <2>2. left' \in [Beats -> (-MaxLag)..Interval]
    BY <1>10 DEF Advance
  <2>3. age' \in [Beats -> 0..Timeout]
    BY <1>10 DEF Advance
  <2> QED
    BY <1>10, <2>1, <2>2, <2>3, Zenon DEF Advance
<1>11. CASE UNCHANGED vars
  BY <1>11, Zenon DEF vars
<1> QED
  BY <1>1, <1>2, <1>3, <1>4, <1>5, <1>6, <1>7, <1>8, <1>9, <1>10, <1>11, Zenon DEF Next, Beat

LEMMA StepIInv == IInv /\ [Next]_vars => IInv'
<1> SUFFICES ASSUME IInv, [Next]_vars,
                    NEW k \in Beats
             PROVE  Waiting(k)' /\ Checking(k)' /\ Unborn(k)' /\ Expired(k)'
  BY TypeStep, Zenon DEF IInv
<1> USE HeartbeatAssumption DEF Waiting, Settled, Checking, Unborn, Expired, To
<1>0. TypeOK /\ Waiting(k) /\ Checking(k) /\ Unborn(k) /\ Expired(k)
  BY Zenon DEF IInv
<1> USE DEF TypeOK
<1>1. ASSUME NEW h \in Beats, Start(h) PROVE Waiting(k)' /\ Checking(k)' /\ Unborn(k)' /\ Expired(k)'
  BY <1>0, <1>1 DEF Start
<1>2. ASSUME NEW h \in Beats, Tick(h) PROVE Waiting(k)' /\ Checking(k)' /\ Unborn(k)' /\ Expired(k)'
  BY <1>0, <1>2, Zenon DEF Tick
<1>3. ASSUME NEW h \in Beats, CheckIdle(h) PROVE Waiting(k)' /\ Checking(k)' /\ Unborn(k)' /\ Expired(k)'
  <2>1. CASE k # h
    BY <1>0, <1>3, <2>1, Zenon DEF CheckIdle
  <2>2. CASE k = h
    <3>1. timedOut'[k] = (idle >= Timeout)
      <4>1. timedOut \in [Beats -> BOOLEAN]
        BY <1>0, Zenon
      <4>2. timedOut' = [timedOut EXCEPT ![h] = idle >= Timeout]
        BY <1>3, Zenon DEF CheckIdle
      <4> QED
        BY <4>1, <4>2, <2>2, Zenon
    <3>2. age' = age /\ idle' = idle /\ left' = left
      BY <1>3, Zenon DEF CheckIdle
    <3>3. CASE idle >= Timeout
      BY <1>0, <1>3, <2>2, <3>1, <3>2, <3>3 DEF CheckIdle
    <3>4. CASE idle < Timeout
      BY <1>0, <1>3, <2>2, <3>1, <3>2, <3>4 DEF CheckIdle
    <3> QED
      BY <1>0, <3>3, <3>4
  <2> QED
    BY <2>1, <2>2, Zenon
<1>4. ASSUME NEW h \in Beats, Ping(h) PROVE Waiting(k)' /\ Checking(k)' /\ Unborn(k)' /\ Expired(k)'
  BY <1>0, <1>4, Zenon DEF Ping
<1>5. ASSUME NEW h \in Beats, Stamp(h) PROVE Waiting(k)' /\ Checking(k)' /\ Unborn(k)' /\ Expired(k)'
  BY <1>0, <1>5 DEF Stamp
<1>6. ASSUME NEW h \in Beats, Exit(h) PROVE Waiting(k)' /\ Checking(k)' /\ Unborn(k)' /\ Expired(k)'
  BY <1>0, <1>6, Zenon DEF Exit
<1>7. CASE Stop
  BY <1>0, <1>7, Zenon DEF Stop
<1>8. CASE MarkActivity
  BY <1>0, <1>8 DEF MarkActivity
<1>9. CASE RecvLocks
  BY <1>0, <1>9, Zenon DEF RecvLocks
<1>10. CASE Advance
  BY <1>0, <1>10 DEF Advance, Parked, Live
<1>11. CASE UNCHANGED vars
  BY <1>0, <1>11, Zenon DEF vars
<1> QED
  BY <1>1, <1>2, <1>3, <1>4, <1>5, <1>6, <1>7, <1>8, <1>9, <1>10, <1>11, Zenon DEF Next, Beat

\* The inductive invariant of the heartbeat tasks holds in every reachable
\* state: types, and what each task may find at its next check.
THEOREM Inductive == Spec => []IInv
  BY InitIInv, StepIInv, PTL DEF Spec

\* A heartbeat that waits for its tick finds the link idle for less than two
\* intervals (the loop of HeartbeatManager::start), for any number of
\* overlapping heartbeats and any delays by recv.
THEOREM CadenceHolds == Spec => []Cadence
<1>1. IInv => Cadence
  BY Zenon DEF IInv, Waiting, Settled, Cadence
<1> QED
  BY Inductive, <1>1, PTL

\* The timeout branch of HeartbeatManager::start is taken only in the instant
\* the heartbeat was started.
THEOREM TimeoutOnlyAtStartHolds == Spec => []TimeoutOnlyAtStart
<1>1. IInv => TimeoutOnlyAtStart
  BY Zenon DEF IInv, Expired, TimeoutOnlyAtStart
<1> QED
  BY Inductive, <1>1, PTL

-----------------------------------------------------------------------------
(* CircuitBreaker: the Go breaker never closes again *)

\* The Go breaker cannot be half-open: the call that would make it so is stuck.
BreakerInv == BreakerTypeOK /\ (build = "go" => circuit # "half")

LEMMA BreakerInitInv == BreakerInit => BreakerInv
  BY BreakerAssumption DEF BreakerInit, BreakerInv, BreakerTypeOK, Never

LEMMA BreakerStep ==
  ASSUME BreakerInv, [BreakerNext]_breaker
  PROVE  BreakerInv' /\ (build = "go" /\ circuit = "open" => circuit' = "open")
<1> USE BreakerAssumption DEF BreakerInv, BreakerTypeOK, Never, Go, Rust, Reached
<1>1. ASSUME NEW c \in Callers, Failure(c) \/ Success(c) \/ StampFailure(c) \/ Compare(c)
      PROVE  BreakerInv' /\ circuit' = circuit
  BY <1>1 DEF Failure, Success, StampFailure, Compare
<1>2. ASSUME NEW c \in Callers, GoAllow(c) \/ GoAnswer(c) \/ GoUpgrade(c)
      PROVE  BreakerInv' /\ circuit' = circuit
  BY <1>2, Zenon DEF GoAllow, GoAnswer, GoUpgrade
<1>3. ASSUME NEW c \in Callers, GoClose(c) \/ GoOpen(c)
      PROVE  BreakerInv' /\ (circuit = "open" => circuit' = "open")
  BY <1>3, Zenon DEF GoClose, GoOpen
<1>4. ASSUME NEW c \in Callers,
             RustAllow(c) \/ RustJudge(c) \/ RustCheck(c) \/ RustClose(c) \/ RustOpen(c)
      PROVE  BreakerInv' /\ build # "go"
  BY <1>4, Zenon DEF RustAllow, RustJudge, RustCheck, RustClose, RustOpen
<1>5. CASE BreakerTick \/ UNCHANGED breaker
  BY <1>5 DEF BreakerTick, breaker
<1> QED
  BY <1>1, <1>2, <1>3, <1>4, <1>5, Zenon DEF BreakerNext, Finish

\* Allow of the Go breaker cannot reach the half-open state it should enter
\* after the timeout, so the breaker never closes once it has opened.
THEOREM OpenIsFinalHolds == BreakerSpec => OpenIsFinal
<1>1. BreakerInv /\ [BreakerNext]_breaker => BreakerInv'
  BY BreakerStep, Zenon
<1>2. BreakerInv /\ [BreakerNext]_breaker
        => [build = "go" /\ circuit = "open" => circuit' = "open"]_breaker
  BY BreakerStep, Zenon
<1> QED
  BY BreakerInitInv, <1>1, <1>2, PTL DEF BreakerSpec, OpenIsFinal

-----------------------------------------------------------------------------
(* FlowControlManager: nobody gets more than the window *)

\* What is left and what was granted make up the window, unless it wrapped.
FlowInv ==
  /\ FlowTypeOK
  /\ spentData + availData = maxData
  /\ \A s \in Streams \ underflowed :
       IF s \in opened THEN spentStream[s] + availStreamData[s] = streamWindow[s]
       ELSE spentStream[s] = 0 /\ streamWindow[s] = maxStreamData

LEMMA FlowInitInv == FlowInit => FlowInv
  BY FlowAssumption DEF FlowInit, FlowInv, FlowTypeOK, Words

LEMMA FlowStep == FlowInv /\ [FlowNext]_flow => FlowInv'
<1> SUFFICES ASSUME FlowInv, [FlowNext]_flow PROVE FlowInv'
  BY Zenon
<1> USE FlowAssumption DEF FlowInv, FlowTypeOK, Words, connection, streams
<1>1. ASSUME NEW max \in Windows, UpdateMaxData(max) PROVE FlowInv'
  BY <1>1 DEF UpdateMaxData
<1>2. ASSUME NEW max \in Windows, NEW s \in Streams, UpdateMaxStreamData(s, max)
      PROVE  FlowInv'
  BY <1>2 DEF UpdateMaxStreamData
<1>3. ASSUME NEW n \in Amounts, ConsumeData(n) PROVE FlowInv'
  BY <1>3 DEF ConsumeData
<1>4. ASSUME NEW n \in Amounts, NEW s \in Streams, OpenStream(s, n) PROVE FlowInv'
  BY <1>4 DEF OpenStream, Minus64
<1>5. ASSUME NEW n \in Amounts, NEW s \in Streams, ConsumeStream(s, n) PROVE FlowInv'
  BY <1>5 DEF ConsumeStream
<1>6. CASE UNCHANGED flow
  BY <1>6, Zenon DEF flow
<1> QED
  BY <1>1, <1>2, <1>3, <1>4, <1>5, <1>6, Zenon DEF FlowNext

\* ConsumeData and ConsumeStreamData grant no more than the windows, for any
\* word size and any amounts, but for the streams whose window wrapped.
THEOREM WithinWindowHolds == FlowSpec => []WithinWindow
<1>1. FlowInv => WithinWindow
  BY FlowAssumption DEF FlowInv, FlowTypeOK, Words, WithinWindow
<1> QED
  BY FlowInitInv, FlowStep, <1>1, PTL DEF FlowSpec

-----------------------------------------------------------------------------
(* DDOSProtector: when it hangs and what it lets through *)

\* One call is stuck, and then no other call holds the mutex; a counter is over
\* its limit only while a call is stuck.
HangInv ==
  /\ ProtectorTypeOK
  /\ HangsOverLimit
  /\ Stuck => \A h \in Handlers : handling[h] \notin {"checking", "deleting"}
  /\ \A p \in Peers : count[p] <= maxRequestsPerWindow + 1

\* A window that is not over has counted the request that began it.  What was
\* allowed in an interval was counted in the present window, whose first request
\* came before the interval if the window is older, or in it and in at most one
\* earlier window, whose first request came before the interval; and the last
\* request allowed came before the end of the window.
IntervalInv(p) ==
  /\ windowAge[p] <= windowSize => count[p] >= 1
  /\ elapsed[p] <= windowSize =>
       /\ allowed[p] > 0 => windowAge[p] <= windowSize + elapsed[p] /\ count[p] >= 1
       /\ windowAge[p] > elapsed[p] /\ allowed[p] > 0 =>
            allowed[p] < count[p] /\ allowed[p] < maxRequestsPerWindow
       /\ windowAge[p] = elapsed[p] =>
            allowed[p] <= count[p] /\ allowed[p] <= maxRequestsPerWindow
       /\ windowAge[p] < elapsed[p] =>
            /\ allowed[p] < maxRequestsPerWindow + count[p]
            /\ allowed[p] < 2 * maxRequestsPerWindow

ProtectorInv == HangInv /\ \A p \in Peers : IntervalInv(p)

LEMMA ProtectorInitInv == ProtectorInit => ProtectorInv
<1> SUFFICES ASSUME ProtectorInit PROVE ProtectorInv
  BY Zenon
<1> USE ProtectorAssumption DEF ProtectorInit, NoBlock, Stale
<1>1. ProtectorTypeOK
  <2>1. blockedIPs \in [Peers -> NoBlock..BlockTime]
    BY DEF ProtectorInit
  <2>2. windowAge \in [Peers -> 0..Stale] /\ elapsed \in [Peers -> 0..windowSize + 1]
    BY DEF ProtectorInit
  <2>3. count \in [Peers -> Nat] /\ allowed \in [Peers -> Nat] /\ crashed \in BOOLEAN
    BY Zenon DEF ProtectorInit
  <2>4. handling \in [Handlers -> {"idle", "checking", "deleting", "passed", "stuck"}]
    BY Zenon DEF ProtectorInit
  <2> QED
    BY <2>1, <2>2, <2>3, <2>4, Zenon DEF ProtectorTypeOK
<1>2. ~Stuck /\ \A p \in Peers : count[p] = 0
  BY Zenon DEF Stuck
<1>3. ASSUME NEW p \in Peers PROVE IntervalInv(p)
  BY DEF IntervalInv
<1> QED
  BY <1>1, <1>2, <1>3 DEF ProtectorInv, HangInv, HangsOverLimit

LEMMA ProtectorTypeStep == ProtectorTypeOK /\ [ProtectorNext]_protector => ProtectorTypeOK'
<1> SUFFICES ASSUME ProtectorTypeOK, [ProtectorNext]_protector PROVE ProtectorTypeOK'
  BY Zenon
<1> USE ProtectorAssumption DEF ProtectorTypeOK, NoBlock, Stale, blocks, counters, interval, Step
<1>1. ASSUME NEW h \in Handlers, NEW p \in Peers, Arrive(h, p) PROVE ProtectorTypeOK'
  BY <1>1, Zenon DEF Arrive
<1>2. ASSUME NEW h \in Handlers, CheckBlocked(h) PROVE ProtectorTypeOK'
  BY <1>2, Zenon DEF CheckBlocked
<1>3. ASSUME NEW h \in Handlers, DeleteBlock(h) \/ LimiterRefuses(h) PROVE ProtectorTypeOK'
  BY <1>3 DEF DeleteBlock, LimiterRefuses
<1>4. ASSUME NEW h \in Handlers, CountRequest(h) PROVE ProtectorTypeOK'
  BY <1>4 DEF CountRequest, Counted, Fresh
<1>5. CASE MapRace
  BY <1>5, Zenon DEF MapRace
<1>6. ASSUME NEW p \in Peers, UnblockIP(p) \/ Observe(p) PROVE ProtectorTypeOK'
  BY <1>6 DEF UnblockIP, Observe
<1>7. CASE ddosCleanup
  BY <1>7 DEF ddosCleanup
<1>8. CASE ProtectorTick
  BY <1>8, SMTT(20) DEF ProtectorTick
<1>9. CASE UNCHANGED protector
  BY <1>9, Zenon DEF protector
<1> QED
  BY <1>1, <1>2, <1>3, <1>4, <1>5, <1>6, <1>7, <1>8, <1>9, Zenon DEF ProtectorNext, Proceed

LEMMA HangStep == HangInv /\ [ProtectorNext]_protector => HangInv'
<1> SUFFICES ASSUME HangInv, [ProtectorNext]_protector PROVE HangInv'
  BY Zenon
<1>0. ProtectorTypeOK /\ ProtectorTypeOK'
  BY ProtectorTypeStep, Zenon DEF HangInv
<1> USE ProtectorAssumption DEF blocks, counters, interval, Step
<1>1. ASSUME NEW h \in Handlers, NEW p \in Peers, Arrive(h, p) PROVE HangInv'
  BY <1>0, <1>1, Zenon DEF Arrive, HangInv, HangsOverLimit, Stuck, ProtectorTypeOK
<1>2. ASSUME NEW h \in Handlers, CheckBlocked(h) \/ DeleteBlock(h) PROVE HangInv'
  BY <1>0, <1>2, Zenon DEF CheckBlocked, DeleteBlock, HangInv, HangsOverLimit, Stuck, ProtectorTypeOK
<1>3. ASSUME NEW h \in Handlers, LimiterRefuses(h) PROVE HangInv'
  BY <1>0, <1>3, Zenon DEF LimiterRefuses, CanLock, HangInv, HangsOverLimit, Stuck, ProtectorTypeOK
<1>4. ASSUME NEW h \in Handlers, CountRequest(h) PROVE HangInv'
  BY <1>0, <1>4 DEF CountRequest, Counted, CanLock, HangInv, HangsOverLimit, Stuck, ProtectorTypeOK
<1>5. CASE MapRace \/ ProtectorTick \/ UNCHANGED protector
  BY <1>0, <1>5, Zenon DEF MapRace, ProtectorTick, protector, HangInv, HangsOverLimit, Stuck
<1>6. ASSUME NEW p \in Peers, Observe(p) PROVE HangInv'
  BY <1>0, <1>6, Zenon DEF Observe, HangInv, HangsOverLimit, Stuck
<1>7. ASSUME CanLock, handling' = handling, \A p \in Peers : count'[p] \in {0, count[p]}
      PROVE  HangInv'
  BY <1>0, <1>7 DEF CanLock, HangInv, HangsOverLimit, Stuck, ProtectorTypeOK
<1>8. ASSUME NEW p \in Peers, UnblockIP(p) PROVE HangInv'
  BY <1>0, <1>7, <1>8, Zenon DEF UnblockIP, ProtectorTypeOK
<1>9. CASE ddosCleanup
  BY <1>0, <1>7, <1>9, Zenon DEF ddosCleanup, ProtectorTypeOK
<1> QED
  BY <1>1, <1>2, <1>3, <1>4, <1>5, <1>6, <1>8, <1>9, Zenon DEF ProtectorNext, Proceed

LEMMA IntervalStep ==
  ASSUME HangInv, NEW q \in Peers, IntervalInv(q), [ProtectorNext]_protector
  PROVE  IntervalInv(q)'
<1>0. ProtectorTypeOK /\ ProtectorTypeOK'
  BY ProtectorTypeStep, Zenon DEF HangInv
<1> USE ProtectorAssumption DEF blocks, counters, interval
<1>1. ASSUME UNCHANGED <<counters, interval>> PROVE IntervalInv(q)'
  BY <1>1, Zenon DEF IntervalInv
<1>2. ASSUME NEW h \in Handlers, NEW p \in Peers, Arrive(h, p) PROVE IntervalInv(q)'
  BY <1>1, <1>2, Zenon DEF Arrive
<1>3. ASSUME NEW h \in Handlers, CheckBlocked(h) \/ DeleteBlock(h) \/ LimiterRefuses(h)
      PROVE  IntervalInv(q)'
  BY <1>1, <1>3, Zenon DEF CheckBlocked, DeleteBlock, LimiterRefuses
<1>4. ASSUME NEW h \in Handlers, CountRequest(h) PROVE IntervalInv(q)'
  <2>1. CASE peer[h] # q
    BY <1>0, <1>4, <2>1 DEF CountRequest, IntervalInv, ProtectorTypeOK
  <2>2. CASE peer[h] = q
    <3>1. /\ count'[q] = Counted(q) /\ elapsed' = elapsed
          /\ windowAge'[q] = IF Fresh(q) THEN windowAge[q] ELSE 0
          /\ \/ count'[q] > maxRequestsPerWindow /\ allowed' = allowed
             \/ count'[q] <= maxRequestsPerWindow /\ allowed'[q] = allowed[q] + 1
      BY <1>0, <1>4, <2>2 DEF CountRequest, Counted, ProtectorTypeOK
    <3>2. /\ count[q] \in Nat /\ windowAge[q] \in Nat
          /\ allowed[q] \in Nat /\ elapsed[q] \in Nat
      BY <1>0 DEF ProtectorTypeOK, Stale
    <3>3. count[q] <= maxRequestsPerWindow
      BY <1>0, <1>4, SMTT(20) DEF CountRequest, CanLock, HangInv, HangsOverLimit, Stuck, ProtectorTypeOK
    <3>4. CASE Fresh(q)
      <4>1. count'[q] = count[q] + 1 /\ windowAge'[q] = windowAge[q] /\ windowAge[q] <= windowSize
        BY <3>1, <3>4, Zenon DEF Counted, Fresh
      <4> QED
        BY <3>1, <3>2, <3>3, <4>1, SMTT(20) DEF IntervalInv
    <3>5. CASE ~Fresh(q)
      BY <3>1, <3>2, <3>3, <3>5, SMTT(20) DEF IntervalInv, Counted, Fresh
    <3> QED
      BY <3>4, <3>5, Zenon
  <2> QED
    BY <2>1, <2>2, Zenon
<1>5. CASE MapRace \/ UNCHANGED protector
  BY <1>1, <1>5, Zenon DEF MapRace, protector
<1>6. ASSUME NEW p \in Peers, UnblockIP(p) PROVE IntervalInv(q)'
  BY <1>0, <1>6 DEF UnblockIP, IntervalInv, ProtectorTypeOK, Stale
<1>7. ASSUME NEW p \in Peers, Observe(p) PROVE IntervalInv(q)'
  BY <1>0, <1>7 DEF Observe, IntervalInv, ProtectorTypeOK, Stale
<1>8. CASE ddosCleanup
  BY <1>0, <1>8 DEF ddosCleanup, IntervalInv, ProtectorTypeOK, Stale
<1>9. CASE ProtectorTick
  BY <1>0, <1>9, SMTT(20) DEF ProtectorTick, IntervalInv, ProtectorTypeOK, Stale
<1> QED
  BY <1>2, <1>3, <1>4, <1>5, <1>6, <1>7, <1>8, <1>9, Zenon DEF ProtectorNext, Proceed

LEMMA ProtectorStep == ProtectorInv /\ [ProtectorNext]_protector => ProtectorInv'
  BY HangStep, IntervalStep, Zenon DEF ProtectorInv

\* Allow hangs in BlockIP exactly when a counter exceeds its limit, for any
\* number of handlers and addresses.
THEOREM HangsOverLimitHolds == ProtectorSpec => []HangsOverLimit
<1>1. ProtectorInv => HangsOverLimit
  BY Zenon DEF ProtectorInv, HangInv
<1> QED
  BY ProtectorInitInv, ProtectorStep, <1>1, PTL DEF ProtectorSpec

\* Allow admits less than twice the limit in any interval of the length of a
\* window, for any limit, any window and any number of handlers.
THEOREM SlidingLimitHolds == ProtectorSpec => []SlidingLimit
<1>1. ProtectorInv => SlidingLimit
  <2> SUFFICES ASSUME ProtectorInv, NEW p \in Peers, elapsed[p] <= windowSize
               PROVE  allowed[p] < 2 * maxRequestsPerWindow
    BY Zenon DEF SlidingLimit
  <2> QED
    BY ProtectorAssumption DEF ProtectorInv, HangInv, IntervalInv, ProtectorTypeOK, Stale
<1> QED
  BY ProtectorInitInv, ProtectorStep, <1>1, PTL DEF ProtectorSpec

-----------------------------------------------------------------------------
(* BackPressureController: the usage is what the writers hold *)

\* Types; what a writer is about to release it has acquired, and one that
\* acquires holds nothing; a release has the current usage loaded unless
\* another call took effect meanwhile.
PressureTypes ==
  /\ usage \in Nat /\ held \in Nat
  /\ doing \in [Writers -> {"idle", "acquire", "release", "resume"}]
  /\ seen \in [Writers -> Nat] /\ amount \in [Writers -> Nat] /\ mine \in [Writers -> Nat]

Writing(w) ==
  /\ doing[w] = "acquire" => mine[w] = 0
  /\ doing[w] = "release" => amount[w] <= mine[w] /\ (overlapped \/ seen[w] = usage)

\* What the writers hold lies side by side below held: the part of w from
\* at[w] to at[w] + mine[w].
Packed(at) ==
  /\ \A w \in Writers : mine[w] > 0 => at[w] + mine[w] <= held
  /\ \A v, w \in Writers : v # w /\ mine[v] > 0 /\ mine[w] > 0 =>
       at[v] + mine[v] <= at[w] \/ at[w] + mine[w] <= at[v]

Parts == [Writers -> Nat]

PressureInv ==
  /\ PressureTypes
  /\ \A w \in Writers : Writing(w)
  /\ \E at \in Parts : Packed(at)
  /\ UsageExact

LEMMA PressureInitInv == PressureInit => PressureInv
<1> SUFFICES ASSUME PressureInit PROVE PressureInv
  BY Zenon
<1>1. PressureTypes
  BY Zenon DEF PressureInit, PressureTypes
<1>2. \A w \in Writers : Writing(w)
  BY Zenon DEF PressureInit, Writing
<1>3. PICK at \in Parts : at = [w \in Writers |-> 0]
  BY Zenon DEF Parts
<1>4. Packed(at)
  BY DEF PressureInit, Packed
<1>5. UsageExact
  BY Zenon DEF PressureInit, UsageExact
<1> QED
  BY <1>1, <1>2, <1>4, <1>5, Zenon DEF PressureInv

\* A writer that held nothing puts its part on top.
LEMMA PackedGrows ==
  ASSUME PressureTypes, NEW at \in Parts, Packed(at), NEW w \in Writers, NEW a \in Nat,
         mine[w] = 0, mine' = [mine EXCEPT ![w] = a], held' = held + a
  PROVE  \E b \in Parts : Packed(b)'
<1>1. PICK b \in Parts : b = [at EXCEPT ![w] = held]
  BY Zenon DEF Parts, PressureTypes
<1>2. \A v \in Writers : /\ mine[v] \in Nat /\ at[v] \in Nat /\ held \in Nat
                         /\ mine'[v] = (IF v = w THEN a ELSE mine[v])
                         /\ b[v] = (IF v = w THEN held ELSE at[v])
  BY <1>1, Zenon DEF PressureTypes, Parts
<1>3. Packed(b)'
  BY <1>2 DEF Packed
<1> QED
  BY <1>3, Zenon

\* A release takes from the top of its part, and the parts above move down.
LEMMA PackedShrinks ==
  ASSUME PressureTypes, NEW at \in Parts, Packed(at), NEW w \in Writers, NEW a \in Nat,
         a <= mine[w], mine' = [mine EXCEPT ![w] = @ - a], held' = held - a
  PROVE  held' \in Nat /\ \E b \in Parts : Packed(b)'
<1>1. CASE a = 0
  <2>1. mine' = mine /\ held' = held
    BY <1>1 DEF PressureTypes
  <2> QED
    BY <2>1 DEF Packed, PressureTypes
<1>2. CASE a > 0
  <2>2. PICK b \in Parts : \A v \in Writers :
          b[v] = IF at[v] >= a /\ at[v] > at[w] THEN at[v] - a ELSE at[v]
    <3>1. [v \in Writers |-> IF at[v] >= a /\ at[v] > at[w] THEN at[v] - a ELSE at[v]] \in Parts
      BY DEF Parts
    <3> QED
      BY <3>1, Zenon
  <2>3. \A v \in Writers : /\ mine[v] \in Nat /\ at[v] \in Nat
                           /\ mine'[v] = (IF v = w THEN mine[v] - a ELSE mine[v])
    BY Zenon DEF PressureTypes, Parts
  <2>4. mine[w] > 0 /\ at[w] + mine[w] <= held /\ held \in Nat /\ held' \in Nat
    BY <1>2, <2>3 DEF Packed, PressureTypes
  <2>5. ASSUME NEW v \in Writers, mine'[v] > 0
        PROVE  b[v] + mine'[v] <= held'
    BY <1>2, <2>2, <2>3, <2>4, <2>5 DEF Packed
  <2>6. ASSUME NEW u \in Writers, NEW v \in Writers, u # v, mine'[u] > 0, mine'[v] > 0
        PROVE  b[u] + mine'[u] <= b[v] \/ b[v] + mine'[v] <= b[u]
    BY <1>2, <2>2, <2>3, <2>4, <2>6 DEF Packed
  <2>7. Packed(b)'
    BY <2>5, <2>6, Zenon DEF Packed
  <2> QED
    BY <2>4, <2>7, Zenon
<1> QED
  BY <1>1, <1>2

LEMMA PressureStep == PressureInv /\ [PressureNext]_pressure => PressureInv'
<1> SUFFICES ASSUME PressureInv, [PressureNext]_pressure PROVE PressureInv'
  BY Zenon
<1>a. /\ PressureTypes /\ UsageExact /\ \A w \in Writers : Writing(w)
      /\ \E at \in Parts : Packed(at)
  BY Zenon DEF PressureInv
<1>b. ASSUME UNCHANGED <<mine, held>> PROVE \E b \in Parts : Packed(b)'
  BY <1>a, <1>b, Zenon DEF Packed
<1>1. ASSUME NEW w \in Writers, NEW a \in Sizes, AcquireDisabled(w, a) PROVE PressureInv'
  <2>1. /\ mine[w] = 0 /\ doing[w] = "idle" /\ mine' = [mine EXCEPT ![w] = a] /\ held' = held + a
        /\ uncounted' /\ UNCHANGED <<usage, doing, seen, amount, overlapped>>
    BY <1>1, Zenon DEF AcquireDisabled, writing
  <2>2. a \in Nat
    BY PressureAssumption, Zenon
  <2>3. PressureTypes'
    BY <1>a, <2>1, <2>2 DEF PressureTypes
  <2>4. \A v \in Writers : Writing(v)'
    BY <1>a, <2>1, Zenon DEF PressureTypes, Writing
  <2>5. \E b \in Parts : Packed(b)'
    BY <1>a, <2>1, <2>2, PackedGrows, Zenon
  <2> QED
    BY <2>1, <2>3, <2>4, <2>5, Zenon DEF PressureInv, UsageExact
<1>2. ASSUME NEW w \in Writers, NEW a \in Sizes, TryAcquire(w, a) \/ Release(w, a)
      PROVE  PressureInv'
  <2>1. /\ doing[w] = "idle" /\ seen' = [seen EXCEPT ![w] = usage]
        /\ amount' = [amount EXCEPT ![w] = a]
        /\ \/ doing' = [doing EXCEPT ![w] = "acquire"] /\ mine[w] = 0
           \/ doing' = [doing EXCEPT ![w] = "release"] /\ a <= mine[w]
        /\ UNCHANGED <<usage, mine, held, overlapped, uncounted>>
    BY <1>2, Zenon DEF TryAcquire, Release, Load
  <2>2. a \in Nat
    BY PressureAssumption, Zenon
  <2>3. PressureTypes'
    BY <1>a, <2>1, <2>2, Zenon DEF PressureTypes
  <2>4. \A v \in Writers : Writing(v)'
    BY <1>a, <2>1, Zenon DEF PressureTypes, Writing
  <2> QED
    BY <1>a, <1>b, <2>1, <2>3, <2>4, Zenon DEF PressureInv, UsageExact
<1>3. ASSUME NEW w \in Writers, Refuse(w) \/ Resume(w) PROVE PressureInv'
  <2>1. /\ doing' = [doing EXCEPT ![w] = "idle"] /\ seen' = [seen EXCEPT ![w] = 0]
        /\ amount' = [amount EXCEPT ![w] = 0]
        /\ UNCHANGED <<usage, mine, held, overlapped, uncounted>>
    BY <1>3, Zenon DEF Refuse, Resume, Done
  <2>2. PressureTypes'
    BY <1>a, <2>1, Zenon DEF PressureTypes
  <2>3. \A v \in Writers : Writing(v)'
    BY <1>a, <2>1, Zenon DEF PressureTypes, Writing
  <2> QED
    BY <1>a, <1>b, <2>1, <2>2, <2>3, Zenon DEF PressureInv, UsageExact
<1>4. ASSUME NEW w \in Writers, Grant(w) PROVE PressureInv'
  <2>1. /\ doing[w] = "acquire" /\ usage' = usage + amount[w]
        /\ mine' = [mine EXCEPT ![w] = amount[w]] /\ held' = held + amount[w]
        /\ doing' = [doing EXCEPT ![w] = "idle"] /\ seen' = [seen EXCEPT ![w] = 0]
        /\ amount' = [amount EXCEPT ![w] = 0] /\ uncounted' = uncounted
        /\ overlapped' = (overlapped \/ OtherReleases(w))
    BY <1>4, Zenon DEF Grant, Done
  <2>2. mine[w] = 0 /\ amount[w] \in Nat
    BY <1>a, <2>1, Zenon DEF PressureTypes, Writing
  <2>3. PressureTypes'
    BY <1>a, <2>1, <2>2 DEF PressureTypes
  <2>4. \A v \in Writers : Writing(v)'
    BY <1>a, <2>1, Zenon DEF PressureTypes, Writing, OtherReleases
  <2>5. \E b \in Parts : Packed(b)'
    BY <1>a, <2>1, <2>2, PackedGrows, Zenon
  <2>6. UsageExact'
    BY <1>a, <2>1, <2>2, Zenon DEF UsageExact, PressureTypes
  <2> QED
    BY <2>3, <2>4, <2>5, <2>6, Zenon DEF PressureInv
<1>5. ASSUME NEW w \in Writers, Store(w) PROVE PressureInv'
  <2>1. /\ doing[w] = "release" /\ usage' = Minus(seen[w], amount[w])
        /\ mine' = [mine EXCEPT ![w] = @ - amount[w]] /\ held' = held - amount[w]
        /\ doing' = [doing EXCEPT ![w] = "resume"] /\ seen' = [seen EXCEPT ![w] = usage']
        /\ amount' = [amount EXCEPT ![w] = 0] /\ uncounted' = uncounted
        /\ overlapped' = (overlapped \/ OtherReleases(w))
    BY <1>5, Zenon DEF Store, Resumed
  <2>2. /\ amount[w] <= mine[w] /\ amount[w] \in Nat /\ seen[w] \in Nat
        /\ overlapped \/ seen[w] = usage
    BY <1>a, <2>1, Zenon DEF PressureTypes, Writing
  <2>3. held' \in Nat /\ \E b \in Parts : Packed(b)'
    BY <1>a, <2>1, <2>2, PackedShrinks, Zenon
  <2>4. usage' \in Nat /\ (seen[w] >= amount[w] => usage' = seen[w] - amount[w])
    BY <2>1, <2>2 DEF Minus
  <2>5. PressureTypes'
    BY <1>a, <2>1, <2>2, <2>3, <2>4 DEF PressureTypes
  <2>6. \A v \in Writers : Writing(v)'
    BY <1>a, <2>1, Zenon DEF PressureTypes, Writing, OtherReleases
  <2>7. UsageExact'
    <3>1. CASE overlapped \/ uncounted
      BY <2>1, <3>1, Zenon DEF UsageExact
    <3>2. CASE ~(overlapped \/ uncounted)
      <4>1. seen[w] = held /\ held \in Nat
        BY <1>a, <2>2, <3>2, Zenon DEF UsageExact, PressureTypes
      <4>2. amount[w] <= held
        BY <2>1, <2>2, <2>3, <4>1
      <4>3. usage' = held'
        BY <2>1, <2>2, <2>4, <4>1, <4>2, Zenon
      <4> QED
        BY <4>3, Zenon DEF UsageExact
    <3> QED
      BY <3>1, <3>2, Zenon
  <2> QED
    BY <2>3, <2>5, <2>6, <2>7, Zenon DEF PressureInv
<1>6. CASE Switch \/ UNCHANGED pressure
  <2>1. UNCHANGED <<usage, doing, seen, amount, mine, held, overlapped, uncounted>>
    BY <1>6, Zenon DEF Switch, pressure, writing
  <2> QED
    BY <1>a, <1>b, <2>1, Zenon DEF PressureInv, PressureTypes, Writing, UsageExact
<1> QED
  BY <1>1, <1>2, <1>3, <1>4, <1>5, <1>6, Zenon DEF PressureNext

\* The counter of the client's BackPressureController equals what its writers
\* hold, until another call falls between the load and the store of a release
\* or something is acquired while it is disabled, for any number of writers,
\* any amounts and any marks.
THEOREM UsageExactHolds == PressureSpec => []UsageExact
<1>1. PressureInv => UsageExact
  BY Zenon DEF PressureInv
<1> QED
  BY PressureInitInv, PressureStep, <1>1, PTL DEF PressureSpec

-----------------------------------------------------------------------------
(***************************************************************************)
(* FrameReader: the readers reassemble the stream.  First, what is cut out *)
(* of a sequence.                                                          *)
(***************************************************************************)

LEMMA Cut ==
  ASSUME NEW S, NEW s \in Seq(S), NEW a \in Nat, NEW b \in Nat, a <= b, b <= Len(s)
  PROVE  /\ SubSeq(s, a + 1, b) \in Seq(S) /\ Len(SubSeq(s, a + 1, b)) = b - a
         /\ \A i \in 1..(b - a) : SubSeq(s, a + 1, b)[i] = s[a + i]
  OBVIOUS

LEMMA Prefix ==
  ASSUME NEW S, NEW s \in Seq(S), NEW z \in Nat, z <= Len(s)
  PROVE  /\ SubSeq(s, 1, z) \in Seq(S) /\ Len(SubSeq(s, 1, z)) = z
         /\ \A i \in 1..z : SubSeq(s, 1, z)[i] = s[i]
  OBVIOUS

LEMMA Same ==
  ASSUME NEW S, NEW s \in Seq(S), NEW t \in Seq(S), Len(s) = Len(t),
         \A i \in 1..Len(s) : s[i] = t[i]
  PROVE  s = t
  OBVIOUS

LEMMA Joined ==
  ASSUME NEW S, NEW s \in Seq(S), NEW t \in Seq(S)
  PROVE  /\ s \o t \in Seq(S) /\ Len(s \o t) = Len(s) + Len(t)
         /\ \A i \in 1..Len(s) : (s \o t)[i] = s[i]
         /\ \A i \in 1..Len(t) : (s \o t)[Len(s) + i] = t[i]
  OBVIOUS

\* Adjacent parts make one part.
LEMMA CutJoined ==
  ASSUME NEW S, NEW s \in Seq(S), NEW a \in Nat, NEW b \in Nat, NEW c \in Nat,
         a <= b, b <= c, c <= Len(s)
  PROVE  SubSeq(s, a + 1, b) \o SubSeq(s, b + 1, c) = SubSeq(s, a + 1, c)
<1> DEFINE p == SubSeq(s, a + 1, b)
           q == SubSeq(s, b + 1, c)
           r == SubSeq(s, a + 1, c)
<1>1. /\ p \in Seq(S) /\ Len(p) = b - a /\ \A i \in 1..(b - a) : p[i] = s[a + i]
      /\ q \in Seq(S) /\ Len(q) = c - b /\ \A i \in 1..(c - b) : q[i] = s[b + i]
      /\ r \in Seq(S) /\ Len(r) = c - a /\ \A i \in 1..(c - a) : r[i] = s[a + i]
  <2>1. b <= Len(s) /\ a <= c
    OBVIOUS
  <2> QED
    BY <2>1, Cut
<1> HIDE DEF p, q, r
<1>2. /\ p \o q \in Seq(S) /\ Len(p \o q) = Len(p) + Len(q)
      /\ \A i \in 1..Len(p) : (p \o q)[i] = p[i]
      /\ \A i \in 1..Len(q) : (p \o q)[Len(p) + i] = q[i]
  <2>1. p \in Seq(S) /\ q \in Seq(S)
    BY <1>1, Zenon
  <2> QED
    BY <2>1, Joined
<1>3. Len(p \o q) = Len(r)
  BY <1>1, <1>2
<1>4. ASSUME NEW i \in 1..Len(p \o q) PROVE (p \o q)[i] = r[i]
  <2>1. i \in 1..(c - a)
    BY <1>1, <1>3, Zenon
  <2>2. CASE i <= b - a
    <3>1. i \in 1..(b - a)
      BY <2>1, <2>2
    <3> QED
      BY <1>1, <1>2, <2>1, <3>1, Zenon
  <2>3. CASE ~(i <= b - a)
    <3>1. PICK j \in 1..(c - b) : i = (b - a) + j /\ b + j = a + i
      <4>1. i - (b - a) \in 1..(c - b) /\ i = (b - a) + (i - (b - a)) /\ b + (i - (b - a)) = a + i
        BY <2>1, <2>3
      <4> QED
        BY <4>1, Zenon
    <3>2. (p \o q)[i] = q[j]
      BY <1>1, <1>2, <3>1, Zenon
    <3> QED
      BY <1>1, <2>1, <3>1, <3>2, Zenon
  <2> QED
    BY <2>2, <2>3, Zenon
<1> QED
  BY <1>1, <1>2, <1>3, <1>4, Same, Zenon DEF p, q, r

\* A part of a part, and a part of what is not at the end.
LEMMA CutTwice ==
  ASSUME NEW S, NEW s \in Seq(S), NEW a \in Nat, NEW b \in Nat, a <= b, b <= Len(s),
         NEW k \in 0..(b - a)
  PROVE  SubSeq(SubSeq(s, a + 1, b), k + 1, b - a) = SubSeq(s, a + k + 1, b)
<1> DEFINE p == SubSeq(s, a + 1, b)
           q == SubSeq(p, k + 1, b - a)
           r == SubSeq(s, (a + k) + 1, b)
<1>0. /\ a + k \in Nat /\ a + k <= b /\ b - a \in Nat /\ k \in Nat /\ k <= b - a
      /\ b - (a + k) = (b - a) - k
  OBVIOUS
<1>1. /\ p \in Seq(S) /\ Len(p) = b - a /\ \A i \in 1..(b - a) : p[i] = s[a + i]
      /\ r \in Seq(S) /\ Len(r) = b - (a + k) /\ \A i \in 1..(b - (a + k)) : r[i] = s[(a + k) + i]
  <2>1. p \in Seq(S) /\ Len(p) = b - a /\ \A i \in 1..(b - a) : p[i] = s[a + i]
    BY Cut, Zenon
  <2>2. PICK c \in Nat : c = a + k /\ c <= b
    BY <1>0, Zenon
  <2>3. /\ SubSeq(s, c + 1, b) \in Seq(S) /\ Len(SubSeq(s, c + 1, b)) = b - c
        /\ \A i \in 1..(b - c) : SubSeq(s, c + 1, b)[i] = s[c + i]
    BY <2>2, Cut
  <2> QED
    BY <2>1, <2>2, <2>3, Zenon
<1>2. /\ q \in Seq(S) /\ Len(q) = (b - a) - k /\ \A i \in 1..((b - a) - k) : q[i] = p[k + i]
  <2> HIDE DEF p
  <2>1. b - a <= Len(p)
    BY <1>0, <1>1
  <2> QED
    <3>1. PICK c \in Nat : c = b - a /\ k <= c /\ c <= Len(p)
      BY <1>0, <2>1, Zenon
    <3>2. p \in Seq(S) /\ k \in Nat
      BY <1>0, <1>1, Zenon
    <3>3. /\ SubSeq(p, k + 1, c) \in Seq(S) /\ Len(SubSeq(p, k + 1, c)) = c - k
          /\ \A i \in 1..(c - k) : SubSeq(p, k + 1, c)[i] = p[k + i]
      BY <3>1, <3>2, Cut
    <3> QED
      BY <3>1, <3>3, Zenon
<1> HIDE DEF p, q, r
<1>3. ASSUME NEW i \in 1..((b - a) - k) PROVE q[i] = r[i]
  <2>1. k + i \in 1..(b - a) /\ a + (k + i) = (a + k) + i
    OBVIOUS
  <2> QED
    BY <1>0, <1>1, <1>2, <2>1, Zenon
<1>4. q = r
  BY <1>0, <1>1, <1>2, <1>3, Same, Zenon
<1> QED
  BY <1>4, Zenon DEF p, q, r

LEMMA CutBefore ==
  ASSUME NEW S, NEW s \in Seq(S), NEW t \in Seq(S), NEW a \in Nat, NEW b \in Nat,
         a <= b, b <= Len(s)
  PROVE  SubSeq(s \o t, a + 1, b) = SubSeq(s, a + 1, b)
<1> DEFINE u == s \o t
           p == SubSeq(u, a + 1, b)
           q == SubSeq(s, a + 1, b)
<1>0. /\ u \in Seq(S) /\ Len(u) = Len(s) + Len(t) /\ \A i \in 1..Len(s) : u[i] = s[i]
  BY Joined, Zenon
<1> HIDE DEF u
<1>1. b <= Len(u)
  BY <1>0
<1>2. /\ p \in Seq(S) /\ Len(p) = b - a /\ \A i \in 1..(b - a) : p[i] = u[a + i]
      /\ q \in Seq(S) /\ Len(q) = b - a /\ \A i \in 1..(b - a) : q[i] = s[a + i]
  <2>1. u \in Seq(S)
    BY <1>0, Zenon
  <2>2. /\ p \in Seq(S) /\ Len(p) = b - a /\ \A i \in 1..(b - a) : p[i] = u[a + i]
    BY <1>1, <2>1, Cut, Zenon
  <2>3. /\ q \in Seq(S) /\ Len(q) = b - a /\ \A i \in 1..(b - a) : q[i] = s[a + i]
    BY Cut, Zenon
  <2> QED
    BY <2>2, <2>3, Zenon
<1> HIDE DEF p, q
<1>3. ASSUME NEW i \in 1..(b - a) PROVE p[i] = q[i]
  <2>1. a + i \in 1..Len(s)
    OBVIOUS
  <2> QED
    BY <1>0, <1>2, <2>1, Zenon
<1>4. p = q
  BY <1>2, <1>3, Same, Zenon
<1> QED
  BY <1>4, Zenon DEF p, q, u

(***************************************************************************)
(* The stream: frame n lies on the wire from start[n] to start[n + 1].     *)
(***************************************************************************)
Bytes == [frame : Nat, offset : Nat]

StreamInv ==
  /\ sent \in Seq(Frames) /\ wire \in Seq(Bytes) /\ start \in Seq(Nat)
  /\ Len(start) = Len(sent) + 1 /\ start[1] = 0 /\ start[Len(sent) + 1] = Len(wire)
  /\ \A n \in 1..Len(start) : start[n] <= Len(wire)
  /\ \A n \in 1..Len(sent) : start[n + 1] = start[n] + Size(sent[n])
  /\ \A n \in 1..Len(sent) : \A i \in 1..Size(sent[n]) :
       wire[start[n] + i] = [frame |-> n, offset |-> i - 1]

LEMMA FrameTypes ==
  ASSUME NEW f \in Frames
  PROVE  /\ f.kind \in Kinds /\ f.len \in Nat /\ HeaderSize \in Nat /\ HeaderSize > 0
         /\ Size(f) \in Nat /\ Size(f) >= HeaderSize /\ Size(f) = HeaderSize + f.len
         /\ MaxLength \in Nat
<1>1. f \in [kind : Kinds, len : Nat]
  BY ReaderAssumption, Zenon
<1> QED
  BY <1>1, ReaderAssumption DEF Size

LEMMA MarshalItems ==
  ASSUME NEW f \in Frames, NEW n \in Nat
  PROVE  /\ Marshal(n, f) \in Seq(Bytes) /\ Len(Marshal(n, f)) = Size(f)
         /\ \A i \in 1..Size(f) : Marshal(n, f)[i] = [frame |-> n, offset |-> i - 1]
<1>1. PICK k \in Nat : k = Size(f)
  BY FrameTypes, Zenon
<1>2. \A i \in 1..k : [frame |-> n, offset |-> i - 1] \in Bytes
  BY DEF Bytes
<1>3. /\ [i \in 1..k |-> [frame |-> n, offset |-> i - 1]] \in Seq(Bytes)
      /\ Len([i \in 1..k |-> [frame |-> n, offset |-> i - 1]]) = k
  BY <1>2
<1>4. Marshal(n, f) = [i \in 1..k |-> [frame |-> n, offset |-> i - 1]]
  BY <1>1, Zenon DEF Marshal
<1> QED
  BY <1>1, <1>3, <1>4, Zenon

\* What a position in the stream is.
LEMMA StreamTypes ==
  ASSUME StreamInv
  PROVE  /\ Len(sent) \in Nat /\ Len(wire) \in Nat
         /\ \A n \in 1..Len(sent) : sent[n] \in Frames
         /\ \A n \in 1..(Len(sent) + 1) : start[n] \in Nat /\ start[n] <= Len(wire)
  BY DEF StreamInv

LEMMA StreamInit == ReaderInit => StreamInv
<1> SUFFICES ASSUME ReaderInit PROVE StreamInv
  BY Zenon
<1>1. /\ sent \in Seq(Frames) /\ wire \in Seq(Bytes) /\ start \in Seq(Nat)
      /\ Len(start) = 1 /\ start[1] = 0 /\ Len(sent) = 0 /\ Len(wire) = 0
  BY DEF ReaderInit
<1> QED
  BY <1>1 DEF StreamInv

\* Writing changes nothing of what is on the wire.
LEMMA WriteKeeps ==
  ASSUME StreamInv, NEW f \in Frames, Write(f)
  PROVE  /\ sent' \in Seq(Frames) /\ wire' \in Seq(Bytes) /\ start' \in Seq(Nat)
         /\ Len(sent') = Len(sent) + 1 /\ sent'[Len(sent) + 1] = f
         /\ \A n \in 1..Len(sent) : sent'[n] = sent[n]
         /\ Len(start') = Len(sent) + 2 /\ start'[Len(sent) + 2] = Len(wire) + Size(f)
         /\ \A n \in 1..(Len(sent) + 1) : start'[n] = start[n]
         /\ Len(wire') = Len(wire) + Size(f)
         /\ \A i \in 1..Len(wire) : wire'[i] = wire[i]
         /\ \A i \in 1..Size(f) : wire'[Len(wire) + i] = [frame |-> Len(sent) + 1, offset |-> i - 1]
<1>1. PICK l \in Nat, k \in Nat, z \in Nat : l = Len(sent) /\ k = Len(wire) /\ z = Size(f)
  BY StreamTypes, FrameTypes, Zenon
<1>2. /\ Append(sent, f) \in Seq(Frames) /\ Len(Append(sent, f)) = l + 1 /\ Append(sent, f)[l + 1] = f
      /\ \A n \in 1..l : Append(sent, f)[n] = sent[n]
  BY <1>1 DEF StreamInv
<1>3. /\ Append(start, k + z) \in Seq(Nat) /\ Len(Append(start, k + z)) = l + 2
      /\ Append(start, k + z)[l + 2] = k + z
      /\ \A n \in 1..(l + 1) : Append(start, k + z)[n] = start[n]
  <2>1. start \in Seq(Nat) /\ Len(start) = l + 1 /\ k + z \in Nat
    BY <1>1 DEF StreamInv
  <2> QED
    BY <2>1
<1>4. PICK w \in Seq(Bytes) : w = Marshal(l + 1, f) /\ Len(w) = z
                             /\ \A i \in 1..z : w[i] = [frame |-> l + 1, offset |-> i - 1]
  <2>1. l + 1 \in Nat
    OBVIOUS
  <2> QED
    BY <1>1, <2>1, MarshalItems, Zenon
<1>5. /\ wire \o w \in Seq(Bytes) /\ Len(wire \o w) = Len(wire) + Len(w)
      /\ \A i \in 1..Len(wire) : (wire \o w)[i] = wire[i]
      /\ \A i \in 1..Len(w) : (wire \o w)[Len(wire) + i] = w[i]
  <2>1. wire \in Seq(Bytes)
    BY Zenon DEF StreamInv
  <2> QED
    BY <2>1, Joined
<1>6. sent' = Append(sent, f) /\ wire' = wire \o w /\ start' = Append(start, k + z)
  BY <1>1, <1>4, Zenon DEF Write
<1>7. /\ sent' \in Seq(Frames) /\ Len(sent') = Len(sent) + 1 /\ sent'[Len(sent) + 1] = f
      /\ \A n \in 1..Len(sent) : sent'[n] = sent[n]
  BY <1>1, <1>2, <1>6, Zenon
<1>8. /\ start' \in Seq(Nat) /\ Len(start') = Len(sent) + 2 /\ start'[Len(sent) + 2] = Len(wire) + Size(f)
      /\ \A n \in 1..(Len(sent) + 1) : start'[n] = start[n]
  BY <1>1, <1>3, <1>6, Zenon
<1>9. /\ wire' \in Seq(Bytes) /\ Len(wire') = Len(wire) + Size(f)
      /\ \A i \in 1..Len(wire) : wire'[i] = wire[i]
  BY <1>1, <1>4, <1>5, <1>6, Zenon
<1>10. \A i \in 1..Size(f) : wire'[Len(wire) + i] = [frame |-> Len(sent) + 1, offset |-> i - 1]
  <2>1. \A i \in 1..Size(f) : wire'[Len(wire) + i] = w[i]
    BY <1>1, <1>4, <1>5, <1>6, Zenon
  <2>2. \A i \in 1..Size(f) : w[i] = [frame |-> Len(sent) + 1, offset |-> i - 1]
    BY <1>1, <1>4, Zenon
  <2> QED
    BY <2>1, <2>2, Zenon
<1> QED
  BY <1>7, <1>8, <1>9, <1>10, Zenon

LEMMA StreamWrite ==
  ASSUME StreamInv, NEW f \in Frames, Write(f)
  PROVE  StreamInv'
<1>1. PICK l \in Nat, k \in Nat, z \in Nat : l = Len(sent) /\ k = Len(wire) /\ z = Size(f)
  BY StreamTypes, FrameTypes, Zenon
<1>2. /\ sent' \in Seq(Frames) /\ wire' \in Seq(Bytes) /\ start' \in Seq(Nat)
      /\ Len(sent') = l + 1 /\ sent'[l + 1] = f /\ \A n \in 1..l : sent'[n] = sent[n]
      /\ Len(start') = l + 2 /\ start'[l + 2] = k + z
      /\ \A n \in 1..(l + 1) : start'[n] = start[n]
      /\ Len(wire') = k + z /\ \A i \in 1..k : wire'[i] = wire[i]
      /\ \A i \in 1..z : wire'[k + i] = [frame |-> l + 1, offset |-> i - 1]
  BY <1>1, WriteKeeps, Zenon
<1>3. (l + 1) + 1 = l + 2 /\ 1 \in 1..(l + 1) /\ l + 1 \in 1..(l + 1) /\ k <= k + z
  OBVIOUS
<1>4. start'[1] = 0 /\ start[l + 1] = k
  BY <1>1, <1>2, <1>3, Zenon DEF StreamInv
<1>5. ASSUME NEW n \in 1..(l + 2) PROVE start'[n] <= k + z
  <2>1. CASE n = l + 2
    BY <1>2, <2>1
  <2>2. CASE n # l + 2
    <3>1. n \in 1..(l + 1)
      BY <2>2
    <3>2. start[n] \in Nat /\ start[n] <= k /\ start'[n] = start[n]
      BY <1>1, <1>2, <3>1, StreamTypes, Zenon
    <3> QED
      BY <3>2
  <2> QED
    BY <2>1, <2>2, Zenon
<1>6. ASSUME NEW n \in 1..(l + 1)
      PROVE  /\ start'[n + 1] = start'[n] + Size(sent'[n])
             /\ \A i \in 1..Size(sent'[n]) : wire'[start'[n] + i] = [frame |-> n, offset |-> i - 1]
  <2>1. CASE n = l + 1
    <3>1. sent'[n] = f /\ Size(sent'[n]) = z /\ start'[n] = k /\ start'[n + 1] = k + z
      BY <1>1, <1>2, <1>3, <1>4, <2>1, Zenon
    <3> QED
      BY <1>2, <2>1, <3>1, Zenon
  <2>2. CASE n # l + 1
    <3>1. n \in 1..l /\ n + 1 \in 1..(l + 1)
      BY <2>2
    <3>2. sent'[n] = sent[n] /\ start'[n] = start[n] /\ start'[n + 1] = start[n + 1]
      BY <1>2, <3>1, Zenon
    <3>3. start[n + 1] = start[n] + Size(sent[n])
      BY <1>1, <3>1, Zenon DEF StreamInv
    <3>4. ASSUME NEW i \in 1..Size(sent[n])
          PROVE  wire'[start[n] + i] = [frame |-> n, offset |-> i - 1]
      <4>1. wire[start[n] + i] = [frame |-> n, offset |-> i - 1]
        BY <1>1, <3>1, Zenon DEF StreamInv
      <4>2. start[n] \in Nat /\ start[n + 1] \in Nat /\ start[n + 1] <= k /\ Size(sent[n]) \in Nat
        BY <1>1, <3>1, StreamTypes, FrameTypes, Zenon
      <4>3. start[n] + i \in 1..k
        BY <3>3, <4>2
      <4> QED
        BY <1>2, <4>1, <4>3, Zenon
    <3> QED
      BY <3>2, <3>3, <3>4, Zenon
  <2> QED
    BY <2>1, <2>2, Zenon
<1> QED
  BY <1>2, <1>3, <1>4, <1>5, <1>6, Zenon DEF StreamInv

(***************************************************************************)
(* A buffer that starts at a frame boundary: what was read up to p, less   *)
(* the first m frames.                                                     *)
(***************************************************************************)
Part(m, p) == SubSeq(wire, start[m + 1] + 1, p)

LEMMA PartItems ==
  ASSUME StreamInv, NEW m \in 0..Len(sent), NEW p \in Nat, start[m + 1] <= p, p <= Len(wire)
  PROVE  /\ Part(m, p) \in Seq(Bytes) /\ Len(Part(m, p)) = p - start[m + 1]
         /\ start[m + 1] \in Nat
         /\ \A i \in 1..(p - start[m + 1]) : Part(m, p)[i] = wire[start[m + 1] + i]
<1>1. m + 1 \in 1..(Len(sent) + 1)
  BY StreamTypes
<1>2. PICK a \in Nat : a = start[m + 1]
  BY <1>1, StreamTypes, Zenon
<1>3. wire \in Seq(Bytes) /\ a <= p
  BY <1>2, Zenon DEF StreamInv
<1>4. /\ SubSeq(wire, a + 1, p) \in Seq(Bytes) /\ Len(SubSeq(wire, a + 1, p)) = p - a
      /\ \A i \in 1..(p - a) : SubSeq(wire, a + 1, p)[i] = wire[a + i]
  BY <1>3, Cut, Zenon
<1> QED
  BY <1>2, <1>4, Zenon DEF Part

\* Its first byte is the first of frame m + 1, if there is one.
\* Feeding what follows makes it the part up to there.
LEMMA PartGrows ==
  ASSUME StreamInv, NEW m \in 0..Len(sent), NEW p \in Nat, NEW q \in Nat,
         start[m + 1] <= p, p <= q, q <= Len(wire)
  PROVE  Part(m, p) \o SubSeq(wire, p + 1, q) = Part(m, q)
<1>1. m + 1 \in 1..(Len(sent) + 1)
  BY StreamTypes
<1>2. PICK a \in Nat : a = start[m + 1]
  BY <1>1, StreamTypes, Zenon
<1>3. wire \in Seq(Bytes) /\ a <= p
  BY <1>2, Zenon DEF StreamInv
<1>4. SubSeq(wire, a + 1, p) \o SubSeq(wire, p + 1, q) = SubSeq(wire, a + 1, q)
  BY <1>3, CutJoined
<1> QED
  BY <1>2, <1>4, Zenon DEF Part

LEMMA AtFront ==
  ASSUME StreamInv, NEW m \in 0..Len(sent), NEW p \in Nat, start[m + 1] <= p, p <= Len(wire),
         ~(Len(Part(m, p)) < HeaderSize)
  PROVE  /\ m + 1 \in 1..Len(sent) /\ sent[m + 1] \in Frames
         /\ Part(m, p)[1] = [frame |-> m + 1, offset |-> 0]
         /\ Aligned(Part(m, p)) /\ Front(Part(m, p)) = sent[m + 1]
         /\ Length(Part(m, p)) = sent[m + 1].len
<1>1. Len(Part(m, p)) = p - start[m + 1] /\ start[m + 1] \in Nat
  BY PartItems, Zenon
<1>2. HeaderSize \in Nat /\ HeaderSize > 0
  BY ReaderAssumption
<1>3. start[m + 1] # Len(wire)
  BY <1>1, <1>2, StreamTypes
<1>4. m # Len(sent)
  BY <1>3, Zenon DEF StreamInv
<1>5. m + 1 \in 1..Len(sent)
  BY <1>4, StreamTypes
<1>6. sent[m + 1] \in Frames
  BY <1>5, StreamTypes, Zenon
<1>7. 1 \in 1..Size(sent[m + 1]) /\ 1 - 1 = 0
  BY <1>6, FrameTypes
<1>8. wire[start[m + 1] + 1] = [frame |-> m + 1, offset |-> 0]
  BY <1>5, <1>7, Zenon DEF StreamInv
<1>9. 1 \in 1..(p - start[m + 1])
  BY <1>1, <1>2, SMTT(20)
<1>10. Part(m, p)[1] = [frame |-> m + 1, offset |-> 0]
  BY <1>8, <1>9, PartItems, Zenon
<1>11. Part(m, p)[1].frame = m + 1 /\ Part(m, p)[1].offset = 0
  BY <1>10
<1> QED
  BY <1>5, <1>6, <1>10, <1>11, Zenon DEF Aligned, Front, Length

\* When frame m + 1 is complete, its bytes are the ones that Marshal made, and
\* the rest again starts at a frame boundary.
LEMMA Whole ==
  ASSUME StreamInv, NEW m \in 0..Len(sent), NEW p \in Nat, start[m + 1] <= p, p <= Len(wire),
         m + 1 \in 1..Len(sent), ~(Len(Part(m, p)) < Size(sent[m + 1]))
  PROVE  /\ SubSeq(Part(m, p), 1, Size(sent[m + 1])) = Marshal(m + 1, sent[m + 1])
         /\ start[m + 2] <= p /\ Rest(Part(m, p), Size(sent[m + 1])) = Part(m + 1, p)
<1>1. PICK z \in Nat : z = Size(sent[m + 1]) /\ sent[m + 1] \in Frames
  BY StreamTypes, FrameTypes, Zenon
<1>2. PICK a \in Nat : /\ a = start[m + 1] /\ a <= p
                       /\ Part(m, p) \in Seq(Bytes) /\ Len(Part(m, p)) = p - a
                       /\ \A i \in 1..(p - a) : Part(m, p)[i] = wire[a + i]
  BY PartItems, Zenon
<1>3. z \in 0..(p - a) /\ z <= p - a /\ m + 1 \in Nat /\ (m + 1) + 1 = m + 2
  <2>1. ~(p - a < z) /\ a <= p
    BY <1>1, <1>2, Zenon
  <2> QED
    BY <2>1
<1>4. start[m + 2] = a + z
  BY <1>1, <1>2, <1>3, Zenon DEF StreamInv
<1>5. a + z <= p /\ (a + z) + 1 = a + z + 1
  BY <1>3
<1>6. Rest(Part(m, p), z) = Part(m + 1, p)
  <2>1. wire \in Seq(Bytes)
    BY Zenon DEF StreamInv
  <2>2. SubSeq(SubSeq(wire, a + 1, p), z + 1, p - a) = SubSeq(wire, a + z + 1, p)
    <3>1. a <= p /\ z \in 0..(p - a)
      BY <1>2, <1>3, Zenon
    <3> QED
      BY <2>1, <3>1, CutTwice, Zenon
  <2> QED
    BY <1>2, <1>3, <1>4, <2>2, Zenon DEF Rest, Part
<1>7. SubSeq(Part(m, p), 1, z) = Marshal(m + 1, sent[m + 1])
  <2>1. PICK b \in Seq(Bytes) : b = Part(m, p) /\ Len(b) = p - a /\ \A i \in 1..(p - a) : b[i] = wire[a + i]
    BY <1>2, Zenon
  <2>2. PICK c \in Seq(Bytes) : c = SubSeq(b, 1, z) /\ Len(c) = z /\ \A i \in 1..z : c[i] = b[i]
    <3>1. z <= Len(b)
      BY <1>3, <2>1, Zenon
    <3>2. /\ SubSeq(b, 1, z) \in Seq(Bytes) /\ Len(SubSeq(b, 1, z)) = z
          /\ \A i \in 1..z : SubSeq(b, 1, z)[i] = b[i]
      BY <3>1, Prefix, Zenon
    <3> QED
      BY <3>2, Zenon
  <2>3. ASSUME NEW i \in 1..z PROVE c[i] = [frame |-> m + 1, offset |-> i - 1]
    <3>1. i \in 1..(p - a)
      BY <1>3
    <3>2. wire[a + i] = [frame |-> m + 1, offset |-> i - 1]
      BY <1>1, <1>2, Zenon DEF StreamInv
    <3> QED
      BY <2>1, <2>2, <3>1, <3>2, Zenon
  <2>4. PICK d \in Seq(Bytes) : /\ d = Marshal(m + 1, sent[m + 1]) /\ Len(d) = z
                               /\ \A i \in 1..z : d[i] = [frame |-> m + 1, offset |-> i - 1]
    BY <1>1, <1>3, MarshalItems, Zenon
  <2>5. \A i \in 1..z : c[i] = d[i]
    BY <2>3, <2>4, Zenon
  <2>6. c = d
    BY <2>2, <2>4, <2>5, Same, Zenon
  <2> QED
    BY <2>1, <2>2, <2>4, <2>6, Zenon
<1> QED
  BY <1>1, <1>4, <1>5, <1>6, <1>7, Zenon

\* So it is valid if and only if it was sent well.
LEMMA Valid ==
  ASSUME StreamInv, NEW n \in 1..Len(sent)
  PROVE  Validate(Marshal(n, sent[n])) <=> sent[n].kind = "ok"
<1>1. sent[n] \in Frames /\ n \in Nat
  BY StreamTypes
<1>2. 1 \in 1..Size(sent[n]) /\ 1 - 1 = 0
  BY <1>1, FrameTypes
<1>3. Marshal(n, sent[n])[1] = [frame |-> n, offset |-> 0]
  BY <1>1, <1>2, MarshalItems, Zenon
<1>5. Marshal(n, sent[n])[1].frame = n /\ Marshal(n, sent[n])[1].offset = 0
  BY <1>3
<1>4. /\ Marshal(n, sent[n])[1].frame = n /\ Aligned(Marshal(n, sent[n]))
      /\ Front(Marshal(n, sent[n])) = sent[n]
  BY <1>5, Zenon DEF Aligned, Front
<1> QED
  BY <1>4, Zenon DEF Validate

(***************************************************************************)
(* What the two readers make of such a buffer.                             *)
(***************************************************************************)

\* A buffer with less than frame m + 1 ends before the next frame starts.
LEMMA Incomplete ==
  ASSUME StreamInv, NEW m \in 0..Len(sent), NEW p \in Nat, start[m + 1] <= p, p <= Len(wire),
         m + 1 \in 1..Len(sent),
         Len(Part(m, p)) < HeaderSize \/ Len(Part(m, p)) < Size(sent[m + 1])
  PROVE  p < start[m + 2]
<1>1. /\ Size(sent[m + 1]) \in Nat /\ Size(sent[m + 1]) >= HeaderSize /\ HeaderSize \in Nat
      /\ m + 1 \in Nat /\ (m + 1) + 1 = m + 2
  BY StreamTypes, FrameTypes
<1>2. Len(Part(m, p)) = p - start[m + 1] /\ start[m + 1] \in Nat
  BY PartItems, Zenon
<1>3. start[m + 2] = start[m + 1] + Size(sent[m + 1])
  BY <1>1, Zenon DEF StreamInv
<1> QED
  BY <1>1, <1>2, <1>3

LEMMA ServerReads ==
  ASSUME StreamInv, NEW m \in 0..Len(sent), NEW p \in Nat, start[m + 1] <= p, p <= Len(wire)
  PROVE  \/ /\ ReadFrame(Part(m, p)) = [result |-> "none", rest |-> Part(m, p)]
            /\ m + 1 \in 1..Len(sent) => p < start[m + 2]
         \/ /\ ReadFrame(Part(m, p)) = [result |-> "error", rest |-> Part(m, p)]
            /\ m + 1 \in 1..Len(sent) /\ ~Good(m + 1)
         \/ /\ ReadFrame(Part(m, p)) = [result |-> "frame", rest |-> Part(m + 1, p)]
            /\ m + 1 \in 1..Len(sent) /\ Good(m + 1) /\ start[m + 2] <= p
            /\ Part(m, p)[1].frame = m + 1
<1> DEFINE buf == Part(m, p)
<1>1. CASE Len(buf) < HeaderSize
  BY <1>1, Incomplete, Zenon DEF ReadFrame
<1>2. CASE ~(Len(buf) < HeaderSize)
  <2>1. /\ m + 1 \in 1..Len(sent) /\ sent[m + 1] \in Frames
        /\ buf[1] = [frame |-> m + 1, offset |-> 0] /\ Length(buf) = sent[m + 1].len
    BY <1>2, AtFront, Zenon
  <2>2. HeaderSize + Length(buf) = Size(sent[m + 1])
    BY <2>1, Zenon DEF Size
  <2>3. CASE TooLarge(Length(buf))
    <3>1. ReadFrame(buf) = [result |-> "error", rest |-> buf]
      BY <1>2, <2>3, Zenon DEF ReadFrame
    <3>2. ~Good(m + 1)
      BY <2>1, <2>3, Zenon DEF Good
    <3> QED
      BY <2>1, <3>1, <3>2, Zenon
  <2>4. CASE ~TooLarge(Length(buf)) /\ Len(buf) < Size(sent[m + 1])
    <3>1. ReadFrame(buf) = [result |-> "none", rest |-> buf]
      BY <1>2, <2>2, <2>4, Zenon DEF ReadFrame
    <3> QED
      BY <2>4, <3>1, Incomplete, Zenon
  <2>5. CASE ~TooLarge(Length(buf)) /\ ~(Len(buf) < Size(sent[m + 1]))
    <3>1. /\ SubSeq(buf, 1, Size(sent[m + 1])) = Marshal(m + 1, sent[m + 1])
          /\ start[m + 2] <= p /\ Rest(buf, Size(sent[m + 1])) = Part(m + 1, p)
      BY <2>1, <2>5, Whole, Zenon
    <3>2. Validate(Marshal(m + 1, sent[m + 1])) <=> Good(m + 1)
      BY <2>1, <2>5, Valid, Zenon DEF Good
    <3>3. ReadFrame(buf) = IF ~Good(m + 1) THEN [result |-> "error", rest |-> buf]
                           ELSE [result |-> "frame", rest |-> Part(m + 1, p)]
      BY <1>2, <2>2, <2>5, <3>1, <3>2, Zenon DEF ReadFrame
    <3>4. buf[1].frame = m + 1
      BY <2>1
    <3> QED
      BY <2>1, <3>1, <3>3, <3>4, Zenon
  <2> QED
    BY <2>3, <2>4, <2>5, Zenon
<1> QED
  BY <1>1, <1>2, Zenon

LEMMA ClientReads ==
  ASSUME StreamInv, NEW m \in 0..Len(sent), NEW p \in Nat, start[m + 1] <= p, p <= Len(wire)
  PROVE  \/ \E result \in {"none", "error"} :
              read_frame(Part(m, p)) = [result |-> result, rest |-> Part(m, p)]
         \/ /\ m + 1 \in 1..Len(sent) /\ start[m + 2] <= p /\ Part(m, p)[1].frame = m + 1
            /\ sent[m + 1].kind # "magic" /\ ~TooLarge(sent[m + 1].len)
            /\ read_frame(Part(m, p)) =
                 [result |-> IF Good(m + 1) THEN "frame" ELSE "error", rest |-> Part(m + 1, p)]
<1> DEFINE buf == Part(m, p)
<1>1. CASE Len(buf) < HeaderSize
  BY <1>1, Zenon DEF read_frame
<1>2. CASE ~(Len(buf) < HeaderSize)
  <2>1. /\ m + 1 \in 1..Len(sent) /\ Aligned(buf) /\ Front(buf) = sent[m + 1]
        /\ buf[1] = [frame |-> m + 1, offset |-> 0] /\ Length(buf) = sent[m + 1].len
    BY <1>2, AtFront, Zenon
  <2>2. HeaderSize + Length(buf) = Size(sent[m + 1]) /\ (MagicOk(buf) <=> sent[m + 1].kind # "magic")
    BY <2>1, Zenon DEF Size, MagicOk
  <2>3. CASE ~MagicOk(buf) \/ TooLarge(Length(buf))
    BY <1>2, <2>3, Zenon DEF read_frame
  <2>4. CASE ~(~MagicOk(buf) \/ TooLarge(Length(buf))) /\ Len(buf) < Size(sent[m + 1])
    BY <1>2, <2>2, <2>4, Zenon DEF read_frame
  <2>5. CASE ~(~MagicOk(buf) \/ TooLarge(Length(buf))) /\ ~(Len(buf) < Size(sent[m + 1]))
    <3>1. /\ SubSeq(buf, 1, Size(sent[m + 1])) = Marshal(m + 1, sent[m + 1])
          /\ start[m + 2] <= p /\ Rest(buf, Size(sent[m + 1])) = Part(m + 1, p)
      BY <2>1, <2>5, Whole, Zenon
    <3>2. Validate(Marshal(m + 1, sent[m + 1])) <=> Good(m + 1)
      BY <2>1, <2>5, Valid, Zenon DEF Good
    <3>3. read_frame(buf) = [result |-> IF Good(m + 1) THEN "frame" ELSE "error", rest |-> Part(m + 1, p)]
      BY <1>2, <2>2, <2>5, <3>1, <3>2, Zenon DEF read_frame
    <3>4. buf[1].frame = m + 1
      BY <2>1
    <3> QED
      BY <2>1, <2>2, <2>5, <3>1, <3>3, <3>4, Zenon
  <2> QED
    BY <2>3, <2>4, <2>5, Zenon
<1> QED
  BY <1>1, <1>2, Zenon

(***************************************************************************)
(* The inductive invariant: the stream, the two readers' places in it and  *)
(* the two properties.                                                     *)
(***************************************************************************)

Behind == Len(goOut) \in 0..Len(sent) /\ start[Len(goOut) + 1] <= goPos
ReaderInv == StreamInv /\ ReaderTypeOK /\ Behind /\ ServerReassembles /\ ClientReassembles

\* What is on the wire already reads the same after another Write.
LEMMA WriteBehind ==
  ASSUME StreamInv, NEW f \in Frames, Write(f),
         NEW m \in 0..Len(sent), NEW p \in Nat, start[m + 1] <= p, p <= Len(wire)
  PROVE  /\ start'[m + 1] = start[m + 1]
         /\ SubSeq(wire', start'[m + 1] + 1, p) = SubSeq(wire, start[m + 1] + 1, p)
<1>1. m + 1 \in 1..(Len(sent) + 1)
  BY StreamTypes
<1>2. PICK a \in Nat : a = start[m + 1]
  BY <1>1, StreamTypes, Zenon
<1>3. start'[m + 1] = a
  BY <1>1, <1>2, WriteKeeps, Zenon
<1>4. Len(sent) + 1 \in Nat
  BY StreamTypes
<1>5. Marshal(Len(sent) + 1, f) \in Seq(Bytes)
  BY <1>4, MarshalItems, Zenon
<1>6. wire' = wire \o Marshal(Len(sent) + 1, f) /\ wire \in Seq(Bytes)
  BY Zenon DEF Write, StreamInv
<1>7. a <= p
  BY <1>2, Zenon
<1>8. SubSeq(wire \o Marshal(Len(sent) + 1, f), a + 1, p) = SubSeq(wire, a + 1, p)
  BY <1>5, <1>6, <1>7, CutBefore, Zenon
<1> QED
  BY <1>2, <1>3, <1>6, <1>8, Zenon

LEMMA WriteGood ==
  ASSUME StreamInv, NEW f \in Frames, Write(f), NEW n \in 1..Len(sent)
  PROVE  sent'[n] = sent[n] /\ (Good(n)' <=> Good(n))
<1>1. sent'[n] = sent[n]
  BY WriteKeeps, Zenon
<1> QED
  BY <1>1, Zenon DEF Good, TooLarge

LEMMA ServerWrite ==
  ASSUME ReaderInv, NEW f \in Frames, Write(f)
  PROVE  Behind' /\ ServerReassembles'
<1> DEFINE m == Len(goOut)
<1>1. /\ StreamInv /\ ReaderTypeOK /\ Behind /\ ServerReassembles
      /\ goOut' = goOut /\ goPos' = goPos /\ goBuf' = goBuf /\ goMode' = goMode
  BY Zenon DEF ReaderInv, Write, goVars
<1>2. /\ Len(sent) \in Nat /\ Len(wire) \in Nat /\ goPos \in Nat /\ goPos <= Len(wire)
      /\ m \in 0..Len(sent) /\ m \in Nat /\ m <= Len(sent) /\ start[m + 1] <= goPos
      /\ Size(f) \in Nat /\ Size(f) > 0
  BY <1>1, StreamTypes, FrameTypes DEF ReaderTypeOK, Behind
<1>3. /\ start'[m + 1] = start[m + 1]
      /\ SubSeq(wire', start'[m + 1] + 1, goPos) = SubSeq(wire, start[m + 1] + 1, goPos)
  BY <1>1, <1>2, WriteBehind, Zenon
<1>4. /\ Len(sent') = Len(sent) + 1 /\ Len(start') = Len(sent) + 2
      /\ start'[Len(sent) + 2] = Len(wire) + Size(f)
      /\ \A n \in 1..(Len(sent) + 1) : start'[n] = start[n]
  BY <1>1, WriteKeeps, Zenon
<1>5. Behind'
  BY <1>1, <1>2, <1>3, <1>4 DEF Behind
<1>6. goOut = [i \in 1..m |-> i] /\ \A i \in 1..m : Good(i)'
  <2>1. goOut = [i \in 1..m |-> i] /\ \A i \in 1..m : Good(i)
    BY <1>1, Zenon DEF ServerReassembles
  <2>2. \A i \in 1..m : i \in 1..Len(sent)
    BY <1>2
  <2> QED
    BY <1>1, <2>1, <2>2, WriteGood, Zenon
<1>7. goBuf = SubSeq(wire', start'[m + 1] + 1, goPos)
  BY <1>1, <1>3, Zenon DEF ServerReassembles
<1>8. goMode \in {"read", "gone"} => goPos < start'[m + 2]
  <2>1. CASE m < Len(sent)
    <3>1. m + 2 \in 1..(Len(sent) + 1)
      BY <1>2, <2>1
    <3> QED
      BY <1>1, <1>4, <2>1, <3>1, Zenon DEF ServerReassembles
  <2>2. CASE m = Len(sent)
    <3>1. start'[m + 2] = Len(wire) + Size(f)
      BY <1>4, <2>2, Zenon
    <3> QED
      BY <1>2, <3>1
  <2>3. m < Len(sent) \/ m = Len(sent)
    BY <1>2
  <2> QED
    BY <2>1, <2>2, <2>3, Zenon
<1>9. goMode = "closed" => m < Len(sent') /\ ~Good(m + 1)'
  <2> HAVE goMode = "closed"
  <2>1. m < Len(sent) /\ ~Good(m + 1)
    BY <1>1, Zenon DEF ServerReassembles
  <2>2. m + 1 \in 1..Len(sent) /\ m < Len(sent')
    BY <1>2, <1>4, <2>1
  <2> QED
    BY <1>1, <2>1, <2>2, WriteGood, Zenon
<1> QED
  BY <1>1, <1>5, <1>6, <1>7, <1>8, <1>9, Zenon DEF ServerReassembles

LEMMA ServerConnRead ==
  ASSUME ReaderInv, NEW n \in 1..Len(wire), ConnRead(n)
  PROVE  Behind' /\ ServerReassembles'
<1> DEFINE m == Len(goOut)
<1>1. /\ StreamInv /\ ReaderTypeOK /\ Behind /\ ServerReassembles
      /\ goOut' = goOut /\ goPos' = goPos + n /\ goBuf' = goBuf \o SubSeq(wire, goPos + 1, goPos + n)
      /\ goMode' = "parse" /\ sent' = sent /\ wire' = wire /\ start' = start
      /\ goPos + n <= Len(wire)
  BY Zenon DEF ReaderInv, ConnRead, stream, Chunk
<1>2. /\ goPos \in Nat /\ goPos + n \in Nat /\ goPos <= goPos + n /\ m \in 0..Len(sent)
      /\ start[m + 1] <= goPos /\ start[m + 1] \in Nat /\ start[m + 1] <= goPos + n
  BY <1>1, StreamTypes DEF ReaderTypeOK, Behind
<1>3. Behind'
  BY <1>1, <1>2, Zenon DEF Behind
<1>4. goBuf' = SubSeq(wire, start[m + 1] + 1, goPos + n)
  <2>1. goBuf = Part(m, goPos)
    BY <1>1, Zenon DEF Part, ServerReassembles
  <2>2. Part(m, goPos) \o SubSeq(wire, goPos + 1, goPos + n) = Part(m, goPos + n)
    BY <1>1, <1>2, PartGrows, Zenon
  <2> QED
    BY <1>1, <2>1, <2>2, Zenon DEF Part
<1>5. \A i : Good(i)' <=> Good(i)
  BY <1>1, Zenon DEF Good, TooLarge
<1>6. "parse" \notin {"read", "gone"} /\ "parse" # "closed"
  BY Zenon
<1> QED
  BY <1>1, <1>3, <1>4, <1>5, <1>6, Zenon DEF ServerReassembles

LEMMA ServerInnerLoop ==
  ASSUME ReaderInv, InnerLoop
  PROVE  Behind' /\ ServerReassembles'
<1> DEFINE m == Len(goOut)
<1>1. /\ StreamInv /\ ReaderTypeOK /\ Behind /\ ServerReassembles
      /\ goPos' = goPos /\ sent' = sent /\ wire' = wire /\ start' = start
  BY Zenon DEF ReaderInv, InnerLoop, stream
<1>2. /\ goPos \in Nat /\ goPos <= Len(wire) /\ m \in 0..Len(sent) /\ start[m + 1] <= goPos
      /\ m \in Nat /\ (m + 1) + 1 = m + 2 /\ Len(sent) \in Nat
      /\ m < Len(sent) => m + 1 \in 1..Len(sent)
  BY <1>1, StreamTypes DEF ReaderTypeOK, Behind
<1>3. goBuf = Part(m, goPos) /\ goOut = [i \in 1..m |-> i] /\ \A i \in 1..m : Good(i)
  BY <1>1, Zenon DEF ServerReassembles, Part
<1>4. \A i : Good(i)' <=> Good(i)
  BY <1>1, Zenon DEF Good, TooLarge
<1>5. CASE /\ ReadFrame(goBuf) = [result |-> "none", rest |-> goBuf]
           /\ m + 1 \in 1..Len(sent) => goPos < start[m + 2]
  <2>1. ReadFrame(goBuf).result = "none" /\ ReadFrame(goBuf).rest = goBuf
    BY <1>5
  <2>2. goBuf' = goBuf /\ goOut' = goOut /\ goMode' = "read"
    BY <2>1, Zenon DEF InnerLoop, Mode
  <2> QED
    BY <1>1, <1>2, <1>4, <1>5, <2>2, Zenon DEF ServerReassembles, Behind
<1>6. CASE /\ ReadFrame(goBuf) = [result |-> "error", rest |-> goBuf]
           /\ m + 1 \in 1..Len(sent) /\ ~Good(m + 1)
  <2>1. ReadFrame(goBuf).result = "error" /\ ReadFrame(goBuf).rest = goBuf
    BY <1>6
  <2>2. goBuf' = goBuf /\ goOut' = goOut /\ goMode' = "closed" /\ m < Len(sent)
    BY <1>2, <1>6, <2>1 DEF InnerLoop, Mode
  <2> QED
    BY <1>1, <1>2, <1>4, <1>6, <2>2, Zenon DEF ServerReassembles, Behind
<1>7. CASE /\ ReadFrame(goBuf) = [result |-> "frame", rest |-> Part(m + 1, goPos)]
           /\ m + 1 \in 1..Len(sent) /\ Good(m + 1) /\ start[m + 2] <= goPos
           /\ goBuf[1].frame = m + 1
  <2>0. ReadFrame(goBuf) = [result |-> "frame", rest |-> Part(m + 1, goPos)]
    BY <1>7, Zenon
  <2>1. ReadFrame(goBuf).result = "frame" /\ ReadFrame(goBuf).rest = Part(m + 1, goPos)
    BY <2>0
  <2>2. goBuf' = Part(m + 1, goPos) /\ goOut' = Append(goOut, m + 1) /\ goMode' = "parse"
    BY <1>7, <2>1, Zenon DEF InnerLoop, Mode
  <2>3. goOut' = [i \in 1..(m + 1) |-> i] /\ Len(goOut') = m + 1
    <3>1. PICK l \in Nat : l = m
      BY <1>2, Zenon
    <3>2. goOut = [i \in 1..l |-> i] /\ goOut' = Append(goOut, l + 1)
      BY <1>3, <2>2, <3>1, Zenon
    <3>3. /\ Append([i \in 1..l |-> i], l + 1) = [i \in 1..(l + 1) |-> i]
          /\ Len([i \in 1..(l + 1) |-> i]) = l + 1
      OBVIOUS
    <3> QED
      BY <3>1, <3>2, <3>3, Zenon
  <2>4. m + 1 \in 0..Len(sent) /\ \A i \in 1..(m + 1) : i \in 1..m \/ i = m + 1
    <3>1. m \in Nat /\ Len(sent) \in Nat /\ m + 1 \in 1..Len(sent)
      BY <1>2, <1>7, Zenon
    <3> QED
      BY <3>1
  <2>5. Behind'
    BY <1>1, <1>2, <1>7, <2>3, <2>4, Zenon DEF Behind
  <2>6. goBuf' = SubSeq(wire, start[(m + 1) + 1] + 1, goPos)
    BY <2>2, Zenon DEF Part
  <2>7. \A i \in 1..(m + 1) : Good(i)
    BY <1>3, <1>7, <2>4, Zenon
  <2>8. goMode' \notin {"read", "gone"} /\ goMode' # "closed"
    BY <2>2, Zenon
  <2> QED
    BY <1>1, <1>4, <2>3, <2>5, <2>6, <2>7, <2>8, Zenon DEF ServerReassembles
<1>8. ReadFrame(Part(m, goPos)) = ReadFrame(goBuf) /\ Part(m, goPos)[1] = goBuf[1]
  BY <1>3, Zenon
<1> QED
  BY <1>1, <1>2, <1>3, <1>5, <1>6, <1>7, <1>8, ServerReads, Zenon

LEMMA ClientWrite ==
  ASSUME ReaderInv, NEW f \in Frames, Write(f)
  PROVE  ClientReassembles'
<1>1. /\ StreamInv /\ ReaderTypeOK /\ rsOut' = rsOut /\ rsPos' = rsPos /\ rsBuf' = rsBuf
  BY Zenon DEF ReaderInv, Write, rsVars
<1>2. PICK m \in 0..Len(sent) :
        /\ rsBuf = SubSeq(wire, start[m + 1] + 1, rsPos) /\ rsPos >= start[m + 1]
        /\ \A i, j \in 1..Len(rsOut) : i < j => rsOut[i] < rsOut[j]
        /\ {rsOut[i] : i \in 1..Len(rsOut)} = {i \in 1..m : Good(i)}
        /\ \A i \in 1..m : sent[i].kind # "magic" /\ ~TooLarge(sent[i].len)
  BY Zenon DEF ReaderInv, ClientReassembles
<1>3. /\ rsPos \in Nat /\ rsPos <= Len(wire) /\ start[m + 1] <= rsPos /\ \A i \in 1..m : i \in 1..Len(sent)
  <2>1. rsPos >= start[m + 1]
    BY <1>2, Zenon
  <2>2. rsPos \in 0..Len(wire)
    BY <1>1, Zenon DEF ReaderTypeOK
  <2>3. Len(sent) \in Nat /\ Len(wire) \in Nat
    BY <1>1, StreamTypes, Zenon
  <2>4. m + 1 \in 1..(Len(sent) + 1) /\ \A i \in 1..m : i \in 1..Len(sent)
    BY <2>3
  <2>5. start[m + 1] \in Nat
    BY <1>1, <2>4, StreamTypes, Zenon
  <2> QED
    BY <2>1, <2>2, <2>3, <2>4, <2>5
<1>4. start'[m + 1] = start[m + 1] /\ SubSeq(wire', start'[m + 1] + 1, rsPos) = rsBuf
  BY <1>1, <1>2, <1>3, WriteBehind, Zenon
<1>5. \A i \in 1..m : sent'[i] = sent[i] /\ (Good(i)' <=> Good(i))
  BY <1>1, <1>3, WriteGood, Zenon
<1>6. {i \in 1..m : Good(i)'} = {i \in 1..m : Good(i)}
  BY <1>5, Zenon
<1>7. Len(sent') = Len(sent) + 1
  BY <1>1, WriteKeeps, Zenon
<1>8. m \in 0..Len(sent')
  BY <1>1, <1>7, StreamTypes
<1>9. \A i \in 1..m : sent'[i].kind # "magic" /\ ~TooLarge(sent'[i].len)
  BY <1>2, <1>5, Zenon
<1> QED
  BY <1>1, <1>2, <1>4, <1>6, <1>8, <1>9, Zenon DEF ClientReassembles

\* A frame that follows all those returned is added at the end of them.
LEMMA Extended ==
  ASSUME NEW m \in Nat, NEW out \in Seq(Nat), NEW G, G \subseteq 1..m,
         \A i, j \in 1..Len(out) : i < j => out[i] < out[j],
         {out[i] : i \in 1..Len(out)} = G
  PROVE  LET more == Append(out, m + 1) IN
         /\ \A i, j \in 1..Len(more) : i < j => more[i] < more[j]
         /\ {more[i] : i \in 1..Len(more)} = G \cup {m + 1}
<1> DEFINE more == Append(out, m + 1)
<1>0. Len(out) \in Nat
  OBVIOUS
<1>1. PICK l \in Nat : l = Len(out)
  BY <1>0, Zenon
<1>2. /\ Len(more) = l + 1 /\ more[l + 1] = m + 1 /\ \A i \in 1..l : more[i] = out[i]
  BY <1>1
<1>3. \A i \in 1..l : out[i] \in G
  BY <1>1, Zenon
<1>4. \A i \in 1..l : out[i] < m + 1 /\ out[i] \in Nat
  BY <1>1, <1>3
<1>5. \A i \in 1..(l + 1) : i \in 1..l \/ i = l + 1
  OBVIOUS
<1>6. (\A i \in 1..l : i \in 1..(l + 1)) /\ l + 1 \in 1..(l + 1)
  OBVIOUS
<1>7. \A i, j \in 1..(l + 1) : i < j => more[i] < more[j]
  <2> SUFFICES ASSUME NEW i \in 1..(l + 1), NEW j \in 1..(l + 1), i < j PROVE more[i] < more[j]
    BY Zenon
  <2>1. i \in 1..l
    OBVIOUS
  <2> QED
    BY <1>1, <1>2, <1>4, <1>5, <2>1, Zenon
<1>8. {more[i] : i \in 1..(l + 1)} = G \cup {m + 1}
  BY <1>1, <1>2, <1>3, <1>5, <1>6, Zenon
<1> QED
  BY <1>2, <1>7, <1>8, Zenon

LEMMA ClientRecv ==
  ASSUME ReaderInv, NEW n \in 1..Len(wire), Recv(n)
  PROVE  ClientReassembles' /\ rsOut' \in Seq(1..Len(sent))
<1> DEFINE p == rsPos + n
           fed == rsBuf \o Chunk(rsPos, n)
<1>1. /\ StreamInv /\ ReaderTypeOK /\ rsOut \in Seq(1..Len(sent))
      /\ sent' = sent /\ wire' = wire /\ start' = start /\ rsPos' = p /\ p <= Len(wire)
      /\ rsBuf' = read_frame(fed).rest
      /\ rsOut' = IF read_frame(fed).result = "frame" THEN Append(rsOut, fed[1].frame) ELSE rsOut
  BY Zenon DEF ReaderInv, ReaderTypeOK, Recv, stream
<1>2. PICK m \in 0..Len(sent) :
        /\ rsBuf = SubSeq(wire, start[m + 1] + 1, rsPos) /\ rsPos >= start[m + 1]
        /\ \A i, j \in 1..Len(rsOut) : i < j => rsOut[i] < rsOut[j]
        /\ {rsOut[i] : i \in 1..Len(rsOut)} = {i \in 1..m : Good(i)}
        /\ \A i \in 1..m : sent[i].kind # "magic" /\ ~TooLarge(sent[i].len)
  BY Zenon DEF ReaderInv, ClientReassembles
<1>3. /\ rsPos \in Nat /\ p \in Nat /\ rsPos <= p /\ m \in Nat /\ Len(sent) \in Nat
      /\ start[m + 1] <= rsPos /\ start[m + 1] \in Nat /\ start[m + 1] <= p
  <2>1. rsPos >= start[m + 1]
    BY <1>2, Zenon
  <2>2. rsPos \in 0..Len(wire)
    BY <1>1, Zenon DEF ReaderTypeOK
  <2>3. Len(sent) \in Nat /\ Len(wire) \in Nat
    BY <1>1, StreamTypes, Zenon
  <2>4. m + 1 \in 1..(Len(sent) + 1)
    BY <2>3
  <2>5. start[m + 1] \in Nat
    BY <1>1, <2>4, StreamTypes, Zenon
  <2> QED
    BY <2>1, <2>2, <2>3, <2>5
<1>4. fed = Part(m, p)
  <2>1. Part(m, rsPos) \o SubSeq(wire, rsPos + 1, p) = Part(m, p)
    BY <1>1, <1>3, PartGrows, Zenon
  <2>2. rsBuf = Part(m, rsPos)
    BY <1>2, Zenon DEF Part
  <2> QED
    BY <2>1, <2>2, Zenon DEF Chunk
<1>5. \A i : Good(i)' <=> Good(i)
  BY <1>1, Zenon DEF Good, TooLarge
<1> HIDE DEF p, fed
<1>6. ASSUME NEW result \in {"none", "error"}, read_frame(fed) = [result |-> result, rest |-> fed]
      PROVE  ClientReassembles' /\ rsOut' \in Seq(1..Len(sent))
  <2>1. read_frame(fed).result # "frame" /\ read_frame(fed).rest = fed
    BY <1>6
  <2>2. rsOut' = rsOut /\ rsBuf' = SubSeq(wire, start[m + 1] + 1, p)
    BY <1>1, <1>4, <2>1, Zenon DEF Part
  <2>3. p >= start[m + 1]
    BY <1>3, Zenon
  <2> QED
    BY <1>1, <1>2, <1>5, <2>2, <2>3, Zenon DEF ClientReassembles
<1>7. ASSUME m + 1 \in 1..Len(sent), start[m + 2] <= p, fed[1].frame = m + 1,
             sent[m + 1].kind # "magic", ~TooLarge(sent[m + 1].len),
             read_frame(fed) =
               [result |-> IF Good(m + 1) THEN "frame" ELSE "error", rest |-> Part(m + 1, p)]
      PROVE  ClientReassembles' /\ rsOut' \in Seq(1..Len(sent))
  <2>1. /\ read_frame(fed).rest = Part(m + 1, p) /\ (read_frame(fed).result = "frame" <=> Good(m + 1))
    BY <1>7
  <2>2. /\ rsBuf' = SubSeq(wire, start[(m + 1) + 1] + 1, p)
        /\ rsOut' = IF Good(m + 1) THEN Append(rsOut, m + 1) ELSE rsOut
    BY <1>1, <1>7, <2>1, Zenon DEF Part
  <2>3. /\ m + 1 \in 0..Len(sent) /\ (m + 1) + 1 = m + 2
        /\ \A i \in 1..(m + 1) : i \in 1..m \/ i = m + 1
        /\ \A i \in 1..m : i \in 1..(m + 1)
        /\ m + 1 \in 1..(m + 1) /\ m + 2 \in 1..(Len(sent) + 1)
    <3>1. m \in Nat /\ Len(sent) \in Nat /\ m + 1 \in 1..Len(sent)
      BY <1>3, <1>7, Zenon
    <3> QED
      BY <3>1
  <2>4. \A i \in 1..(m + 1) : sent[i].kind # "magic" /\ ~TooLarge(sent[i].len)
    BY <1>2, <1>7, <2>3, Zenon
  <2>5. start[m + 2] \in Nat /\ start[m + 2] <= p /\ p \in Nat
    BY <1>1, <1>3, <1>7, <2>3, StreamTypes, Zenon
  <2>6. p >= start[(m + 1) + 1]
    BY <2>3, <2>5
  <2>7. /\ \A i, j \in 1..Len(rsOut') : i < j => rsOut'[i] < rsOut'[j]
        /\ {rsOut'[i] : i \in 1..Len(rsOut')} = {i \in 1..(m + 1) : Good(i)}
        /\ rsOut' \in Seq(1..Len(sent))
    <3>1. CASE Good(m + 1)
      <4>1. rsOut' = Append(rsOut, m + 1)
        BY <2>2, <3>1, Zenon
      <4>2. rsOut \in Seq(Nat) /\ rsOut' \in Seq(1..Len(sent))
        <5>1. Append(rsOut, m + 1) \in Seq(1..Len(sent))
          <6>1. rsOut \in Seq(1..Len(sent)) /\ m + 1 \in 1..Len(sent)
            BY <1>1, <1>7, Zenon
          <6> QED
            BY <6>1
        <5>2. rsOut \in Seq(1..Len(sent))
          BY <1>1, Zenon
        <5>3. rsOut \in Seq(Nat)
          BY <5>2
        <5> QED
          BY <4>1, <5>1, <5>3, Zenon
      <4>3. {i \in 1..m : Good(i)} \subseteq 1..m
        BY Zenon
      <4>4. /\ \A i, j \in 1..Len(rsOut') : i < j => rsOut'[i] < rsOut'[j]
            /\ {rsOut'[i] : i \in 1..Len(rsOut')} = {i \in 1..m : Good(i)} \cup {m + 1}
        <5> DEFINE more == Append(rsOut, m + 1)
                   G == {i \in 1..m : Good(i)}
        <5>1. /\ \A i, j \in 1..Len(rsOut) : i < j => rsOut[i] < rsOut[j]
              /\ {rsOut[i] : i \in 1..Len(rsOut)} = G /\ G \subseteq 1..m
              /\ rsOut \in Seq(Nat) /\ m \in Nat
          BY <1>2, <1>3, <4>2, <4>3, Zenon
        <5> HIDE DEF G
        <5>2. /\ \A i, j \in 1..Len(more) : i < j => more[i] < more[j]
              /\ {more[i] : i \in 1..Len(more)} = G \cup {m + 1}
          BY <5>1, Extended, Zenon
        <5>3. more = rsOut'
          BY <4>1, Zenon
        <5> HIDE DEF more
        <5> QED
          BY <5>2, <5>3, Zenon DEF G
      <4>5. {i \in 1..(m + 1) : Good(i)} = {i \in 1..m : Good(i)} \cup {m + 1}
        BY <2>3, <3>1, Zenon
      <4> QED
        BY <4>2, <4>4, <4>5, Zenon
    <3>2. CASE ~Good(m + 1)
      <4>1. rsOut' = rsOut
        BY <2>2, <3>2, Zenon
      <4>2. {i \in 1..(m + 1) : Good(i)} = {i \in 1..m : Good(i)}
        BY <2>3, <3>2, Zenon
      <4> QED
        BY <1>1, <1>2, <4>1, <4>2, Zenon
    <3> QED
      BY <3>1, <3>2, Zenon
  <2> QED
    BY <1>1, <1>5, <2>2, <2>3, <2>4, <2>6, <2>7, Zenon DEF ClientReassembles
<1>8. p \in Nat /\ start[m + 1] <= p /\ p <= Len(wire)
  BY <1>1, <1>3, Zenon
<1>9. \/ \E result \in {"none", "error"} : read_frame(fed) = [result |-> result, rest |-> fed]
      \/ /\ m + 1 \in 1..Len(sent) /\ start[m + 2] <= p /\ fed[1].frame = m + 1
         /\ sent[m + 1].kind # "magic" /\ ~TooLarge(sent[m + 1].len)
         /\ read_frame(fed) =
              [result |-> IF Good(m + 1) THEN "frame" ELSE "error", rest |-> Part(m + 1, p)]
  BY <1>1, <1>4, <1>8, ClientReads, Zenon
<1> QED
  BY <1>6, <1>7, <1>9, Zenon

LEMMA ClientIdle ==
  ASSUME ClientReassembles, rsPos' = rsPos, rsBuf' = rsBuf, rsOut' = rsOut,
         sent' = sent, wire' = wire, start' = start
  PROVE  ClientReassembles'
<1>1. \A i : Good(i)' <=> Good(i)
  BY Zenon DEF Good, TooLarge
<1>2. PICK m \in 0..Len(sent) :
        /\ rsBuf = SubSeq(wire, start[m + 1] + 1, rsPos) /\ rsPos >= start[m + 1]
        /\ \A i, j \in 1..Len(rsOut) : i < j => rsOut[i] < rsOut[j]
        /\ {rsOut[i] : i \in 1..Len(rsOut)} = {i \in 1..m : Good(i)}
        /\ \A i \in 1..m : sent[i].kind # "magic" /\ ~TooLarge(sent[i].len)
  BY Zenon DEF ClientReassembles
<1>3. {i \in 1..m : Good(i)'} = {i \in 1..m : Good(i)}
  BY <1>1, Zenon
<1> QED
  BY <1>2, <1>3, Zenon DEF ClientReassembles

LEMMA ReaderStart == ReaderInit => ReaderInv
<1> SUFFICES ASSUME ReaderInit PROVE ReaderInv
  BY Zenon
<1>1. /\ sent = <<>> /\ wire = <<>> /\ start = <<0>> /\ goPos = 0 /\ rsPos = 0 /\ goBuf = <<>>
      /\ rsBuf = <<>> /\ goOut = <<>> /\ rsOut = <<>> /\ goMode = "read"
  BY Zenon DEF ReaderInit
<1>2. Len(sent) = 0 /\ Len(wire) = 0 /\ Len(goOut) = 0 /\ Len(rsOut) = 0 /\ start[1] = 0
  BY <1>1, Zenon
<1>3. 0 \in 0..0 /\ ~(0 < 0) /\ 0 <= 0 /\ 0 + 1 = 1 /\ 1..0 = {} /\ SubSeq(wire, 1, 0) = <<>>
  BY <1>1
<1>4. ReaderTypeOK
  BY <1>1, <1>2 DEF ReaderTypeOK
<1>5. Behind
  BY <1>2, <1>3, <1>1, Zenon DEF Behind
<1>6. ServerReassembles
  <2>1. goOut = [i \in 1..0 |-> i]
    BY <1>1
  <2>2. goMode # "closed"
    BY <1>1, Zenon
  <2> QED
    BY <1>1, <1>2, <1>3, <2>1, <2>2, Zenon DEF ServerReassembles
<1>7. ClientReassembles
  <2>1. /\ rsBuf = SubSeq(wire, start[0 + 1] + 1, rsPos) /\ rsPos >= start[0 + 1]
    BY <1>1, <1>2, <1>3, Zenon
  <2>2. {rsOut[i] : i \in 1..Len(rsOut)} = {i \in 1..0 : Good(i)}
    BY <1>2, <1>3, Zenon
  <2> QED
    BY <1>2, <1>3, <2>1, <2>2, Zenon DEF ClientReassembles
<1> QED
  BY <1>4, <1>5, <1>6, <1>7, StreamInit, Zenon DEF ReaderInv

LEMMA ReaderStep == ReaderInv /\ [ReaderNext]_readerVars => ReaderInv'
<1> SUFFICES ASSUME ReaderInv, [ReaderNext]_readerVars PROVE ReaderInv'
  BY Zenon
<1>0. /\ StreamInv /\ ReaderTypeOK /\ Behind /\ ServerReassembles /\ ClientReassembles
      /\ goPos \in 0..Len(wire) /\ rsPos \in 0..Len(wire)
      /\ goOut \in Seq(1..Len(sent)) /\ rsOut \in Seq(1..Len(sent))
      /\ goMode \in {"read", "parse", "closed", "gone"}
  BY Zenon DEF ReaderInv, ReaderTypeOK
<1>k. ASSUME UNCHANGED stream
      PROVE  /\ sent' = sent /\ wire' = wire /\ start' = start /\ StreamInv'
  BY <1>0, <1>k, Zenon DEF stream, StreamInv
<1>1. ASSUME NEW f \in Frames, Write(f) PROVE ReaderInv'
  <2>1. /\ Len(sent') = Len(sent) + 1 /\ Len(wire') = Len(wire) + Size(f)
        /\ Len(sent) \in Nat /\ Len(wire) \in Nat
    BY <1>0, <1>1, WriteKeeps, StreamTypes, Zenon
  <2>2. Size(f) \in Nat
    BY FrameTypes, Zenon
  <2>3. goPos \in 0..Len(wire') /\ rsPos \in 0..Len(wire')
    BY <1>0, <2>1, <2>2
  <2>4. goOut \in Seq(1..Len(sent')) /\ rsOut \in Seq(1..Len(sent'))
    BY <1>0, <2>1
  <2>5. /\ goPos' = goPos /\ rsPos' = rsPos /\ goOut' = goOut /\ rsOut' = rsOut /\ goMode' = goMode
    BY <1>1, Zenon DEF Write, goVars, rsVars
  <2>6. ReaderTypeOK'
    BY <1>0, <2>3, <2>4, <2>5, Zenon DEF ReaderTypeOK
  <2> QED
    BY <1>0, <1>1, <2>6, StreamWrite, ServerWrite, ClientWrite, Zenon DEF ReaderInv
<1>2. ASSUME NEW n \in 1..Len(wire), ConnRead(n) PROVE ReaderInv'
  <2>1. /\ goPos' = goPos + n /\ goPos + n <= Len(wire) /\ goMode' = "parse" /\ goOut' = goOut
        /\ rsPos' = rsPos /\ rsBuf' = rsBuf /\ rsOut' = rsOut
        /\ sent' = sent /\ wire' = wire /\ start' = start /\ StreamInv'
    BY <1>2, <1>k, Zenon DEF ConnRead, rsVars
  <2>2. goPos + n \in 0..Len(wire)
    BY <1>0, <2>1, StreamTypes
  <2>3. ReaderTypeOK'
    BY <1>0, <2>1, <2>2, Zenon DEF ReaderTypeOK
  <2>4. ClientReassembles'
    BY <1>0, <2>1, ClientIdle, Zenon
  <2> QED
    BY <1>2, <2>1, <2>3, <2>4, ServerConnRead, Zenon DEF ReaderInv
<1>3. ASSUME NEW n \in 1..Len(wire), Recv(n) PROVE ReaderInv'
  <2>1. /\ rsPos' = rsPos + n /\ rsPos + n <= Len(wire)
        /\ goPos' = goPos /\ goMode' = goMode /\ goOut' = goOut /\ goBuf' = goBuf
        /\ sent' = sent /\ wire' = wire /\ start' = start /\ StreamInv'
    BY <1>3, <1>k, Zenon DEF Recv, goVars
  <2>2. rsPos + n \in 0..Len(wire)
    BY <1>0, <2>1, StreamTypes
  <2>3. ClientReassembles' /\ rsOut' \in Seq(1..Len(sent))
    BY <1>3, ClientRecv, Zenon
  <2>4. ReaderTypeOK'
    BY <1>0, <2>1, <2>2, <2>3, Zenon DEF ReaderTypeOK
  <2>5. Behind' /\ ServerReassembles'
    BY <1>0, <2>1, Zenon DEF Behind, ServerReassembles, Good, TooLarge
  <2> QED
    BY <2>1, <2>3, <2>4, <2>5, Zenon DEF ReaderInv
<1>4. ASSUME InnerLoop PROVE ReaderInv'
  <2>1. /\ goPos' = goPos /\ goMode' = Mode(ReadFrame(goBuf).result)
        /\ rsPos' = rsPos /\ rsBuf' = rsBuf /\ rsOut' = rsOut
        /\ sent' = sent /\ wire' = wire /\ start' = start /\ StreamInv'
    BY <1>4, <1>k, Zenon DEF InnerLoop, rsVars
  <2>2. goMode' \in {"read", "parse", "closed", "gone"}
    BY <2>1, Zenon DEF Mode
  <2>3. Behind' /\ ServerReassembles'
    BY <1>4, ServerInnerLoop, Zenon
  <2>4. goOut' \in Seq(1..Len(sent))
    <3>1. PICK l \in Nat : l = Len(goOut') /\ l \in 0..Len(sent)
      <4>1. Len(goOut') \in 0..Len(sent)
        BY <2>1, <2>3, Zenon DEF Behind
      <4>2. Len(goOut') \in Nat
        BY <4>1
      <4> QED
        BY <4>1, <4>2, Zenon
    <3>2. goOut' = [i \in 1..l |-> i]
      BY <2>3, <3>1, Zenon DEF ServerReassembles
    <3>3. [i \in 1..l |-> i] \in Seq(1..Len(sent))
      BY <1>0, <3>1, StreamTypes
    <3> QED
      BY <3>2, <3>3, Zenon
  <2>5. ReaderTypeOK'
    BY <1>0, <2>1, <2>2, <2>4, Zenon DEF ReaderTypeOK
  <2>6. ClientReassembles'
    BY <1>0, <2>1, ClientIdle, Zenon
  <2> QED
    BY <2>1, <2>3, <2>5, <2>6, Zenon DEF ReaderInv
<1>5. ASSUME ReadFails PROVE ReaderInv'
  <2>1. /\ goPos' = goPos /\ goOut' = goOut /\ goBuf' = goBuf
        /\ rsPos' = rsPos /\ rsBuf' = rsBuf /\ rsOut' = rsOut
        /\ sent' = sent /\ wire' = wire /\ start' = start /\ StreamInv'
    BY <1>5, <1>k, Zenon DEF ReadFails, rsVars
  <2>2. goMode = "read" /\ goMode' = "gone"
    BY <1>5, Zenon DEF ReadFails
  <2>3. ReaderTypeOK'
    BY <1>0, <2>1, <2>2, Zenon DEF ReaderTypeOK
  <2>4. Behind' /\ ServerReassembles'
    BY <1>0, <2>1, <2>2, Zenon DEF Behind, ServerReassembles, Good, TooLarge
  <2>5. ClientReassembles'
    BY <1>0, <2>1, ClientIdle, Zenon
  <2> QED
    BY <2>1, <2>3, <2>4, <2>5, Zenon DEF ReaderInv
<1>6. CASE UNCHANGED readerVars
  <2>1. /\ goPos' = goPos /\ goMode' = goMode /\ goOut' = goOut /\ goBuf' = goBuf
        /\ rsPos' = rsPos /\ rsBuf' = rsBuf /\ rsOut' = rsOut
        /\ sent' = sent /\ wire' = wire /\ start' = start /\ StreamInv'
    BY <1>6, <1>k, Zenon DEF readerVars, goVars, rsVars
  <2>2. ReaderTypeOK'
    BY <1>0, <2>1, Zenon DEF ReaderTypeOK
  <2>3. Behind' /\ ServerReassembles'
    BY <1>0, <2>1, Zenon DEF Behind, ServerReassembles, Good, TooLarge
  <2>4. ClientReassembles'
    BY <1>0, <2>1, ClientIdle, Zenon
  <2> QED
    BY <2>1, <2>2, <2>3, <2>4, Zenon DEF ReaderInv
<1> QED
  BY <1>1, <1>2, <1>3, <1>4, <1>5, <1>6, Zenon DEF ReaderNext

LEMMA ReaderAlways == ReaderSpec => []ReaderInv
<1> QED
  BY ReaderStart, ReaderStep, PTL DEF ReaderSpec

\* For every header size, length limit, set of frames and way the stream is
\* cut into reads: the server's ReadFrame loop handles exactly the frames of
\* the stream in order up to the first bad one, holds exactly the bytes read
\* and not handled, and stops only for lack of bytes or at a bad frame.
THEOREM ServerReassemblesHolds == ReaderSpec => []ServerReassembles
<1>1. ReaderInv => ServerReassembles
  BY Zenon DEF ReaderInv
<1> QED
  BY <1>1, ReaderAlways, PTL

\* The same for the client's read_frame behind recv, which also gets past a
\* frame with a bad version or checksum: it never returns a frame twice, out
\* of order or made of bytes of two frames, and loses no good one it passed.
THEOREM ClientReassemblesHolds == ReaderSpec => []ClientReassembles
<1>1. ReaderInv => ClientReassembles
  BY Zenon DEF ReaderInv
<1> QED
  BY <1>1, ReaderAlways, PTL

=============================================================================
