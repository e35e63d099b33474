------------------------------ MODULE Heartbeat ------------------------------
(***************************************************************************)
(* HeartbeatManager of client/src/webbou/heartbeat.rs.  Every successful   *)
(* connect spawns a heartbeat task; all tasks share last_activity and      *)
(* is_running.  A ping needs the lock on the client's connection, which    *)
(* recv holds for as long as it waits for the server.                      *)
(*                                                                         *)
(* Time advances in units of which Interval make the 10 seconds between    *)
(* ticks; a task that can run does so before time advances.                *)
(***************************************************************************)
EXTENDS Integers

CONSTANTS
  Beats,     \* the heartbeat tasks that may be spawned
  Interval,  \* units between ticks
  Timeout,   \* units without activity after which a task gives up
  MaxLag     \* bound on how far a blocked task may fall behind its ticker

ASSUME HeartbeatAssumption ==
  /\ Interval \in Nat \ {0} /\ Timeout \in Nat /\ MaxLag \in Nat
  /\ 2 * Interval < Timeout

VARIABLES
  is_running,
  idle,       \* last_activity.elapsed(), no larger than Timeout
  pc,         \* program counter of each task
  left,       \* units to the next tick of its ticker, missed ticks are made up
  locked,     \* does a recv hold the connection?
  age,        \* History: units since the task was started, as idle,
  timedOut    \* and did it end with "Connection timeout"?

vars == <<is_running, idle, pc, left, locked, age, timedOut>>

\* The client is created; nothing keeps it from connecting much later.
Init ==
  /\ is_running = FALSE /\ idle = 0 /\ locked = FALSE
  /\ pc = [h \in Beats |-> "none"]
  /\ left = [h \in Beats |-> 0]
  /\ age = [h \in Beats |-> 0]
  /\ timedOut = [h \in Beats |-> FALSE]

To(h, label) == pc' = [pc EXCEPT ![h] = label]

-----------------------------------------------------------------------------
(* Called by the client *)

\* The first tick of a ticker is immediate.
Start(h) ==
  /\ pc[h] = "none"
  /\ is_running' = TRUE
  /\ To(h, "wait")
  /\ left' = [left EXCEPT ![h] = 0]
  /\ UNCHANGED <<idle, locked, age, timedOut>>

Stop ==
  /\ is_running' = FALSE
  /\ UNCHANGED <<idle, pc, left, locked, age, timedOut>>

MarkActivity ==
  /\ idle' = 0
  /\ UNCHANGED <<is_running, pc, left, locked, age, timedOut>>

\* recv takes the connection, or gives it back.
RecvLocks ==
  /\ locked' = ~locked
  /\ UNCHANGED <<is_running, idle, pc, left, age, timedOut>>

-----------------------------------------------------------------------------
(* The spawned task *)

Deaf_Tick(h) ==
  /\ pc[h] = "wait" /\ left[h] <= 0
  /\ left' = [left EXCEPT ![h] = @ + Interval]
  /\ To(h, "check")
  /\ UNCHANGED <<is_running, idle, locked, age, timedOut>>

Tick(h) ==
  /\ pc[h] = "wait" /\ left[h] <= 0
  /\ left' = [left EXCEPT ![h] = @ + Interval]
  /\ To(h, IF is_running THEN "check" ELSE "exit")
  /\ UNCHANGED <<is_running, idle, locked, age, timedOut>>

Swapped_CheckIdle(h) ==
  /\ pc[h] = "check"
  /\ To(h, IF idle >= Interval THEN "exit" ELSE "wait")
  /\ timedOut' = [timedOut EXCEPT ![h] = idle >= Interval]
  /\ UNCHANGED <<is_running, idle, left, locked, age>>

CheckIdle(h) ==
  /\ pc[h] = "check"
  /\ To(h, CASE idle >= Timeout -> "exit"
             [] Interval <= idle /\ idle < Timeout -> "send"
             [] idle < Interval -> "wait")
  /\ timedOut' = [timedOut EXCEPT ![h] = idle >= Timeout]
  /\ UNCHANGED <<is_running, idle, left, locked, age>>

\* send_fn: written, or no connection, which also is Ok; or a write error.
Ping(h) ==
  /\ pc[h] = "send" /\ ~locked
  /\ To(h, "stamp") \/ To(h, "exit")
  /\ UNCHANGED <<is_running, idle, left, locked, age, timedOut>>

\* The ping itself counts as activity.
Unstamped_Stamp(h) ==
  /\ pc[h] = "stamp"
  /\ To(h, "wait")
  /\ UNCHANGED <<is_running, idle, left, locked, age, timedOut>>

Stamp(h) ==
  /\ pc[h] = "stamp"
  /\ idle' = 0
  /\ To(h, "wait")
  /\ UNCHANGED <<is_running, left, locked, age, timedOut>>

Exit(h) ==
  /\ pc[h] = "exit"
  /\ is_running' = FALSE
  /\ To(h, "dead")
  /\ UNCHANGED <<idle, left, locked, age, timedOut>>

Beat(h) == Tick(h) \/ CheckIdle(h) \/ Ping(h) \/ Stamp(h) \/ Exit(h)

-----------------------------------------------------------------------------
Live(h) == pc[h] \notin {"none", "dead"}

Parked(h) ==
  \/ ~Live(h)
  \/ pc[h] = "wait" /\ left[h] > 0
  \/ pc[h] = "send" /\ locked

Advance ==
  /\ \A h \in Beats : Parked(h) /\ (Live(h) => left[h] > -MaxLag)
  /\ idle' = IF idle < Timeout THEN idle + 1 ELSE idle
  /\ left' = [h \in Beats |-> IF Live(h) THEN left[h] - 1 ELSE left[h]]
  /\ age' = [h \in Beats |-> IF Live(h) /\ age[h] < Timeout
                              THEN age[h] + 1 ELSE age[h]]
  /\ UNCHANGED <<is_running, pc, locked, timedOut>>

Next ==
  \/ \E h \in Beats : Start(h) \/ Beat(h)
  \/ Stop \/ MarkActivity \/ RecvLocks \/ Advance

\* Tasks that can run do, and time passes.  The tokio RwLock is fair, so a ping
\* gets a connection that is given back again and again.
Spec ==
  /\ Init /\ [][Next]_vars
  /\ WF_vars(Advance)
  /\ \A h \in Beats : WF_vars(Beat(h)) /\ SF_vars(Ping(h))

-----------------------------------------------------------------------------
\* Types.
TypeOK ==
  /\ is_running \in BOOLEAN /\ locked \in BOOLEAN
  /\ idle \in 0..Timeout
  /\ pc \in [Beats -> {"none", "wait", "check", "send", "stamp", "exit", "dead"}]
  /\ left \in [Beats -> (-MaxLag)..Interval]
  /\ age \in [Beats -> 0..Timeout] /\ timedOut \in [Beats -> BOOLEAN]

\* A heartbeat that waits for its next tick will find the link idle for less
\* than two intervals then, whatever other heartbeats run, however its ticks
\* were delayed by a recv that held the connection.
Cadence == \A h \in Beats : pc[h] = "wait" /\ age[h] > 0 => idle + left[h] < 2 * Interval

\* A heartbeat only ever reports a timeout in the instant it is started: later
\* the pings it sends count as activity, also when the server is silent.
TimeoutOnlyAtStart == \A h \in Beats : timedOut[h] => age[h] = 0

\* Once the client is stopped for good, every heartbeat task ends, unless a recv
\* keeps the connection for ever.
StopEndsHeartbeats ==
  <>[]~is_running /\ []<>~locked => \A h \in Beats : <>[]~Live(h)

=============================================================================
