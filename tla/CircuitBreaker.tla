--------------------------- MODULE CircuitBreaker ----------------------------
(***************************************************************************)
(* The two circuit breakers: CircuitBreaker of server/webbou/state.go,     *)
(* whose state is guarded by an RWMutex, and the one of the client's       *)
(* config.rs, made of atomics.  A call is one action per access to shared  *)
(* state.  The counter of successes, which nothing reads, is left out;     *)
(* lastFail is kept as an age, which stops counting past the timeout.      *)
(***************************************************************************)
EXTENDS Integers

CONSTANTS
  Callers,          \* goroutines or threads that use the breaker
  BreakerThreshold,
  BreakerTimeout

ASSUME BreakerAssumption ==
  BreakerThreshold \in Nat \ {0} /\ BreakerTimeout \in Nat

VARIABLES
  build,      \* which breaker this is: "go" or "rust"
  circuit,    \* cb.state
  failures,   \* consecutive failures; more than the threshold are not told apart
  lastFail,   \* time since the last failure
  calls       \* what each caller is doing

breaker == <<build, circuit, failures, lastFail, calls>>

Never == -1   \* last_failure is None

\* The zero time.Time of a new Go breaker is long ago.
BreakerInit ==
  /\ build \in {"go", "rust"} /\ circuit = "closed" /\ failures = 0
  /\ lastFail = IF build = "go" THEN BreakerTimeout + 1 ELSE Never
  /\ calls = [c \in Callers |-> "idle"]

Go(c, from, to) ==
  /\ build = "go" /\ calls[c] = from
  /\ calls' = [calls EXCEPT ![c] = to]
  /\ UNCHANGED build

Rust(c, from, to) ==
  /\ build = "rust" /\ calls[c] = from
  /\ calls' = [calls EXCEPT ![c] = to]
  /\ UNCHANGED build

Reached(c, from, to) == Go(c, from, to) \/ Rust(c, from, to)

-----------------------------------------------------------------------------
(* Failure and Success, up to the point where they look at the state *)

Failure(c) ==
  /\ Reached(c, "idle", "failed")
  /\ failures' = IF failures = BreakerThreshold THEN failures ELSE failures + 1
  /\ UNCHANGED <<circuit, lastFail>>

Unstamped_StampFailure(c) ==
  /\ Reached(c, "failed", "stamped")
  /\ UNCHANGED <<circuit, failures, lastFail>>

\* Go writes lastFail without the mutex.
StampFailure(c) ==
  /\ Reached(c, "failed", "stamped")
  /\ lastFail' = 0
  /\ UNCHANGED <<circuit, failures>>

Compare(c) ==
  /\ Reached(c, "stamped", IF failures >= BreakerThreshold THEN "opening" ELSE "idle")
  /\ UNCHANGED <<circuit, failures, lastFail>>

Success(c) ==
  /\ Reached(c, "idle", "succeeded")
  /\ failures' = 0
  /\ UNCHANGED <<circuit, lastFail>>

-----------------------------------------------------------------------------
(* The Go breaker.  A call of Allow that finds the breaker open for longer   *)
(* than the timeout calls cb.mu.Lock() while its own RLock is held: it waits *)
(* for itself, and as a waiting writer keeps all others out.                 *)

Free == \A c \in Callers : calls[c] \notin {"reading", "stuck"}

GoAllow(c) ==
  /\ \A d \in Callers : calls[d] # "stuck"
  /\ Go(c, "idle", "reading")
  /\ UNCHANGED <<circuit, failures, lastFail>>

\* A time.Time that another goroutine is writing may read as anything.
Torn == \E c \in Callers : calls[c] = "failed"

GoAnswer(c) ==
  /\ circuit # "open" \/ lastFail <= BreakerTimeout \/ Torn
  /\ Go(c, "reading", "idle")
  /\ UNCHANGED <<circuit, failures, lastFail>>

GoUpgrade(c) ==
  /\ circuit = "open" /\ (lastFail > BreakerTimeout \/ Torn)
  /\ Go(c, "reading", "stuck")
  /\ UNCHANGED <<circuit, failures, lastFail>>

Unguarded_GoClose(c) ==
  /\ Free /\ Go(c, "succeeded", "idle")
  /\ circuit' = "closed"
  /\ UNCHANGED <<failures, lastFail>>

GoClose(c) ==
  /\ Free /\ Go(c, "succeeded", "idle")
  /\ circuit' = IF circuit = "half" THEN "closed" ELSE circuit
  /\ UNCHANGED <<failures, lastFail>>

GoOpen(c) ==
  /\ Free /\ Go(c, "opening", "idle")
  /\ circuit' = "open"
  /\ UNCHANGED <<failures, lastFail>>

-----------------------------------------------------------------------------
(* The Rust breaker: the same, one atomic access at a time *)

\* The load of allow; unless the breaker is open it is all of the call.
RustAllow(c) ==
  /\ circuit = "open" /\ Rust(c, "idle", "reading")
  /\ UNCHANGED <<circuit, failures, lastFail>>

\* last_failure stays read-locked until the store.
RustJudge(c) ==
  /\ Rust(c, "reading", "idle")
  /\ circuit' = IF lastFail > BreakerTimeout THEN "half" ELSE circuit
  /\ UNCHANGED <<failures, lastFail>>

RustCheck(c) ==
  /\ Rust(c, "succeeded", IF circuit = "half" THEN "closing" ELSE "idle")
  /\ UNCHANGED <<circuit, failures, lastFail>>

RustClose(c) ==
  /\ Rust(c, "closing", "idle")
  /\ circuit' = "closed"
  /\ UNCHANGED <<failures, lastFail>>

RustOpen(c) ==
  /\ Rust(c, "opening", "idle")
  /\ circuit' = "open"
  /\ UNCHANGED <<failures, lastFail>>

-----------------------------------------------------------------------------
BreakerTick ==
  /\ lastFail \in 0..BreakerTimeout
  /\ lastFail' = lastFail + 1
  /\ UNCHANGED <<build, circuit, failures, calls>>

\* What a call does on its own once it has been made.
Finish(c) ==
  \/ StampFailure(c) \/ Compare(c)
  \/ GoAnswer(c) \/ GoUpgrade(c) \/ GoClose(c) \/ GoOpen(c)
  \/ RustJudge(c) \/ RustCheck(c) \/ RustClose(c) \/ RustOpen(c)

BreakerNext ==
  \/ \E c \in Callers : \/ Failure(c) \/ Success(c) \/ GoAllow(c) \/ RustAllow(c)
                        \/ Finish(c)
  \/ BreakerTick

\* Threads run, and time passes; nobody has to use the breaker.
BreakerSpec ==
  /\ BreakerInit /\ [][BreakerNext]_breaker
  /\ WF_breaker(BreakerTick) /\ \A c \in Callers : WF_breaker(Finish(c))

-----------------------------------------------------------------------------
\* Types.
BreakerTypeOK ==
  /\ build \in {"go", "rust"} /\ circuit \in {"closed", "open", "half"}
  /\ failures \in 0..BreakerThreshold /\ lastFail \in Never..BreakerTimeout + 1
  /\ calls \in [Callers -> {"idle", "failed", "stamped", "opening", "succeeded", "closing",
                            "reading", "stuck"}]

\* The Go breaker that has opened stays open whatever is reported to it and
\* however long it is left alone: the only way out is the half-open state, and
\* the Allow that should enter it blocks on the read lock it holds itself.
OpenIsFinal == [][build = "go" /\ circuit = "open" => circuit' = "open"]_breaker

\* The Rust breaker recovers: when failures cease and, while it is open, allow
\* keeps being called, it leaves the open state for good, however the calls of
\* allow, success and failure interleave.
RustRecovers ==
  (/\ build = "rust"
   /\ <>[](\A c \in Callers : calls[c] # "failed")
   /\ []<>(circuit = "open" => \E c \in Callers : calls[c] = "reading"))
  => <>[](circuit # "open")

=============================================================================
