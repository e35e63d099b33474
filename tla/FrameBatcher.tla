---------------------------- MODULE FrameBatcher -----------------------------
(***************************************************************************)
(* FrameBatcher of server/webbou/batch.go: Add appends under the mutex and *)
(* wakes flushLoop when the batch is full; flushLoop, on that signal or on *)
(* its ticker, and callers of Flush take the batch under the mutex and run *)
(* onFlush after giving the mutex up.                                      *)
(***************************************************************************)
EXTENDS Integers, Sequences, FiniteSets, Functions

CONSTANTS
  loop,        \* the goroutine of flushLoop
  Callers,     \* goroutines that call Flush
  maxFrames,
  Total        \* bound on the frames ever added

ASSUME BatcherAssumption ==
  /\ maxFrames \in Nat \ {0} /\ Total \in Nat
  /\ loop \notin Callers

Flushers == Callers \cup {loop}

VARIABLES
  frames,      \* fb.frames; frames are numbered in the order of Add
  flushChan,   \* does the channel hold its one signal?
  ticker,      \* does ticker.C hold a tick?
  pc, batch,   \* of each goroutine in flush
  added,       \* History: the number of the last frame added,
  delivered    \* and the frames given to onFlush, in that order, and by whom

vars == <<frames, flushChan, ticker, pc, batch, added, delivered>>

Init ==
  /\ frames = <<>> /\ flushChan = FALSE /\ ticker = FALSE
  /\ pc = [p \in Flushers |-> "idle"]
  /\ batch = [p \in Flushers |-> <<>>]
  /\ added = 0 /\ delivered = <<>>

Quiet_Add ==
  /\ added < Total
  /\ added' = added + 1
  /\ frames' = Append(frames, added')
  /\ flushChan' = (flushChan \/ Len(frames) = maxFrames)
  /\ UNCHANGED <<ticker, pc, batch, delivered>>

\* triggerFlush never blocks: a signal already there is enough.
Add ==
  /\ added < Total
  /\ added' = added + 1
  /\ frames' = Append(frames, added')
  /\ flushChan' = (flushChan \/ Len(frames') >= maxFrames)
  /\ UNCHANGED <<ticker, pc, batch, delivered>>

TickerFires ==
  /\ ticker' = TRUE
  /\ UNCHANGED <<frames, flushChan, pc, batch, added, delivered>>

Untimed_FlushOnTick == FALSE /\ UNCHANGED vars

\* The select of flushLoop, either way.
FlushOnTick ==
  /\ pc[loop] = "idle" /\ ticker
  /\ ticker' = FALSE
  /\ pc' = [pc EXCEPT ![loop] = "flush"]
  /\ UNCHANGED <<frames, flushChan, batch, added, delivered>>

FlushOnSignal ==
  /\ pc[loop] = "idle" /\ flushChan
  /\ flushChan' = FALSE
  /\ pc' = [pc EXCEPT ![loop] = "flush"]
  /\ UNCHANGED <<frames, ticker, batch, added, delivered>>

Flush(p) ==
  /\ pc[p] = "idle"
  /\ pc' = [pc EXCEPT ![p] = "flush"]
  /\ UNCHANGED <<frames, flushChan, ticker, batch, added, delivered>>

NothingToFlush(p) ==
  /\ pc[p] = "flush" /\ frames = <<>>
  /\ pc' = [pc EXCEPT ![p] = "idle"]
  /\ UNCHANGED <<frames, flushChan, ticker, batch, added, delivered>>

Popping_TakeBatch(p) ==
  /\ pc[p] = "flush" /\ frames # <<>>
  /\ batch' = [batch EXCEPT ![p] = [i \in DOMAIN frames |-> frames[Len(frames) + 1 - i]]]
  /\ frames' = <<>>
  /\ pc' = [pc EXCEPT ![p] = "deliver"]
  /\ UNCHANGED <<flushChan, ticker, added, delivered>>

\* The critical section of flush.
TakeBatch(p) ==
  /\ pc[p] = "flush" /\ frames # <<>>
  /\ batch' = [batch EXCEPT ![p] = frames]
  /\ frames' = <<>>
  /\ pc' = [pc EXCEPT ![p] = "deliver"]
  /\ UNCHANGED <<flushChan, ticker, added, delivered>>

By(p, given) == [i \in 1..Len(given) |-> [by |-> p, frame |-> given[i]]]

Forgetful_OnFlush(p) ==
  /\ pc[p] = "deliver"
  /\ delivered' = delivered \o By(p, batch[p])
  /\ batch' = [batch EXCEPT ![p] = <<>>]
  /\ frames' = <<>>
  /\ pc' = [pc EXCEPT ![p] = "idle"]
  /\ UNCHANGED <<flushChan, ticker, added>>

\* onFlush(frames), with the mutex free.
OnFlush(p) ==
  /\ pc[p] = "deliver"
  /\ delivered' = delivered \o By(p, batch[p])
  /\ batch' = [batch EXCEPT ![p] = <<>>]
  /\ pc' = [pc EXCEPT ![p] = "idle"]
  /\ UNCHANGED <<frames, flushChan, ticker, added>>

FlushStep(p) == NothingToFlush(p) \/ TakeBatch(p) \/ OnFlush(p)
LoopStep == FlushOnTick \/ FlushOnSignal \/ FlushStep(loop)

Next ==
  \/ Add \/ TickerFires \/ LoopStep
  \/ \E p \in Callers : Flush(p) \/ FlushStep(p)

\* The ticker keeps ticking, and goroutines and onFlush make progress.
Spec ==
  /\ Init /\ [][Next]_vars
  /\ WF_vars(TickerFires) /\ WF_vars(LoopStep)
  /\ \A p \in Callers : WF_vars(FlushStep(p))

-----------------------------------------------------------------------------
\* Types, and a batch is in hand exactly while onFlush is due.
TypeOK ==
  /\ frames \in Seq(1..Total)
  /\ flushChan \in BOOLEAN /\ ticker \in BOOLEAN
  /\ pc \in [Flushers -> {"idle", "flush", "deliver"}]
  /\ batch \in [Flushers -> Seq(1..Total)]
  /\ added \in 0..Total /\ delivered \in Seq([by : Flushers, frame : 1..Total])
  /\ \A p \in Flushers : pc[p] = "deliver" <=> batch[p] # <<>>

\* The wake-up for a full batch is never lost, whichever of flushLoop and the
\* callers of Flush empties the batch and however many Adds meet a signal that
\* is still in the channel: while the batch is full, flushLoop has a signal to
\* see or is about to flush.
FullIsSignalled ==
  Len(frames) >= maxFrames => flushChan \/ pc[loop] = "flush"

\* Frames never overtake each other on their way through one goroutine: what
\* flushLoop hands to onFlush, and what each caller of Flush does, is in the
\* order of Add, although batches of different goroutines may overtake.
InOrder == \A i, j \in 1..Len(delivered) :
  (i < j /\ delivered[i].by = delivered[j].by)
    => delivered[i].frame < delivered[j].frame

\* Every frame added is given to onFlush once, and eventually, with any number
\* of concurrent flushes.
Pending == Range(frames) \cup UNION {Range(batch[p]) : p \in Flushers}
Promise == INSTANCE FrameDelivery WITH
             Frames <- 1..Total, pending <- Pending,
             times <- [f \in 1..Total |->
               Cardinality({i \in 1..Len(delivered) : delivered[i].frame = f})]
DeliversOnce == Promise!Safety
DeliversAll == Promise!AllDelivered

=============================================================================
