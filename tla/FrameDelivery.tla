--------------------------- MODULE FrameDelivery -----------------------------
(***************************************************************************)
(* What a batcher promises its users: every frame given to it is handed to *)
(* onFlush, exactly once.  Nothing is said about the order of batches.     *)
(***************************************************************************)
EXTENDS Naturals

CONSTANT Frames

VARIABLES
  pending,    \* frames accepted and not yet handed over
  times       \* how often each frame was handed over

vars == <<pending, times>>

Init == pending = {} /\ times = [f \in Frames |-> 0]

Accept(f) ==
  /\ f \notin pending /\ times[f] = 0
  /\ pending' = pending \cup {f}
  /\ UNCHANGED times

Deliver(batch) ==
  /\ batch # {} /\ batch \subseteq pending
  /\ pending' = pending \ batch
  /\ times' = [f \in Frames |-> IF f \in batch THEN times[f] + 1 ELSE times[f]]

Next == \/ \E f \in Frames : Accept(f)
        \/ \E batch \in SUBSET Frames : Deliver(batch)

Safety == Init /\ [][Next]_vars

AllDelivered == \A f \in Frames : f \in pending ~> times[f] = 1

Spec == Safety /\ AllDelivered
=============================================================================
