----------------------- MODULE BackPressureController ------------------------
(***************************************************************************)
(* BackPressureController of the client's batch.rs: a counter of bytes in  *)
(* use, kept with atomics.  try_acquire loads and then adds; release loads *)
(* and then stores, so what happens in between is overwritten.  A writer   *)
(* releases what it acquired, all or part of it.                           *)
(***************************************************************************)
EXTENDS Integers

CONSTANTS
  Writers,
  Sizes,                         \* amounts acquired and released
  highWaterMark, lowWaterMark,
  MaxUsage                       \* bound on usage, which can drift upwards for ever

ASSUME PressureAssumption ==
  Sizes \subseteq Nat /\ {highWaterMark, lowWaterMark, MaxUsage} \subseteq Nat

VARIABLES
  enabled, usage, paused,
  doing, seen, amount,   \* of each writer: its step, the usage it loaded, its amount
  mine,                  \* what each writer has acquired and not released
  held,                  \* History: the sum of mine;
  overlapped,            \* was usage changed while a release had it loaded?
  uncounted              \* was anything acquired while disabled?

writing == <<doing, seen, amount>>
pressure == <<enabled, usage, paused, writing, mine, held, overlapped, uncounted>>

PressureInit ==
  /\ enabled = TRUE /\ usage = 0 /\ paused = FALSE
  /\ doing = [w \in Writers |-> "idle"]
  /\ seen = [w \in Writers |-> 0] /\ amount = [w \in Writers |-> 0]
  /\ mine = [w \in Writers |-> 0] /\ held = 0
  /\ overlapped = FALSE /\ uncounted = FALSE

Load(w, a, to) ==
  /\ doing[w] = "idle"
  /\ doing' = [doing EXCEPT ![w] = to]
  /\ seen' = [seen EXCEPT ![w] = usage]
  /\ amount' = [amount EXCEPT ![w] = a]

Done(w) ==
  /\ doing' = [doing EXCEPT ![w] = "idle"]
  /\ seen' = [seen EXCEPT ![w] = 0]
  /\ amount' = [amount EXCEPT ![w] = 0]

OtherReleases(w) == \E v \in Writers \ {w} : doing[v] = "release"

-----------------------------------------------------------------------------
(* try_acquire *)

AcquireDisabled(w, a) ==
  /\ ~enabled /\ doing[w] = "idle" /\ mine[w] = 0
  /\ mine' = [mine EXCEPT ![w] = a] /\ held' = held + a
  /\ uncounted' = TRUE
  /\ UNCHANGED <<enabled, usage, paused, writing, overlapped>>

TryAcquire(w, a) ==
  /\ enabled /\ mine[w] = 0 /\ Load(w, a, "acquire")
  /\ UNCHANGED <<enabled, usage, paused, mine, held, overlapped, uncounted>>

Refuse(w) ==
  /\ doing[w] = "acquire" /\ seen[w] + amount[w] > highWaterMark
  /\ paused' = TRUE
  /\ Done(w)
  /\ UNCHANGED <<enabled, usage, mine, held, overlapped, uncounted>>

Grant(w) ==
  /\ doing[w] = "acquire" /\ seen[w] + amount[w] <= highWaterMark
  /\ usage + amount[w] <= MaxUsage
  /\ usage' = usage + amount[w]
  /\ mine' = [mine EXCEPT ![w] = amount[w]] /\ held' = held + amount[w]
  /\ overlapped' = (overlapped \/ OtherReleases(w))
  /\ Done(w)
  /\ UNCHANGED <<enabled, paused, uncounted>>

-----------------------------------------------------------------------------
(* release *)

Release(w, a) ==
  /\ a <= mine[w] /\ Load(w, a, "release")
  /\ UNCHANGED <<enabled, usage, paused, mine, held, overlapped, uncounted>>

Resumed(w, left) ==
  /\ doing' = [doing EXCEPT ![w] = "resume"]
  /\ seen' = [seen EXCEPT ![w] = left]
  /\ amount' = [amount EXCEPT ![w] = 0]

\* saturating_sub
Minus(n, a) == IF n > a THEN n - a ELSE 0

Unreduced_Store(w) ==
  /\ doing[w] = "release"
  /\ usage' = seen[w]
  /\ mine' = [mine EXCEPT ![w] = @ - amount[w]] /\ held' = held - amount[w]
  /\ overlapped' = (overlapped \/ OtherReleases(w))
  /\ Resumed(w, usage')
  /\ UNCHANGED <<enabled, paused, uncounted>>

Store(w) ==
  /\ doing[w] = "release"
  /\ usage' = Minus(seen[w], amount[w])
  /\ mine' = [mine EXCEPT ![w] = @ - amount[w]] /\ held' = held - amount[w]
  /\ overlapped' = (overlapped \/ OtherReleases(w))
  /\ Resumed(w, usage')
  /\ UNCHANGED <<enabled, paused, uncounted>>

Resume(w) ==
  /\ doing[w] = "resume"
  /\ paused' = (paused /\ seen[w] >= lowWaterMark)
  /\ Done(w)
  /\ UNCHANGED <<enabled, usage, mine, held, overlapped, uncounted>>

-----------------------------------------------------------------------------
\* enable and disable
Switch ==
  /\ enabled' = ~enabled
  /\ UNCHANGED <<usage, paused, writing, mine, held, overlapped, uncounted>>

PressureNext ==
  \/ \E w \in Writers :
       \/ \E a \in Sizes : AcquireDisabled(w, a) \/ TryAcquire(w, a) \/ Release(w, a)
       \/ Refuse(w) \/ Grant(w) \/ Store(w) \/ Resume(w)
  \/ Switch

PressureSpec == PressureInit /\ [][PressureNext]_pressure

-----------------------------------------------------------------------------
\* The counter is exact as long as no other call of try_acquire or release
\* takes effect between the load and the store of a release, and nothing is
\* acquired while the controller is disabled: only these two make it drift,
\* and neither a refusal, a pause nor saturating_sub ever does.
UsageExact == usage = held \/ overlapped \/ uncounted

=============================================================================
