------------------------- MODULE FlowControlManager --------------------------
(***************************************************************************)
(* FlowControlManager of server/webbou/auth.go: a window for the           *)
(* connection and one for each stream, the latter created with the default *)
(* size by the first ConsumeStreamData.  Every method runs under fc.mu.    *)
(* Windows are uint64 and wrap below zero.                                 *)
(***************************************************************************)
EXTENDS Integers

CONSTANTS
  Streams,
  WordSize,        \* 2^64
  maxStreamData,   \* the default window, of a stream and of the connection
  Windows,         \* windows that are set
  Amounts          \* amounts that are consumed

Words == 0..WordSize - 1

ASSUME FlowAssumption ==
  /\ WordSize \in Nat \ {0} /\ maxStreamData \in Words
  /\ Windows \subseteq Words /\ Amounts \subseteq Words

VARIABLES
  maxData, availData,
  opened,             \* keys of availStreamData
  availStreamData,
  \* History: what was granted since a window was last set, the windows of the
  \* streams, and the streams whose first amount exceeded the default window.
  spentData, spentStream, streamWindow, underflowed

flow == <<maxData, availData, opened, availStreamData,
          spentData, spentStream, streamWindow, underflowed>>
connection == <<maxData, availData, spentData>>
streams == <<opened, availStreamData, spentStream, streamWindow, underflowed>>

FlowInit ==
  /\ maxData = maxStreamData /\ availData = maxData /\ opened = {}
  /\ availStreamData = [s \in Streams |-> 0]
  /\ spentData = 0 /\ spentStream = [s \in Streams |-> 0]
  /\ streamWindow = [s \in Streams |-> maxStreamData] /\ underflowed = {}

\* InitConnection and UpdateMaxData.
UpdateMaxData(max) ==
  /\ maxData' = max /\ availData' = max
  /\ spentData' = 0
  /\ UNCHANGED streams

\* InitStream and UpdateMaxStreamData.
UpdateMaxStreamData(s, max) ==
  /\ opened' = opened \cup {s}
  /\ availStreamData' = [availStreamData EXCEPT ![s] = max]
  /\ spentStream' = [spentStream EXCEPT ![s] = 0]
  /\ streamWindow' = [streamWindow EXCEPT ![s] = max]
  /\ underflowed' = underflowed \ {s}
  /\ UNCHANGED connection

\* Otherwise the amount is refused, and nothing changes.
ConsumeData(n) ==
  /\ availData >= n
  /\ availData' = availData - n
  /\ spentData' = spentData + n
  /\ UNCHANGED <<maxData, streams>>

Minus64(m, n) == IF m >= n THEN m - n ELSE m - n + WordSize

\* The first use subtracts before it compares.
OpenStream(s, n) ==
  /\ s \notin opened
  /\ opened' = opened \cup {s}
  /\ availStreamData' = [availStreamData EXCEPT ![s] = Minus64(maxStreamData, n)]
  /\ \/ /\ n <= maxStreamData
        /\ spentStream' = [spentStream EXCEPT ![s] = n]
        /\ UNCHANGED underflowed
     \/ /\ n > maxStreamData
        /\ underflowed' = underflowed \cup {s}
        /\ UNCHANGED spentStream
  /\ UNCHANGED <<streamWindow, connection>>

Wrapping_ConsumeStream(s, n) ==
  /\ s \in opened
  /\ availStreamData' = [availStreamData EXCEPT ![s] = Minus64(@, n)]
  /\ spentStream' = [spentStream EXCEPT ![s] = IF availStreamData[s] >= n THEN @ + n ELSE @]
  /\ UNCHANGED <<opened, streamWindow, underflowed, connection>>

ConsumeStream(s, n) ==
  /\ s \in opened /\ availStreamData[s] >= n
  /\ availStreamData' = [availStreamData EXCEPT ![s] = @ - n]
  /\ spentStream' = [spentStream EXCEPT ![s] = @ + n]
  /\ UNCHANGED <<opened, streamWindow, underflowed, connection>>

FlowNext ==
  \/ \E max \in Windows : UpdateMaxData(max) \/ \E s \in Streams : UpdateMaxStreamData(s, max)
  \/ \E n \in Amounts : \/ ConsumeData(n)
                        \/ \E s \in Streams : OpenStream(s, n) \/ ConsumeStream(s, n)

FlowSpec == FlowInit /\ [][FlowNext]_flow

-----------------------------------------------------------------------------
\* Types.
FlowTypeOK ==
  /\ maxData \in Words /\ availData \in Words
  /\ opened \subseteq Streams /\ availStreamData \in [Streams -> Words]
  /\ spentData \in Nat /\ spentStream \in [Streams -> Nat]
  /\ streamWindow \in [Streams -> Words] /\ underflowed \subseteq opened

\* No more is granted than the windows allow, on the connection and on each
\* stream, over any sequence of calls since the window was set.  The exception
\* is a stream whose first amount exceeded the default window: the amount is
\* refused, but the window has wrapped to nearly 2^64.
WithinWindow ==
  /\ spentData <= maxData
  /\ \A s \in Streams \ underflowed : spentStream[s] <= streamWindow[s]

=============================================================================
