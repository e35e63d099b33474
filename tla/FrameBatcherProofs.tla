------------------------- MODULE FrameBatcherProofs --------------------------
(***************************************************************************)
(* FrameBatcher loses no wake-up, keeps the order of each goroutine and    *)
(* implements the safety part of FrameDelivery, for any number of callers  *)
(* of Flush, any batch size and any number of frames.  The pre-shared keys *)
(* of ZeroRTTManager keep to their number, for any number of identities    *)
(* and goroutines.                                                         *)
(***************************************************************************)
EXTENDS FrameBatcher, ZeroRTTManager, FiniteSetTheorems, TLAPS

Increasing(s) == \A i, j \in 1..Len(s) : i < j => s[i] < s[j]

\* Frames still in fb.frames are younger than all others and, as all frames,
\* not younger than the last one added.
FramesInv ==
  /\ Increasing(frames)
  /\ \A i \in 1..Len(frames) : frames[i] <= added

\* So are batches, which are older than fb.frames and share no frame.
BatchInv == \A p \in Flushers :
  /\ Increasing(batch[p])
  /\ \A i \in 1..Len(batch[p]) :
       /\ batch[p][i] <= added
       /\ \A j \in 1..Len(frames) : batch[p][i] < frames[j]
       /\ \A q \in Flushers \ {p} : \A j \in 1..Len(batch[q]) : batch[p][i] # batch[q][j]

\* A frame delivered is in no batch, is older than those of its goroutine and
\* than fb.frames, and was delivered once.
DeliveredInv == \A k \in 1..Len(delivered) :
  /\ delivered[k].frame <= added
  /\ \A j \in 1..Len(frames) : delivered[k].frame < frames[j]
  /\ \A p \in Flushers : \A j \in 1..Len(batch[p]) :
       /\ delivered[k].frame # batch[p][j]
       /\ delivered[k].by = p => delivered[k].frame < batch[p][j]
  /\ \A l \in 1..Len(delivered) : k # l => delivered[k].frame # delivered[l].frame

IInv == TypeOK /\ FullIsSignalled /\ FramesInv /\ BatchInv /\ DeliveredInv /\ InOrder

LEMMA InitIInv == Init => IInv
<1> SUFFICES ASSUME Init PROVE IInv
  BY Zenon
<1> USE BatcherAssumption
<1>1. TypeOK
  <2>1. /\ frames \in Seq(1..Total) /\ delivered \in Seq([by : Flushers, frame : 1..Total])
        /\ batch \in [Flushers -> Seq(1..Total)]
    BY DEF Init
  <2>2. pc \in [Flushers -> {"idle", "flush", "deliver"}] /\ added \in 0..Total
    BY DEF Init
  <2>3. flushChan \in BOOLEAN /\ ticker \in BOOLEAN
    BY Zenon DEF Init
  <2>4. \A p \in Flushers : pc[p] = "deliver" <=> batch[p] # <<>>
    BY Zenon DEF Init
  <2> QED
    BY <2>1, <2>2, <2>3, <2>4, Zenon DEF TypeOK
<1>2. Len(frames) = 0 /\ Len(delivered) = 0 /\ \A p \in Flushers : Len(batch[p]) = 0
  BY Zenon DEF Init
<1> QED
  BY <1>1, <1>2 DEF IInv, FullIsSignalled, FramesInv, Increasing, BatchInv, DeliveredInv, InOrder

LEMMA Items ==
  ASSUME NEW T, NEW s \in Seq(T)
  PROVE  Len(s) \in Nat /\ \A i \in 1..Len(s) : s[i] \in T
  OBVIOUS

LEMMA Joined ==
  ASSUME NEW T, NEW s \in Seq(T), NEW r \in Seq(T)
  PROVE  s \o r \in Seq(T)
  OBVIOUS

LEMMA FunctionIsSeq ==
  ASSUME NEW T, NEW n \in Nat, NEW f \in [1..n -> T]
  PROVE  f \in Seq(T)
  OBVIOUS

\* What flush adds to delivered.
LEMMA ByProperties ==
  ASSUME NEW p \in Flushers, NEW s \in Seq(1..Total)
  PROVE  /\ By(p, s) \in Seq([by : Flushers, frame : 1..Total])
         /\ Len(By(p, s)) = Len(s)
         /\ \A i \in 1..Len(s) : By(p, s)[i].by = p /\ By(p, s)[i].frame = s[i]
<1> DEFINE e(i) == [by |-> p, frame |-> s[i]]
<1>1. Len(s) \in Nat /\ \A i \in 1..Len(s) : e(i) \in [by : Flushers, frame : 1..Total]
  BY Items, Zenon
<1>2. By(p, s) \in [1..Len(s) -> [by : Flushers, frame : 1..Total]]
  BY <1>1, Zenon DEF By
<1>3. By(p, s) \in Seq([by : Flushers, frame : 1..Total])
  BY <1>1, <1>2, FunctionIsSeq, Zenon
<1>4. Len(By(p, s)) = Len(s)
  BY <1>1, <1>2, <1>3
<1>5. \A i \in 1..Len(s) : By(p, s)[i].by = p /\ By(p, s)[i].frame = s[i]
  BY Zenon DEF By
<1> QED
  BY <1>3, <1>4, <1>5, Zenon

LEMMA TypeStep == TypeOK /\ [Next]_vars => TypeOK'
<1> SUFFICES ASSUME TypeOK, [Next]_vars PROVE TypeOK'
  BY Zenon
<1> USE BatcherAssumption DEF TypeOK, Flushers
<1>1. CASE Add
  BY <1>1 DEF Add
<1>2. CASE TickerFires \/ FlushOnTick \/ FlushOnSignal \/ UNCHANGED vars
  BY <1>2, Zenon DEF TickerFires, FlushOnTick, FlushOnSignal, vars
<1>3. ASSUME NEW p \in Flushers, Flush(p) \/ NothingToFlush(p) PROVE TypeOK'
  BY <1>3, Zenon DEF Flush, NothingToFlush
<1>4. ASSUME NEW p \in Flushers, TakeBatch(p) PROVE TypeOK'
  <2>1. batch' \in [Flushers -> Seq(1..Total)] /\ frames' \in Seq(1..Total)
    BY <1>4, Zenon DEF TakeBatch
  <2> QED
    BY <1>4, <2>1, Zenon DEF TakeBatch
<1>5. ASSUME NEW p \in Flushers, OnFlush(p) PROVE TypeOK'
  <2>1. delivered' \in Seq([by : Flushers, frame : 1..Total])
    BY <1>5, ByProperties, Joined, Zenon DEF OnFlush
  <2> QED
    BY <1>5, <2>1 DEF OnFlush
<1> QED
  BY <1>1, <1>2, <1>3, <1>4, <1>5, Zenon DEF Next, LoopStep, FlushStep

\* The numbers behind TypeOK.
LEMMA Elements ==
  ASSUME TypeOK
  PROVE  /\ added \in Nat /\ Len(frames) \in Nat /\ Len(delivered) \in Nat
         /\ \A i \in 1..Len(frames) : frames[i] \in Nat
         /\ \A p \in Flushers : /\ Len(batch[p]) \in Nat
                                /\ \A i \in 1..Len(batch[p]) : batch[p][i] \in Nat
         /\ \A k \in 1..Len(delivered) : /\ delivered[k].by \in Flushers
                                         /\ delivered[k].frame \in Nat
<1> USE BatcherAssumption
<1>1. frames \in Seq(1..Total) /\ \A p \in Flushers : batch[p] \in Seq(1..Total)
  BY Zenon DEF TypeOK
<1>2. added \in Nat /\ delivered \in Seq([by : Flushers, frame : 1..Total])
  BY DEF TypeOK
<1>3. \A s \in Seq(1..Total) : Len(s) \in Nat /\ \A i \in 1..Len(s) : s[i] \in 1..Total
  OBVIOUS
<1>4. /\ Len(delivered) \in Nat
      /\ \A k \in 1..Len(delivered) : delivered[k] \in [by : Flushers, frame : 1..Total]
  BY <1>2, Items, Zenon
<1>5. \A k \in 1..Len(delivered) : delivered[k].by \in Flushers /\ delivered[k].frame \in 1..Total
  BY <1>4, Zenon
<1>6. \A n \in 1..Total : n \in Nat
  OBVIOUS
<1> QED
  BY <1>1, <1>2, <1>3, <1>4, <1>5, <1>6, Zenon

\* Steps that move no frame.
LEMMA StillStep ==
  ASSUME IInv, TypeOK', UNCHANGED <<frames, batch, added, delivered>>,
         flushChan \/ pc[loop] = "flush" => flushChan' \/ pc'[loop] = "flush" \/ frames = <<>>
  PROVE  IInv'
<1>1. FullIsSignalled'
  BY BatcherAssumption DEF IInv, FullIsSignalled, TypeOK
<1> QED
  BY <1>1 DEF IInv, FramesInv, Increasing, BatchInv, DeliveredInv, InOrder

LEMMA AddStep == IInv /\ TypeOK' /\ Add => IInv'
<1> SUFFICES ASSUME IInv, TypeOK', Add PROVE IInv'
  BY Zenon
<1> USE BatcherAssumption
<1>1. /\ added' = added + 1 /\ Len(frames') = Len(frames) + 1
      /\ \A i \in 1..Len(frames) : frames'[i] = frames[i]
      /\ frames'[Len(frames) + 1] = added + 1
      /\ UNCHANGED <<batch, delivered>>
  BY DEF Add, IInv, TypeOK
<1>2. TypeOK /\ \A i \in 1..Len(frames') : i \in 1..Len(frames) \/ i = Len(frames) + 1
  BY <1>1, Elements DEF IInv
<1>3. FullIsSignalled'
  BY Zenon DEF Add, IInv, FullIsSignalled, TypeOK
<1>4. FramesInv'
  <2>1. \A i \in 1..Len(frames') : frames'[i] <= added'
    BY <1>1, <1>2, Elements DEF IInv, FramesInv
  <2>2. ASSUME NEW i \in 1..Len(frames'), NEW j \in 1..Len(frames'), i < j
        PROVE  frames'[i] < frames'[j]
    <3>1. i \in 1..Len(frames)
      BY <1>1, <1>2, <2>2, Elements
    <3>2. CASE j \in 1..Len(frames)
      BY <1>1, <2>2, <3>1, <3>2, Zenon DEF IInv, FramesInv, Increasing
    <3>3. CASE j = Len(frames) + 1
      BY <1>1, <1>2, <3>1, <3>3, Elements DEF IInv, FramesInv
    <3> QED
      BY <1>2, <3>2, <3>3, Zenon
  <2> QED
    BY <2>1, <2>2, Zenon DEF FramesInv, Increasing
<1>5. BatchInv'
  <2>1. ASSUME NEW q \in Flushers, NEW i \in 1..Len(batch[q])
        PROVE  /\ batch[q][i] <= added'
               /\ \A j \in 1..Len(frames') : batch[q][i] < frames'[j]
    <3>1. batch[q][i] \in Nat /\ batch[q][i] <= added /\ added \in Nat
      BY <1>2, Elements, Zenon DEF IInv, BatchInv
    <3>2. \A j \in 1..Len(frames) : batch[q][i] < frames[j]
      BY Zenon DEF IInv, BatchInv
    <3> QED
      BY <1>1, <1>2, <3>1, <3>2
  <2> QED
    BY <1>1, <2>1 DEF IInv, BatchInv, Increasing
<1>6. DeliveredInv' /\ InOrder'
  <2>1. ASSUME NEW k \in 1..Len(delivered)
        PROVE  /\ delivered[k].frame <= added'
               /\ \A j \in 1..Len(frames') : delivered[k].frame < frames'[j]
    <3>1. delivered[k].frame \in Nat /\ delivered[k].frame <= added /\ added \in Nat
      BY <1>2, Elements, Zenon DEF IInv, DeliveredInv
    <3>2. \A j \in 1..Len(frames) : delivered[k].frame < frames[j]
      BY Zenon DEF IInv, DeliveredInv
    <3> QED
      BY <1>1, <1>2, <3>1, <3>2
  <2> QED
    BY <1>1, <2>1 DEF IInv, DeliveredInv, InOrder
<1> QED
  BY <1>3, <1>4, <1>5, <1>6, Zenon DEF IInv

LEMMA TakeStep ==
  ASSUME IInv, TypeOK', NEW p \in Flushers, TakeBatch(p)
  PROVE  IInv'
<1>1. /\ frames' = <<>> /\ Len(frames') = 0 /\ batch'[p] = frames
      /\ \A q \in Flushers \ {p} : batch'[q] = batch[q]
      /\ added' = added /\ delivered' = delivered
  BY Zenon DEF TakeBatch, IInv, TypeOK
<1>2. TypeOK
  BY Zenon DEF IInv
<1>3. FullIsSignalled' /\ FramesInv'
  BY <1>1, BatcherAssumption DEF FullIsSignalled, FramesInv, Increasing
<1>4. BatchInv'
  <2> SUFFICES ASSUME NEW q \in Flushers
               PROVE  /\ Increasing(batch'[q])
                      /\ \A i \in 1..Len(batch'[q]) :
                           /\ batch'[q][i] <= added
                           /\ \A r \in Flushers \ {q} : \A j \in 1..Len(batch'[r]) :
                                batch'[q][i] # batch'[r][j]
    BY <1>1 DEF BatchInv, Increasing
  <2>0. ASSUME NEW r \in Flushers, NEW i \in 1..Len(batch[r]), NEW j \in 1..Len(frames)
        PROVE  batch[r][i] # frames[j]
    <3>1. batch[r][i] < frames[j]
      BY Zenon DEF IInv, BatchInv
    <3> QED
      BY <1>2, <3>1, Elements
  <2>1. CASE q = p
    BY <1>1, <2>0, <2>1 DEF IInv, FramesInv
  <2>2. CASE q # p
    <3>1. batch'[q] = batch[q] /\ Increasing(batch[q]) /\ \A i \in 1..Len(batch[q]) : batch[q][i] <= added
      BY <1>1, <2>2, Zenon DEF IInv, BatchInv
    <3>2. ASSUME NEW i \in 1..Len(batch[q]), NEW r \in Flushers \ {q}, NEW j \in 1..Len(batch'[r])
          PROVE  batch[q][i] # batch'[r][j]
      BY <1>1, <2>0 DEF IInv, BatchInv
    <3> QED
      BY <3>1, <3>2, Zenon
  <2> QED
    BY <2>1, <2>2, Zenon
<1>5. DeliveredInv' /\ InOrder'
  <2>1. ASSUME NEW k \in 1..Len(delivered), NEW q \in Flushers, NEW j \in 1..Len(batch'[q])
        PROVE  /\ delivered[k].frame # batch'[q][j]
               /\ delivered[k].by = q => delivered[k].frame < batch'[q][j]
    <3>1. CASE q = p
      <4>1. delivered[k].frame \in Nat /\ batch'[q][j] \in Nat /\ delivered[k].frame < batch'[q][j]
        BY <1>1, <1>2, <3>1, Elements, Zenon DEF IInv, DeliveredInv
      <4> QED
        BY <4>1
    <3>2. CASE q # p
      <4>1. batch'[q] = batch[q] /\ j \in 1..Len(batch[q])
        BY <1>1, <3>2, Zenon
      <4> QED
        BY <4>1, Zenon DEF IInv, DeliveredInv
    <3> QED
      BY <3>1, <3>2, Zenon
  <2> QED
    BY <1>1, <2>1 DEF IInv, DeliveredInv, InOrder
<1> QED
  BY <1>3, <1>4, <1>5, Zenon DEF IInv

\* onFlush gets the frames of one batch, in their order.
LEMMA Handed ==
  ASSUME TypeOK, NEW p \in Flushers, OnFlush(p)
  PROVE  LET n == Len(delivered)
             b == batch[p]
         IN  /\ n \in Nat /\ Len(b) \in Nat /\ Len(delivered') = n + Len(b)
             /\ \A k \in 1..n : delivered'[k] = delivered[k]
             /\ \A i \in 1..Len(b) : delivered'[n + i].by = p /\ delivered'[n + i].frame = b[i]
             /\ \A k \in 1..Len(delivered') : k \in 1..n \/ \E i \in 1..Len(b) : k = n + i
<1> DEFINE n == Len(delivered)
           b == batch[p]
<1>2. b \in Seq(1..Total) /\ delivered \in Seq([by : Flushers, frame : 1..Total])
  BY Zenon DEF TypeOK
<1>3. n \in Nat /\ Len(b) \in Nat
  BY Elements, Zenon
<1>4. /\ Len(delivered') = n + Len(b)
      /\ \A k \in 1..n : delivered'[k] = delivered[k]
      /\ \A i \in 1..Len(b) : delivered'[n + i].by = p /\ delivered'[n + i].frame = b[i]
  <2>1. delivered' = delivered \o By(p, b)
    BY Zenon DEF OnFlush
  <2> HIDE DEF b
  <2>2. /\ Len(delivered \o By(p, b)) = n + Len(By(p, b))
        /\ \A k \in 1..(n + Len(By(p, b))) :
             (delivered \o By(p, b))[k] = IF k <= n THEN delivered[k] ELSE By(p, b)[k - n]
    BY <1>2, ByProperties
  <2>3. /\ Len(By(p, b)) = Len(b)
        /\ \A i \in 1..Len(b) : By(p, b)[i].by = p /\ By(p, b)[i].frame = b[i]
    BY <1>2, ByProperties, Zenon
  <2>4. \A k \in 1..n : (delivered \o By(p, b))[k] = delivered[k]
    BY <1>3, <2>2, <2>3
  <2>5. ASSUME NEW i \in 1..Len(b) PROVE (delivered \o By(p, b))[n + i] = By(p, b)[i]
    <3>1. n + i \in 1..(n + Len(By(p, b))) /\ ~(n + i <= n) /\ (n + i) - n = i
      BY <1>3, <2>3
    <3> QED
      BY <2>2, <3>1, Zenon
  <2> QED
    BY <2>1, <2>2, <2>3, <2>4, <2>5, Zenon
<1>5. \A k \in 1..Len(delivered') : k \in 1..n \/ \E i \in 1..Len(b) : k = n + i
  <2> SUFFICES ASSUME NEW k \in 1..Len(delivered'), k \notin 1..n
               PROVE  k - n \in 1..Len(b) /\ k = n + (k - n)
    BY Zenon
  <2> QED
    BY <1>3, <1>4
<1> QED
  BY <1>3, <1>4, <1>5, Zenon

LEMMA DeliverStep ==
  ASSUME IInv, TypeOK', NEW p \in Flushers, OnFlush(p)
  PROVE  IInv'
<1> DEFINE n == Len(delivered)
           b == batch[p]
<1>1. /\ frames' = frames /\ added' = added /\ Len(batch'[p]) = 0
      /\ \A q \in Flushers \ {p} : batch'[q] = batch[q]
  BY Zenon DEF OnFlush, IInv, TypeOK
<1>2. TypeOK
  BY Zenon DEF IInv
<1>3. n \in Nat /\ Len(b) \in Nat
  BY <1>2, Handed, Zenon
<1>4. /\ Len(delivered') = n + Len(b)
      /\ \A k \in 1..n : delivered'[k] = delivered[k]
      /\ \A i \in 1..Len(b) : delivered'[n + i].by = p /\ delivered'[n + i].frame = b[i]
  BY <1>2, Handed, Zenon
<1>5. \A k \in 1..Len(delivered') : k \in 1..n \/ \E i \in 1..Len(b) : k = n + i
  BY <1>2, Handed, Zenon
<1>6. FullIsSignalled' /\ FramesInv'
  BY <1>1, BatcherAssumption DEF OnFlush, IInv, TypeOK, Flushers, FullIsSignalled, FramesInv, Increasing
<1>7. BatchInv'
  <2>1. \A q \in Flushers : batch'[q] = batch[q] \/ Len(batch'[q]) = 0
    BY <1>1, Zenon
  <2> QED
    BY <1>1, <2>1 DEF IInv, BatchInv, Increasing
<1>8. ASSUME NEW i \in 1..Len(b)
      PROVE  /\ b[i] <= added /\ \A j \in 1..Len(frames) : b[i] < frames[j]
             /\ \A q \in Flushers \ {p} : \A j \in 1..Len(batch[q]) : b[i] # batch[q][j]
             /\ \A k \in 1..n : /\ delivered[k].frame # b[i]
                                /\ delivered[k].by = p => delivered[k].frame < b[i]
             /\ \A j \in 1..Len(b) : i < j => b[i] < b[j]
  BY Zenon DEF IInv, BatchInv, DeliveredInv, Increasing
<1>9. InOrder'
  <2> SUFFICES ASSUME NEW k \in 1..Len(delivered'), NEW l \in 1..Len(delivered'), k < l,
                      delivered'[k].by = delivered'[l].by
               PROVE  delivered'[k].frame < delivered'[l].frame
    BY Zenon DEF InOrder
  <2>1. CASE l \in 1..n
    <3>1. k \in 1..n
      BY <1>3, <1>4, <2>1
    <3> QED
      BY <1>4, <2>1, <3>1, Zenon DEF IInv, InOrder
  <2>2. ASSUME NEW i \in 1..Len(b), l = n + i, k \in 1..n
        PROVE  delivered'[k].frame < delivered'[l].frame
    BY <1>4, <1>8, <2>2, Zenon
  <2>3. ASSUME NEW i \in 1..Len(b), l = n + i, NEW j \in 1..Len(b), k = n + j
        PROVE  delivered'[k].frame < delivered'[l].frame
    <3>1. j < i
      BY <1>3, <2>3
    <3> QED
      BY <1>4, <1>8, <2>3, <3>1, Zenon
  <2> QED
    BY <1>5, <2>1, <2>2, <2>3, Zenon
<1>10. ASSUME NEW k \in 1..Len(delivered'), NEW l \in 1..Len(delivered'), k # l
       PROVE  delivered'[k].frame # delivered'[l].frame
  <2>1. CASE k \in 1..n /\ l \in 1..n
    BY <1>4, <1>10, <2>1, Zenon DEF IInv, DeliveredInv
  <2>2. ASSUME NEW i \in 1..Len(b), l = n + i, k \in 1..n
        PROVE  delivered'[k].frame # delivered'[l].frame
    <3>1. delivered'[k].frame = delivered[k].frame /\ delivered'[l].frame = b[i]
      BY <1>4, <2>2, Zenon
    <3> QED
      BY <1>8, <2>2, <3>1, Zenon
  <2>4. ASSUME NEW i \in 1..Len(b), k = n + i, l \in 1..n
        PROVE  delivered'[k].frame # delivered'[l].frame
    <3>1. delivered'[l].frame = delivered[l].frame /\ delivered'[k].frame = b[i]
      BY <1>4, <2>4, Zenon
    <3> QED
      BY <1>8, <2>4, <3>1, Zenon
  <2>3. ASSUME NEW i \in 1..Len(b), l = n + i, NEW j \in 1..Len(b), k = n + j
        PROVE  delivered'[k].frame # delivered'[l].frame
    <3>1. b[i] \in Nat /\ b[j] \in Nat /\ (i < j \/ j < i)
      <4>1. b[i] \in Nat /\ b[j] \in Nat
        BY <1>2, Elements, Zenon
      <4>2. i \in Nat /\ j \in Nat /\ i # j
        BY <1>3, <1>10, <2>3
      <4> QED
        BY <4>1, <4>2
    <3>2. delivered'[k].frame = b[j] /\ delivered'[l].frame = b[i]
      BY <1>4, <2>3, Zenon
    <3>3. (i < j => b[i] < b[j]) /\ (j < i => b[j] < b[i])
      BY <1>8, Zenon
    <3>4. b[i] # b[j]
      BY <3>1, <3>3
    <3> QED
      BY <3>2, <3>4, Zenon
  <2> QED
    BY <1>5, <2>1, <2>2, <2>3, <2>4, Zenon
<1>11. ASSUME NEW k \in 1..Len(delivered')
       PROVE  /\ delivered'[k].frame <= added
              /\ \A j \in 1..Len(frames) : delivered'[k].frame < frames[j]
              /\ \A q \in Flushers : \A j \in 1..Len(batch'[q]) :
                   /\ delivered'[k].frame # batch'[q][j]
                   /\ delivered'[k].by = q => delivered'[k].frame < batch'[q][j]
  <2>1. \A q \in Flushers : \A j \in 1..Len(batch'[q]) : q # p /\ batch'[q] = batch[q]
    BY <1>1
  <2>2. CASE k \in 1..n
    <3>1. delivered'[k] = delivered[k]
      BY <1>4, <2>2, Zenon
    <3> QED
      BY <2>1, <2>2, <3>1 DEF IInv, DeliveredInv
  <2>3. ASSUME NEW i \in 1..Len(b), k = n + i
        PROVE  /\ delivered'[k].by = p /\ delivered'[k].frame <= added
               /\ \A j \in 1..Len(frames) : delivered'[k].frame < frames[j]
               /\ \A q \in Flushers : \A j \in 1..Len(batch'[q]) : delivered'[k].frame # batch'[q][j]
    <3>1. delivered'[k].by = p /\ delivered'[k].frame = b[i]
      BY <1>4, <2>3, Zenon
    <3> QED
      BY <1>8, <2>1, <3>1
  <2> QED
    BY <1>5, <2>1, <2>2, <2>3, Zenon
<1>12. DeliveredInv'
  BY <1>1, <1>10, <1>11, Zenon DEF DeliveredInv
<1> QED
  BY <1>6, <1>7, <1>9, <1>12, Zenon DEF IInv

LEMMA StepIInv == IInv /\ [Next]_vars => IInv'
<1> SUFFICES ASSUME IInv, [Next]_vars PROVE IInv'
  BY Zenon
<1>0. TypeOK /\ TypeOK'
  BY TypeStep, Zenon DEF IInv
<1>1. CASE Add
  BY <1>0, <1>1, AddStep, Zenon
<1>2. CASE TickerFires \/ FlushOnTick \/ FlushOnSignal \/ UNCHANGED vars
  BY <1>0, <1>2, StillStep, Zenon DEF TickerFires, FlushOnTick, FlushOnSignal, vars, TypeOK, Flushers
<1>3. ASSUME NEW p \in Flushers, NothingToFlush(p) PROVE IInv'
  BY <1>0, <1>3, StillStep, Zenon DEF NothingToFlush, TypeOK, Flushers
<1>4. ASSUME NEW p \in Callers, Flush(p) PROVE IInv'
  BY <1>0, <1>4, StillStep, BatcherAssumption, Zenon DEF Flush, TypeOK, Flushers
<1>5. ASSUME NEW p \in Flushers, TakeBatch(p) \/ OnFlush(p) PROVE IInv'
  BY <1>0, <1>5, TakeStep, DeliverStep, Zenon
<1> QED
  BY <1>1, <1>2, <1>3, <1>4, <1>5, Zenon DEF Next, LoopStep, FlushStep, Flushers

LEMMA Inductive == Spec => []IInv
  BY InitIInv, StepIInv, PTL DEF Spec

\* The types of FrameBatcher: a goroutine has a batch exactly when onFlush is due.
THEOREM TypeCorrect == Spec => []TypeOK
<1>1. IInv => TypeOK
  BY Zenon DEF IInv
<1> QED
  BY Inductive, <1>1, PTL

\* triggerFlush loses no wake-up of flushLoop for a full batch.
THEOREM NoLostWakeUp == Spec => []FullIsSignalled
<1>1. IInv => FullIsSignalled
  BY Zenon DEF IInv
<1> QED
  BY Inductive, <1>1, PTL

\* Every goroutine hands frames to onFlush in the order of Add.
THEOREM OrderKept == Spec => []InOrder
<1>1. IInv => InOrder
  BY Zenon DEF IInv
<1> QED
  BY Inductive, <1>1, PTL

-----------------------------------------------------------------------------
(* FrameBatcher implements FrameDelivery *)

In(f, s) == \E i \in 1..Len(s) : s[i] = f

LEMMA RangeIn ==
  ASSUME NEW s \in Seq(1..Total), NEW f
  PROVE  f \in Range(s) <=> In(f, s)
  BY DEF Range, In

LEMMA PendingIn ==
  ASSUME NEW fr \in Seq(1..Total), NEW ba \in [Flushers -> Seq(1..Total)], NEW f
  PROVE  f \in Range(fr) \cup UNION {Range(ba[p]) : p \in Flushers}
           <=> In(f, fr) \/ \E p \in Flushers : In(f, ba[p])
<1>1. \A p \in Flushers : ba[p] \in Seq(1..Total)
  BY Zenon
<1>2. f \in Range(fr) \cup UNION {Range(ba[p]) : p \in Flushers}
        <=> f \in Range(fr) \/ \E p \in Flushers : f \in Range(ba[p])
  BY Zenon
<1> QED
  BY <1>1, <1>2, RangeIn, Zenon

LEMMA PendingMembers ==
  ASSUME TypeOK, TypeOK'
  PROVE  /\ \A f : f \in Pending <=> In(f, frames) \/ \E p \in Flushers : In(f, batch[p])
         /\ \A f : f \in Pending' <=> In(f, frames') \/ \E p \in Flushers : In(f, batch'[p])
  BY PendingIn, Zenon DEF TypeOK, Pending

Places(f) == {i \in 1..Len(delivered) : delivered[i].frame = f}
Times == [f \in 1..Total |-> Cardinality(Places(f))]

LEMMA InitPromise == Init => Promise!Init
<1> SUFFICES ASSUME Init PROVE Promise!Init
  BY Zenon
<1>1. Range(frames) = {} /\ \A p \in Flushers : Range(batch[p]) = {}
  BY DEF Init, Range
<1>2. Pending = {}
  BY <1>1, Zenon DEF Pending
<1>3. \A f : Places(f) = {}
  BY DEF Init, Places
<1>4. Times = [f \in 1..Total |-> 0]
  BY <1>3, FS_EmptySet, Zenon DEF Times
<1> QED
  BY <1>2, <1>4, Zenon DEF Promise!Init, Times, Places

LEMMA AcceptStep ==
  ASSUME IInv, TypeOK', Add
  PROVE  Promise!Accept(added + 1) /\ added + 1 \in 1..Total
<1> USE BatcherAssumption
<1>0. TypeOK /\ added \in Nat /\ added + 1 \in 1..Total
  BY Elements DEF IInv, TypeOK, Add
<1>1. ~In(added + 1, frames) /\ \A p \in Flushers : ~In(added + 1, batch[p])
  BY <1>0, Elements DEF IInv, FramesInv, BatchInv, In
<1>2. Places(added + 1) = {}
  BY <1>0, Elements DEF IInv, DeliveredInv, Places
<1>3. Times[added + 1] = 0
  BY <1>0, <1>2, FS_EmptySet, Zenon DEF Times
<1>4. /\ Len(frames) \in Nat /\ Len(frames') = Len(frames) + 1
      /\ \A i \in 1..Len(frames) : frames'[i] = frames[i]
      /\ frames'[Len(frames) + 1] = added + 1 /\ batch' = batch
  BY DEF Add, IInv, TypeOK
<1>5. ASSUME NEW f PROVE In(f, frames') <=> In(f, frames) \/ f = added + 1
  BY <1>4 DEF In
<1>6. Pending' = Pending \cup {added + 1} /\ added + 1 \notin Pending
  BY <1>0, <1>1, <1>4, <1>5, PendingMembers, Zenon
<1>7. Times' = Times
  BY Zenon DEF Add, Times, Places
<1> QED
  BY <1>0, <1>3, <1>6, <1>7, Zenon DEF Promise!Accept, Times, Places

LEMMA HandOverStep ==
  ASSUME IInv, TypeOK', NEW p \in Flushers, OnFlush(p)
  PROVE  Promise!Deliver(Range(batch[p])) /\ Range(batch[p]) \subseteq 1..Total
<1> DEFINE n == Len(delivered)
           b == batch[p]
<1>1. TypeOK /\ b \in Seq(1..Total) /\ b # <<>>
  BY Zenon DEF IInv, TypeOK, OnFlush
<1>2. /\ n \in Nat /\ Len(b) \in Nat /\ Len(delivered') = n + Len(b)
      /\ \A k \in 1..n : delivered'[k] = delivered[k]
      /\ \A i \in 1..Len(b) : delivered'[n + i].frame = b[i]
      /\ \A k \in 1..Len(delivered') : k \in 1..n \/ \E i \in 1..Len(b) : k = n + i
  BY <1>1, Handed, Zenon
<1>3. \A f : f \in Range(b) <=> In(f, b)
  BY <1>1, RangeIn, Zenon
<1>4. Range(b) # {} /\ Range(b) \subseteq 1..Total /\ Range(b) \subseteq Pending
  <2>1. Len(b) \in Nat \ {0}
    BY <1>1
  <2>2. b[1] \in Range(b)
    BY <1>3, <2>1 DEF In
  <2>3. Range(b) \subseteq 1..Total
    BY <1>1, <1>3, Items, Zenon DEF In
  <2> QED
    BY <1>1, <1>3, <2>2, <2>3, PendingMembers, Zenon
<1>5. Pending' = Pending \ Range(b)
  <2>1. frames' = frames /\ \A q \in Flushers \ {p} : batch'[q] = batch[q]
    BY <1>1, Zenon DEF OnFlush, TypeOK
  <2>2. batch'[p] = <<>> /\ \A f : ~In(f, batch'[p])
    BY <1>1 DEF OnFlush, TypeOK, In
  <2>3. ASSUME NEW f, In(f, b) PROVE ~In(f, frames)
    <3>1. PICK i \in 1..Len(b) : b[i] = f
      BY <2>3, Zenon DEF In
    <3>2. \A j \in 1..Len(frames) : b[i] < frames[j]
      BY Zenon DEF IInv, BatchInv
    <3> QED
      BY <1>1, <3>1, <3>2, Elements DEF In
  <2>4. ASSUME NEW f, In(f, b), NEW q \in Flushers \ {p} PROVE ~In(f, batch[q])
    BY <2>4, Zenon DEF IInv, BatchInv, In
  <2>5. ASSUME NEW f PROVE f \in Pending' <=> f \in Pending /\ f \notin Range(b)
    <3>1. f \in Pending' <=> In(f, frames) \/ \E q \in Flushers \ {p} : In(f, batch[q])
      BY <1>1, <2>1, <2>2, PendingMembers, Zenon
    <3>2. f \in Pending <=> In(f, frames) \/ In(f, b) \/ \E q \in Flushers \ {p} : In(f, batch[q])
      BY <1>1, PendingMembers, Zenon
    <3> QED
      BY <1>3, <2>3, <2>4, <3>1, <3>2, Zenon
  <2> QED
    BY <2>5, Zenon
<1>6. ASSUME NEW f \in 1..Total
      PROVE  Times'[f] = IF f \in Range(b) THEN Times[f] + 1 ELSE Times[f]
  <2>1. CASE f \in Range(b)
    <3>1. PICK i \in 1..Len(b) : b[i] = f
      BY <1>3, <2>1, Zenon DEF In
    <3>2. Places(f) = {}
      BY <3>1, Zenon DEF IInv, DeliveredInv, Places
    <3>3. \A j \in 1..Len(b) : b[j] = f => j = i
      <4> SUFFICES ASSUME NEW j \in 1..Len(b), b[j] = f PROVE j = i
        BY Zenon
      <4>1. b[i] \in Nat /\ Len(b) \in Nat
        BY <1>1, Elements, Zenon
      <4>2. (i < j => b[i] < b[j]) /\ (j < i => b[j] < b[i])
        BY Zenon DEF IInv, BatchInv, Increasing
      <4>3. ~(i < j) /\ ~(j < i)
        BY <3>1, <4>1, <4>2
      <4>4. i \in Nat /\ j \in Nat
        BY <4>1
      <4> QED
        BY <4>3, <4>4
    <3>4. Places(f)' = {n + i}
      <4>1. n + i \in 1..Len(delivered')
        BY <1>2
      <4>2. ASSUME NEW k \in 1..Len(delivered'), delivered'[k].frame = f PROVE k = n + i
        <5>1. k \notin 1..n
          BY <1>2, <3>2, <4>2, Zenon DEF Places
        <5> QED
          BY <1>2, <3>3, <4>2, <5>1, Zenon
      <4> QED
        BY <1>2, <3>1, <4>1, <4>2, Zenon DEF Places
    <3>5. Times[f] = 0
      BY <3>2, FS_EmptySet, Zenon DEF Times
    <3>6. Times'[f] = 1
      BY <3>4, FS_Singleton, Zenon DEF Times
    <3> QED
      BY <2>1, <3>5, <3>6
  <2>2. CASE f \notin Range(b)
    <3>1. \A i \in 1..Len(b) : b[i] # f
      BY <1>3, <2>2, Zenon DEF In
    <3>2. Places(f)' = Places(f)
      <4>1. \A k \in 1..Len(delivered') : delivered'[k].frame = f => k \in 1..n
        BY <1>2, <3>1, Zenon
      <4>2. \A k \in 1..n : k \in 1..Len(delivered') /\ delivered'[k] = delivered[k]
        BY <1>2
      <4> QED
        BY <4>1, <4>2, Zenon DEF Places
    <3> QED
      BY <2>2, <3>2, Zenon DEF Times
  <2> QED
    BY <2>1, <2>2, Zenon
<1>7. Times' = [f \in 1..Total |-> IF f \in Range(b) THEN Times[f] + 1 ELSE Times[f]]
  BY <1>6, Zenon DEF Times
<1> QED
  BY <1>4, <1>5, <1>7, Zenon DEF Promise!Deliver, Times, Places

LEMMA StepPromise == IInv /\ TypeOK' /\ [Next]_vars => [Promise!Next]_(Promise!vars)
<1> SUFFICES ASSUME IInv, TypeOK', [Next]_vars PROVE [Promise!Next]_(Promise!vars)
  BY Zenon
<1>0. TypeOK
  BY Zenon DEF IInv
<1>1. CASE Add
  BY <1>1, AcceptStep, Zenon DEF Promise!Next
<1>2. ASSUME NEW p \in Flushers, OnFlush(p) PROVE Promise!Next
  BY <1>2, HandOverStep, Zenon DEF Promise!Next
<1>3. ASSUME UNCHANGED <<frames, batch, delivered>> PROVE UNCHANGED Promise!vars
  BY <1>3, Zenon DEF Promise!vars, Pending
<1>4. ASSUME NEW p \in Flushers, TakeBatch(p) PROVE UNCHANGED Promise!vars
  <2>1. batch[p] = <<>> /\ frames' = <<>> /\ delivered' = delivered
    BY <1>0, <1>4, Zenon DEF TakeBatch, TypeOK
  <2>2. batch'[p] = frames /\ \A q \in Flushers \ {p} : batch'[q] = batch[q]
    BY <1>0, <1>4, Zenon DEF TakeBatch, TypeOK
  <2>3. \A f : ~In(f, batch[p]) /\ ~In(f, frames')
    BY <2>1 DEF In
  <2>4. ASSUME NEW f PROVE f \in Pending' <=> f \in Pending
    BY <1>0, <2>2, <2>3, PendingMembers, Zenon
  <2>5. Pending' = Pending
    BY <2>4, Zenon
  <2> QED
    BY <2>1, <2>5, Zenon DEF Promise!vars
<1>5. ASSUME NEW p \in Flushers, Flush(p) \/ NothingToFlush(p) PROVE UNCHANGED Promise!vars
  BY <1>3, <1>5, Zenon DEF Flush, NothingToFlush
<1>6. CASE TickerFires \/ FlushOnTick \/ FlushOnSignal \/ UNCHANGED vars
  BY <1>3, <1>6, Zenon DEF TickerFires, FlushOnTick, FlushOnSignal, vars
<1> QED
  BY <1>1, <1>2, <1>4, <1>5, <1>6, Zenon DEF Next, LoopStep, FlushStep, Flushers

\* Every frame given to Add is handed to onFlush at most once and none is
\* dropped: the batcher implements the safety part of FrameDelivery.
THEOREM DeliversOnceHolds == Spec => DeliversOnce
<1>1. IInv => TypeOK
  BY Zenon DEF IInv
<1> QED
  BY Inductive, InitPromise, StepPromise, <1>1, PTL DEF Spec, DeliversOnce, Promise!Safety

-----------------------------------------------------------------------------
(* ZeroRTTManager: how far the table of keys can outgrow its limit *)

\* The calls of CreatePSK that will insert without looking at the size again.
Committed == {c \in Creators : cpc[c] \in {"make", "insert"}}

\* What the table holds and what is bound for it.
Room == Cardinality(psks) + Cardinality(Committed)
          <= MaxZeroRTTSessions + Cardinality(Creators) - 1 + wasted

PSKInv == PSKTypeOK /\ Room

LEMMA PSKFinite ==
  ASSUME PSKTypeOK
  PROVE  /\ IsFiniteSet(psks) /\ Cardinality(psks) \in Nat
         /\ IsFiniteSet(Committed) /\ Cardinality(Committed) \in Nat
         /\ Cardinality(Creators) \in Nat /\ Cardinality(Committed) <= Cardinality(Creators)
<1>1. Committed \subseteq Creators /\ psks \subseteq Identities
  BY Zenon DEF Committed, PSKTypeOK
<1> QED
  BY <1>1, ZeroRTTAssumption, FS_Subset, FS_CardinalityType, Zenon

\* How one goroutine's move changes the number of committed calls.
OnlyCreator(c) == \A d \in Creators : d # c => cpc'[d] = cpc[d]

LEMMA CreatorMoves ==
  ASSUME PSKTypeOK, NEW c \in Creators, OnlyCreator(c)
  PROVE  /\ (c \in Committed <=> c \in Committed') => Committed' = Committed
         /\ c \notin Committed /\ c \in Committed' =>
              /\ Cardinality(Committed') = Cardinality(Committed) + 1
              /\ Cardinality(Committed') <= Cardinality(Creators)
         /\ c \in Committed /\ c \notin Committed' =>
              Cardinality(Committed') = Cardinality(Committed) - 1
<1>1. ASSUME c \in Committed <=> c \in Committed' PROVE Committed' = Committed
  BY <1>1, Zenon DEF OnlyCreator, Committed
<1>2. ASSUME c \notin Committed, c \in Committed' PROVE Committed' = Committed \cup {c}
  BY <1>2, Zenon DEF OnlyCreator, Committed
<1>3. ASSUME c \in Committed, c \notin Committed' PROVE Committed' = Committed \ {c}
  BY <1>3, Zenon DEF OnlyCreator, Committed
<1>4. Committed' \subseteq Creators
  BY Zenon DEF Committed
<1>5. Cardinality(Committed') <= Cardinality(Creators)
  BY <1>4, ZeroRTTAssumption, FS_Subset, Zenon
<1> QED
  BY <1>1, <1>2, <1>3, <1>5, PSKFinite, FS_AddElement, FS_RemoveElement

\* Taking keys out never makes the table larger.
LEMMA Shrinks ==
  ASSUME PSKTypeOK, psks' \subseteq psks
  PROVE  /\ Cardinality(psks') \in Nat /\ Cardinality(psks') <= Cardinality(psks)
         /\ \A id \in psks : psks' = psks \ {id} =>
              Cardinality(psks') = Cardinality(psks) - 1
  BY PSKFinite, FS_Subset, FS_CardinalityType, FS_RemoveElement, Zenon

LEMMA NobodyTyped == Nobody \in Identities
  BY ZeroRTTAssumption, Zenon DEF Nobody

LEMMA KeepTyped ==
  ASSUME PSKTypeOK, NEW ids \in SUBSET psks, Keep(ids)
  PROVE  psks' \subseteq Identities /\ age' \in [Identities -> 0..ZeroRTTLifetime + 1]
<1>1. 0 \in 0..ZeroRTTLifetime + 1
  BY ZeroRTTAssumption
<1> QED
  BY <1>1, Zenon DEF Keep, PSKTypeOK

LEMMA PSKInvInit == PSKInit => PSKInv
<1> SUFFICES ASSUME PSKInit PROVE PSKInv
  BY Zenon
<1>1. PSKTypeOK
  BY ZeroRTTAssumption, NobodyTyped DEF PSKInit, PSKTypeOK
<1>2. psks = {} /\ Committed = {}
  BY Zenon DEF PSKInit, Committed
<1>3. Cardinality(Creators) \in Nat /\ Cardinality(Creators) # 0
  BY ZeroRTTAssumption, FS_CardinalityType, FS_EmptySet, Zenon
<1>4. Cardinality(psks) = 0 /\ Cardinality(Committed) = 0 /\ wasted = 0
  BY <1>2, FS_EmptySet, Zenon DEF PSKInit
<1> QED
  BY <1>1, <1>3, <1>4, ZeroRTTAssumption DEF PSKInv, Room

LEMMA PSKTypeStep == PSKTypeOK /\ [PSKNext]_pskVars => PSKTypeOK'
<1> SUFFICES ASSUME PSKTypeOK, [PSKNext]_pskVars PROVE PSKTypeOK'
  BY Zenon
<1> USE ZeroRTTAssumption DEF PSKTypeOK, creating, validating
<1>1. ASSUME NEW c \in Creators, NEW id \in Identities, CheckSize(c, id) PROVE PSKTypeOK'
  BY <1>1, Zenon DEF CheckSize
<1>2. ASSUME NEW c \in Creators, cleanupOldest(c) PROVE PSKTypeOK'
  <2>1. psks' \subseteq Identities /\ age' \in [Identities -> 0..ZeroRTTLifetime + 1]
    BY <1>2, KeepTyped, Zenon DEF cleanupOldest
  <2>2. wasted' \in Nat
    <3>1. wasted' = wasted \/ wasted' = wasted + 1
      BY <1>2, Zenon DEF cleanupOldest
    <3> QED
      BY <3>1
  <2> QED
    BY <1>2, <2>1, <2>2, Zenon DEF cleanupOldest
<1>3. ASSUME NEW c \in Creators, Make(c) PROVE PSKTypeOK'
  BY <1>3, NobodyTyped DEF Make
<1>4. ASSUME NEW c \in Creators, Insert(c) PROVE PSKTypeOK'
  BY <1>4, NobodyTyped DEF Insert
<1>5. ASSUME NEW v \in Validators, NEW id \in Identities, FindPSK(v, id) PROVE PSKTypeOK'
  BY <1>5, Zenon DEF FindPSK
<1>6. ASSUME NEW v \in Validators, JudgePSK(v) PROVE PSKTypeOK'
  BY <1>6, NobodyTyped DEF JudgePSK
<1>7. ASSUME NEW v \in Validators, DropPSK(v) PROVE PSKTypeOK'
  BY <1>7, NobodyTyped, KeepTyped, Zenon DEF DropPSK
<1>8. ASSUME NEW id \in Identities, DeletePSK(id) PROVE PSKTypeOK'
  BY <1>8, KeepTyped, Zenon DEF DeletePSK
<1>9. CASE cleanupExpiredPSKs
  BY <1>9, KeepTyped, Zenon DEF cleanupExpiredPSKs
<1>10. CASE PSKTick
  BY <1>10 DEF PSKTick, Older, PSKExpired
<1>11. CASE UNCHANGED pskVars
  BY <1>11, Zenon DEF pskVars
<1> QED
  BY <1>1, <1>2, <1>3, <1>4, <1>5, <1>6, <1>7, <1>8, <1>9, <1>10, <1>11, Zenon DEF PSKNext

\* An eviction, or one more wasted, and the commitment to insert cancel out; a
\* commitment without an eviction is made below the limit, when at most all
\* other calls are committed.
LEMMA RoomStep == PSKInv /\ [PSKNext]_pskVars => Room'
<1> SUFFICES ASSUME PSKInv, [PSKNext]_pskVars PROVE Room'
  BY Zenon
<1>0. PSKTypeOK /\ Room /\ MaxZeroRTTSessions \in Nat \ {0} /\ wasted \in Nat
  BY ZeroRTTAssumption, Zenon DEF PSKInv, PSKTypeOK
<1>f. /\ IsFiniteSet(psks) /\ Cardinality(psks) \in Nat
      /\ Cardinality(Committed) \in Nat /\ Cardinality(Creators) \in Nat
      /\ Cardinality(Committed) <= Cardinality(Creators)
  BY <1>0, PSKFinite, Zenon
<1>1. ASSUME NEW c \in Creators, NEW id \in Identities, CheckSize(c, id) PROVE Room'
  <2>1. OnlyCreator(c) /\ psks' = psks /\ wasted' = wasted /\ c \notin Committed
    BY <1>0, <1>1, Zenon DEF CheckSize, OnlyCreator, Committed, PSKTypeOK
  <2>2. CASE Cardinality(psks) >= MaxZeroRTTSessions
    <3>1. c \notin Committed'
      BY <1>0, <1>1, <2>2, Zenon DEF CheckSize, Committed, PSKTypeOK
    <3> QED
      BY <1>0, <2>1, <3>1, CreatorMoves, Zenon DEF Room
  <2>3. CASE ~(Cardinality(psks) >= MaxZeroRTTSessions)
    <3>1. c \in Committed'
      BY <1>0, <1>1, <2>3, Zenon DEF CheckSize, Committed, PSKTypeOK
    <3>2. /\ Cardinality(Committed') = Cardinality(Committed) + 1
          /\ Cardinality(Committed') <= Cardinality(Creators)
      BY <1>0, <2>1, <3>1, CreatorMoves, Zenon
    <3> QED
      BY <1>0, <1>f, <2>1, <2>3, <3>2 DEF Room
  <2> QED
    BY <2>2, <2>3, Zenon
<1>2. ASSUME NEW c \in Creators, cleanupOldest(c) PROVE Room'
  <2>1. OnlyCreator(c) /\ c \notin Committed /\ c \in Committed'
    BY <1>0, <1>2, Zenon DEF cleanupOldest, OnlyCreator, Committed, PSKTypeOK
  <2>2. /\ Cardinality(Committed') = Cardinality(Committed) + 1
        /\ Cardinality(Committed') <= Cardinality(Creators)
    BY <1>0, <2>1, CreatorMoves, Zenon
  <2>3. CASE psks' = {} /\ wasted' = wasted
    <3>1. Cardinality(psks') = 0
      BY <2>3, FS_EmptySet, Zenon
    <3> QED
      BY <1>0, <1>f, <2>2, <2>3, <3>1 DEF Room
  <2>4. ASSUME NEW id \in psks, psks' = psks \ {id}, wasted' = wasted PROVE Room'
    <3>1. Cardinality(psks') = Cardinality(psks) - 1
      BY <1>0, <2>4, Shrinks, Zenon
    <3> QED
      BY <1>0, <1>f, <2>2, <2>4, <3>1 DEF Room
  <2>5. CASE psks' = psks /\ wasted' = wasted + 1
    BY <1>0, <1>f, <2>2, <2>5 DEF Room
  <2> QED
    BY <1>2, <2>3, <2>4, <2>5, Zenon DEF cleanupOldest, Oldest, Keep
<1>3. ASSUME NEW c \in Creators, Make(c) PROVE Room'
  <2>1. OnlyCreator(c) /\ psks' = psks /\ wasted' = wasted /\ c \in Committed
    BY <1>0, <1>3, Zenon DEF Make, OnlyCreator, Committed, PSKTypeOK
  <2>2. \/ Committed' = Committed
        \/ Cardinality(Committed') = Cardinality(Committed) - 1
    BY <1>0, <2>1, CreatorMoves, Zenon
  <2> QED
    BY <1>0, <1>f, <2>1, <2>2 DEF Room
<1>4. ASSUME NEW c \in Creators, Insert(c) PROVE Room'
  <2>1. OnlyCreator(c) /\ wasted' = wasted /\ c \in Committed /\ c \notin Committed'
    BY <1>0, <1>4, Zenon DEF Insert, OnlyCreator, Committed, PSKTypeOK
  <2>2. Cardinality(Committed') = Cardinality(Committed) - 1
    BY <1>0, <2>1, CreatorMoves, Zenon
  <2>3. \/ psks' = psks
        \/ Cardinality(psks') = Cardinality(psks) + 1
    <3>1. psks' = psks \cup {cid[c]}
      BY <1>4, Zenon DEF Insert
    <3>2. CASE cid[c] \in psks
      BY <3>1, <3>2, Zenon
    <3>3. CASE cid[c] \notin psks
      BY <1>f, <3>1, <3>3, FS_AddElement, Zenon
    <3> QED
      BY <3>2, <3>3, Zenon
  <2> QED
    BY <1>0, <1>f, <2>1, <2>2, <2>3 DEF Room
<1>5. ASSUME psks' \subseteq psks, cpc' = cpc, wasted' = wasted PROVE Room'
  <2>1. Committed' = Committed
    BY <1>5, Zenon DEF Committed
  <2>2. Cardinality(psks') \in Nat /\ Cardinality(psks') <= Cardinality(psks)
    BY <1>0, <1>5, Shrinks, Zenon
  <2> QED
    BY <1>0, <1>5, <1>f, <2>1, <2>2 DEF Room
<1>6. ASSUME NEW v \in Validators, (\E id \in Identities : FindPSK(v, id)) \/ JudgePSK(v) \/ DropPSK(v)
      PROVE  psks' \subseteq psks /\ cpc' = cpc /\ wasted' = wasted
  BY <1>6, Zenon DEF FindPSK, JudgePSK, DropPSK, Keep, creating
<1>7. ASSUME \/ \E id \in Identities : DeletePSK(id)
             \/ cleanupExpiredPSKs \/ PSKTick \/ UNCHANGED pskVars
      PROVE  psks' \subseteq psks /\ cpc' = cpc /\ wasted' = wasted
  BY <1>7, Zenon DEF DeletePSK, cleanupExpiredPSKs, PSKTick, Keep, pskVars, creating
<1> QED
  BY <1>1, <1>2, <1>3, <1>4, <1>5, <1>6, <1>7, Zenon DEF PSKNext

\* The fields and the ages of ZeroRTTManager keep their types.
THEOREM PSKTyped == PSKSpec => []PSKTypeOK
<1>1. PSKInit => PSKTypeOK
  BY PSKInvInit, Zenon DEF PSKInv
<1> QED
  BY <1>1, PSKTypeStep, PTL DEF PSKSpec

\* The unlocked size check of CreatePSK lets the table outgrow its limit by at
\* most the number of other goroutines in CreatePSK, and by one for every
\* eviction that cleanupOldest wasted on the identity "".
THEOREM CapacityHolds == PSKSpec => []Capacity
<1>1. PSKInv /\ [PSKNext]_pskVars => PSKInv'
  BY PSKTypeStep, RoomStep, Zenon DEF PSKInv
<1>2. ASSUME PSKInv PROVE Capacity
  <2>1. /\ Cardinality(psks) \in Nat /\ Cardinality(Committed) \in Nat
        /\ Cardinality(Creators) \in Nat /\ wasted \in Nat /\ Room
    BY <1>2, PSKFinite, Zenon DEF PSKInv, PSKTypeOK
  <2> QED
    BY <2>1, ZeroRTTAssumption DEF Room, Capacity
<1> QED
  BY PSKInvInit, <1>1, <1>2, PTL DEF PSKSpec

=============================================================================
