-------------------------- MODULE EchoFrameProofs ----------------------------
(***************************************************************************)
(* What reading, writing and losing bytes does to a run of frames and to   *)
(* the payloads in it.  The sequences are those of EchoLink, with names    *)
(* of their own.                                                           *)
(***************************************************************************)
EXTENDS EchoFrames, TLAPS

Even(s) == Len(s) % 2 = 0
Half(s, f) == ~Even(s) /\ s[Len(s)][1] = f

\* The payload of a cell: a frame counts when its second half is there.
Load(c) == IF c[2] = 2 /\ c[1].type = "DATA" THEN c[1].data ELSE 0
Loads(s) == [i \in 1..Len(s) |-> Load(s[i])]

Cat(a, b) == a \o b

LEMMA Item == ASSUME NEW S, NEW s \in Seq(S), NEW i \in 1..Len(s) PROVE s[i] \in S
  OBVIOUS

LEMMA SameItems ==
  ASSUME NEW S, NEW s \in Seq(S), NEW t \in Seq(S), Len(s) = Len(t),
         \A i \in 1..Len(s) : s[i] = t[i]
  PROVE  s = t
  OBVIOUS

LEMMA Joined ==
  ASSUME NEW S, NEW a \in Seq(S), NEW b \in Seq(S)
  PROVE  /\ a \o b \in Seq(S) /\ Len(a \o b) = Len(a) + Len(b)
         /\ \A i \in 1..Len(a) + Len(b) :
              (a \o b)[i] = IF i <= Len(a) THEN a[i] ELSE b[i - Len(a)]
  OBVIOUS

LEMMA JoinedTwice ==
  ASSUME NEW S, NEW a \in Seq(S), NEW b \in Seq(S), NEW c \in Seq(S)
  PROVE  (a \o b) \o c = a \o (b \o c)
<1>1. PICK p, q : p = a \o b /\ q = b \o c
  BY Zenon
<1>2. /\ p \in Seq(S) /\ Len(p) = Len(a) + Len(b) /\ q \in Seq(S) /\ Len(q) = Len(b) + Len(c)
      /\ \A i \in 1..Len(a) + Len(b) : p[i] = IF i <= Len(a) THEN a[i] ELSE b[i - Len(a)]
      /\ \A i \in 1..Len(b) + Len(c) : q[i] = IF i <= Len(b) THEN b[i] ELSE c[i - Len(b)]
  BY <1>1, Joined, Zenon
<1>3. PICK x, y : x = p \o c /\ y = a \o q
  BY Zenon
<1>a. p \in Seq(S) /\ q \in Seq(S)
  BY <1>2, Zenon
<1>b. /\ x \in Seq(S) /\ Len(x) = Len(p) + Len(c)
      /\ \A i \in 1..Len(p) + Len(c) : x[i] = IF i <= Len(p) THEN p[i] ELSE c[i - Len(p)]
  BY <1>a, <1>3, Joined, Zenon
<1>4. /\ y \in Seq(S) /\ Len(y) = Len(a) + Len(q)
      /\ \A i \in 1..Len(a) + Len(q) : y[i] = IF i <= Len(a) THEN a[i] ELSE q[i - Len(a)]
  BY <1>a, <1>3, Joined, Zenon
<1>5. Len(a) \in Nat /\ Len(b) \in Nat /\ Len(c) \in Nat
  OBVIOUS
<1>6. ASSUME NEW i \in 1..Len(x) PROVE x[i] = y[i]
  <2>1. i \in Nat /\ 1 <= i /\ i <= Len(a) + Len(b) + Len(c)
    BY <1>2, <1>b, <1>5
  <2>2. CASE i <= Len(a)
    <3>1. x[i] = p[i] /\ p[i] = a[i] /\ y[i] = a[i]
      BY <1>2, <1>b, <1>4, <1>5, <2>1, <2>2
    <3> QED
      BY <3>1, Zenon
  <2>3. CASE i > Len(a) /\ i <= Len(a) + Len(b)
    <3>1. x[i] = p[i] /\ p[i] = b[i - Len(a)]
      BY <1>2, <1>b, <1>5, <2>1, <2>3
    <3>2. i - Len(a) \in 1..Len(b) + Len(c) /\ i - Len(a) <= Len(b)
      BY <1>5, <2>1, <2>3
    <3>3. q[i - Len(a)] = b[i - Len(a)]
      BY <1>2, <3>2, Zenon
    <3>4. i \in 1..Len(a) + Len(q) /\ ~(i <= Len(a))
      BY <1>2, <1>5, <2>1, <2>3
    <3>5. y[i] = q[i - Len(a)]
      BY <1>4, <3>4, Zenon
    <3> QED
      BY <3>1, <3>3, <3>5, Zenon
  <2>4. CASE i > Len(a) + Len(b)
    <3>1. x[i] = c[i - (Len(a) + Len(b))]
      BY <1>2, <1>b, <1>5, <2>1, <2>4
    <3>2. i - Len(a) \in 1..Len(b) + Len(c) /\ ~(i - Len(a) <= Len(b))
      BY <1>5, <2>1, <2>4
    <3>3. q[i - Len(a)] = c[i - Len(a) - Len(b)]
      BY <1>2, <3>2, Zenon
    <3>4. i \in 1..Len(a) + Len(q) /\ ~(i <= Len(a))
      BY <1>2, <1>5, <2>1, <2>4
    <3>5. y[i] = q[i - Len(a)]
      BY <1>4, <3>4, Zenon
    <3>6. i - Len(a) - Len(b) = i - (Len(a) + Len(b))
      BY <1>5, <2>1
    <3> QED
      BY <3>1, <3>3, <3>5, <3>6, Zenon
  <2> QED
    BY <1>5, <2>1, <2>2, <2>3, <2>4
<1>7. Len(x) = Len(y)
  BY <1>2, <1>b, <1>4, <1>5
<1> QED
  BY <1>1, <1>3, <1>b, <1>4, <1>6, <1>7, SameItems, Zenon

\* Both parts of a sequence that is cut after n elements.
LEMMA CutIn == ASSUME NEW S, NEW s \in Seq(S), NEW n \in 0..Len(s)
             PROVE  /\ SubSeq(s, 1, n) \in Seq(S) /\ Len(SubSeq(s, 1, n)) = n
                    /\ SubSeq(s, n + 1, Len(s)) \in Seq(S)
                    /\ Len(SubSeq(s, n + 1, Len(s))) = Len(s) - n
                    /\ \A i \in 1..n : SubSeq(s, 1, n)[i] = s[i]
                    /\ \A i \in 1..(Len(s) - n) : SubSeq(s, n + 1, Len(s))[i] = s[n + i]
<1>1. 1 \in 1..Len(s) + 1 /\ n + 1 \in 1..Len(s) + 1 /\ Len(s) \in n..Len(s)
  OBVIOUS
<1>2. /\ SubSeq(s, 1, n) \in Seq(S)
      /\ Len(SubSeq(s, 1, n)) = IF 1 <= n THEN n - 1 + 1 ELSE 0
      /\ \A i \in 1..(n - 1 + 1) : SubSeq(s, 1, n)[i] = s[1 + i - 1]
  BY <1>1
<1>3. /\ SubSeq(s, n + 1, Len(s)) \in Seq(S)
      /\ Len(SubSeq(s, n + 1, Len(s))) = IF n + 1 <= Len(s) THEN Len(s) - (n + 1) + 1 ELSE 0
      /\ \A i \in 1..(Len(s) - (n + 1) + 1) : SubSeq(s, n + 1, Len(s))[i] = s[n + 1 + i - 1]
  BY <1>1
<1> QED
  BY <1>2, <1>3

\* Bytes move from one buffer to the next.
LEMMA Shift == ASSUME NEW S, NEW a \in Seq(S), NEW b \in Seq(S), NEW n \in 0..Len(b)
               PROVE  (a \o SubSeq(b, 1, n)) \o SubSeq(b, n + 1, Len(b)) = a \o b
<1>1. PICK p, q : p = SubSeq(b, 1, n) /\ q = SubSeq(b, n + 1, Len(b))
  BY Zenon
<1>2. p \in Seq(S) /\ Len(p) = n /\ q \in Seq(S) /\ Len(q) = Len(b) - n
  BY <1>1, CutIn
<1>3. p \o q = b
  <2>0. p \o q \in Seq(S) /\ Len(p \o q) = Len(p) + Len(q)
    BY <1>2, Joined, Zenon
  <2>1. p \o q \in Seq(S) /\ Len(p \o q) = Len(b)
    BY <1>2, <2>0
  <2>2. ASSUME NEW i \in 1..Len(b) PROVE (p \o q)[i] = b[i]
    <3>1. CASE i <= n
      <4>1. (p \o q)[i] = p[i]
        BY <1>2, <3>1
      <4>2. i \in 1..n
        BY <3>1
      <4>3. p[i] = b[i]
        BY <1>1, <4>2, CutIn, Zenon
      <4> QED
        BY <4>1, <4>3, Zenon
    <3>2. CASE i > n
      <4>1. i - n \in 1..(Len(b) - n) /\ n + (i - n) = i
        BY <3>2
      <4>2. q[i - n] = b[n + (i - n)]
        BY <1>1, <4>1, CutIn, Zenon
      <4>3. (p \o q)[i] = q[i - n]
        BY <1>2, <3>2
      <4> QED
        BY <4>1, <4>2, <4>3, Zenon
    <3> QED
      BY <1>2, <3>1, <3>2
  <2> QED
    BY <2>1, <2>2, SameItems, Zenon
<1>4. (a \o p) \o q = a \o (p \o q)
  <2>1. p \in Seq(S) /\ q \in Seq(S)
    BY <1>2, Zenon
  <2> QED
    BY <2>1, JoinedTwice
<1> QED
  BY <1>1, <1>3, <1>4, Zenon

LEMMA DrainedProperties == ASSUME NEW S, NEW s \in Seq(S), Len(s) >= 2
                           PROVE  /\ Drained(s) \in Seq(S) /\ Len(Drained(s)) = Len(s) - 2
                                  /\ \A i \in 1..(Len(s) - 2) : Drained(s)[i] = s[2 + i]
<1>1. PICK n \in 0..Len(s) : n = 2
  OBVIOUS
<1>2. Drained(s) = SubSeq(s, n + 1, Len(s))
  BY <1>1 DEF Drained
<1>3. /\ SubSeq(s, n + 1, Len(s)) \in Seq(S) /\ Len(SubSeq(s, n + 1, Len(s))) = Len(s) - n
      /\ \A i \in 1..(Len(s) - n) : SubSeq(s, n + 1, Len(s))[i] = s[n + i]
  BY CutIn, Zenon
<1> QED
  BY <1>1, <1>2, <1>3, Zenon

LEMMA DrainConcat == ASSUME NEW S, NEW a \in Seq(S), NEW b \in Seq(S), Len(a) >= 2
                     PROVE  Drained(a) \o b = Drained(a \o b)
<1>1. PICK d, e, c : d = Drained(a) /\ e = Drained(c) /\ c = a \o b
  BY Zenon
<1>2. d \in Seq(S) /\ Len(d) = Len(a) - 2
  BY <1>1, DrainedProperties, Zenon
<1>3. c \in Seq(S) /\ Len(c) = Len(a) + Len(b) /\ Len(c) >= 2
  BY <1>1
<1>4. e \in Seq(S) /\ Len(e) = Len(c) - 2
  BY <1>1, <1>3, DrainedProperties, Zenon
<1>5. ASSUME NEW i \in 1..(Len(c) - 2) PROVE (d \o b)[i] = e[i]
  <2>1. e[i] = c[2 + i]
    BY <1>1, <1>3, DrainedProperties, Zenon
  <2>2. CASE i <= Len(a) - 2
    <3>1. (d \o b)[i] = d[i] /\ c[2 + i] = a[2 + i]
      BY <1>1, <1>2, <1>3, <2>2
    <3>2. d[i] = a[2 + i]
      BY <1>1, <2>2, DrainedProperties
    <3> QED
      BY <2>1, <3>1, <3>2, Zenon
  <2>3. CASE i > Len(a) - 2
    <3>1. (d \o b)[i] = b[i - (Len(a) - 2)]
      BY <1>2, <1>3, <2>3
    <3>2. c[2 + i] = b[2 + i - Len(a)]
      BY <1>1, <1>3, <2>3
    <3> QED
      BY <1>3, <2>1, <3>1, <3>2
  <2> QED
    BY <1>2, <1>3, <1>4, <2>2, <2>3
<1>6. d \o b \in Seq(S) /\ Len(d \o b) = Len(e)
  BY <1>2, <1>3, <1>4
<1>7. d \o b = e
  BY <1>3, <1>4, <1>5, <1>6, SameItems, Zenon
<1> QED
  BY <1>1, <1>7, Zenon

LEMMA AppendConcat == ASSUME NEW S, NEW a \in Seq(S), NEW b \in Seq(S), NEW c \in S
                      PROVE  a \o Append(b, c) = Append(a \o b, c)
<1>1. a \o Append(b, c) \in Seq(S) /\ Append(a \o b, c) \in Seq(S)
  OBVIOUS
<1>2. ASSUME NEW i \in 1..(Len(a) + Len(b) + 1)
      PROVE  (a \o Append(b, c))[i] = Append(a \o b, c)[i]
  OBVIOUS
<1> QED
  BY <1>1, <1>2, SameItems

LEMMA HeadOver == ASSUME NEW S, NEW a \in Seq(S), NEW r \in Seq(S), r # <<>>
                  PROVE  Append(a, Head(r)) \o Tail(r) = a \o r
<1>1. Append(a, Head(r)) \o Tail(r) \in Seq(S) /\ a \o r \in Seq(S)
  OBVIOUS
<1>2. ASSUME NEW i \in 1..(Len(a) + Len(r))
      PROVE  (Append(a, Head(r)) \o Tail(r))[i] = (a \o r)[i]
  OBVIOUS
<1> QED
  BY <1>1, <1>2, SameItems

LEMMA FirstOver == ASSUME NEW S, NEW a \in Seq(S), NEW b \in Seq(S), Len(a) >= 2
                   PROVE  Len(a \o b) >= 2 /\ First(a \o b) = First(a)
  BY DEF First

LEMMA FirstOfThree == ASSUME NEW S, NEW a \in Seq(S), NEW b \in Seq(S), NEW c \in Seq(S), Len(a) >= 2
                      PROVE  Len(a \o b \o c) >= 2 /\ First(a \o b \o c) = First(a)
  BY DEF First

\* Runs of whole frames.
LEMMA FramedCut == ASSUME NEW S, NEW s \in Seq(S), Framed(s), NEW n \in 0..Len(s)
                   PROVE  Framed(SubSeq(s, 1, n))
  BY CutIn DEF Framed

LEMMA FramedDrained == ASSUME NEW S, NEW s \in Seq(S), Framed(s), Len(s) >= 2
                       PROVE  /\ Framed(Drained(s)) /\ Len(Drained(s)) = Len(s) - 2
                              /\ s[1][2] = 1 /\ s[2] = <<First(s), 2>>
<1>1. Drained(s) \in Seq(S) /\ Len(Drained(s)) = Len(s) - 2
      /\ \A i \in 1..(Len(s) - 2) : Drained(s)[i] = s[2 + i]
  BY DrainedProperties, Zenon
<1>2. Framed(Drained(s))
  <2> SUFFICES ASSUME NEW i \in 1..(Len(s) - 2)
               PROVE  IF i % 2 = 1 THEN Drained(s)[i][2] = 1
                      ELSE i > 1 /\ Drained(s)[i] = <<Drained(s)[i - 1][1], 2>>
    BY <1>1, Zenon DEF Framed
  <2>1. 2 + i \in 1..Len(s) /\ (2 + i) % 2 = i % 2 /\ (i % 2 # 1 => i > 1)
    OBVIOUS
  <2>2. i > 1 => i - 1 \in 1..(Len(s) - 2) /\ (2 + i) - 1 = 2 + (i - 1)
    OBVIOUS
  <2> QED
    BY <1>1, <2>1, <2>2, Zenon DEF Framed
<1> QED
  BY <1>1, <1>2 DEF Framed, First

LEMMA FramedFirst == ASSUME NEW S, NEW s \in Seq(S), Framed(s), Even(s), NEW f, <<f, 1>> \in S
                     PROVE  Framed(Append(s, <<f, 1>>))
<1>1. PICK c \in S : c = <<f, 1>>
  BY Zenon
<1>2. ASSUME NEW i \in 1..(Len(s) + 1)
      PROVE  IF i % 2 = 1 THEN Append(s, c)[i][2] = 1
             ELSE i > 1 /\ Append(s, c)[i] = <<Append(s, c)[i - 1][1], 2>>
  <2>1. CASE i = Len(s) + 1
    <3>1. i % 2 = 1 /\ Append(s, c)[i] = c
      BY <2>1 DEF Even
    <3> QED
      BY <1>1, <3>1
  <2>2. CASE i <= Len(s)
    <3>1. Append(s, c)[i] = s[i] /\ (i > 1 => Append(s, c)[i - 1] = s[i - 1])
      BY <2>2
    <3> QED
      BY <2>2, <3>1 DEF Framed
  <2> QED
    BY <2>1, <2>2
<1>3. Framed(Append(s, c))
  BY <1>2 DEF Framed
<1> QED
  BY <1>1, <1>3, Zenon

LEMMA FramedSecond == ASSUME NEW S, NEW s \in Seq(S), Framed(s), ~Even(s), <<s[Len(s)][1], 2>> \in S
                      PROVE  Framed(Append(s, <<s[Len(s)][1], 2>>))
  BY SMTT(20) DEF Framed, Even

\* The effect of each operation on a framed stream.
LEMMA WriteFirst ==
  ASSUME NEW f \in ClientFrame, NEW s \in Seq(ClientCell), Framed(s), Even(s)
  PROVE  Framed(Append(s, <<f, 1>>)) /\ Half(Append(s, <<f, 1>>), f)
<1>1. PICK c \in ClientCell : c = <<f, 1>>
  BY Zenon DEF ClientCell
<1>2. Framed(Append(s, c))
  BY <1>1, FramedFirst, Zenon
<1>3. Len(Append(s, c)) = Len(s) + 1 /\ Append(s, c)[Len(s) + 1] = c /\ (Len(s) + 1) % 2 # 0
  BY DEF Even
<1>4. c[1] = f
  BY <1>1, Zenon
<1> QED
  BY <1>1, <1>2, <1>3, <1>4, Zenon DEF Half, Even

LEMMA WriteSecond ==
  ASSUME NEW f \in ClientFrame, NEW s \in Seq(ClientCell), Framed(s), Half(s, f)
  PROVE  Framed(Append(s, <<f, 2>>)) /\ Even(Append(s, <<f, 2>>))
<1>1. PICK c \in ClientCell : c = <<f, 2>>
  BY Zenon DEF ClientCell
<1>2. ~Even(s) /\ s[Len(s)][1] = f
  BY Zenon DEF Half
<1>3. Framed(Append(s, c))
  BY <1>1, <1>2, FramedSecond, Zenon
<1>4. Len(Append(s, c)) = Len(s) + 1 /\ (Len(s) + 1) % 2 = 0
  BY <1>2 DEF Even
<1> QED
  BY <1>1, <1>3, <1>4, Zenon DEF Even

LEMMA DrainEven ==
  ASSUME NEW S, NEW s \in Seq(S), Framed(s), Len(s) >= 2
  PROVE  /\ Framed(Drained(s)) /\ (Even(s) => Even(Drained(s)))
         /\ \A f : Half(s, f) => Half(Drained(s), f)
<1>1. PICK d \in Seq(S) : d = Drained(s)
  BY DrainedProperties, Zenon
<1>2. Framed(d) /\ Len(d) = Len(s) - 2
  BY <1>1, FramedDrained, Zenon
<1>3. \A i \in 1..(Len(s) - 2) : d[i] = s[2 + i]
  BY <1>1, DrainedProperties, Zenon
<1>4. Even(s) => Even(d)
  BY <1>2 DEF Even
<1>5. ASSUME NEW f, Half(s, f) PROVE Half(d, f)
  <2>1. ~Even(s) /\ s[Len(s)][1] = f
    BY <1>5, Zenon DEF Half
  <2>2. Len(s) - 2 \in 1..(Len(s) - 2) /\ 2 + (Len(s) - 2) = Len(s) /\ ~Even(d)
    BY <1>2, <2>1 DEF Even
  <2>3. d[Len(d)] = s[Len(s)]
    BY <1>2, <1>3, <2>2, Zenon
  <2> QED
    BY <2>1, <2>2, <2>3, Zenon DEF Half
<1> QED
  BY <1>1, <1>2, <1>4, <1>5, Zenon

LEMMA AnswerFramed ==
  ASSUME NEW a \in ServerFrame, NEW s \in Seq(ServerCell), Framed(s), Even(s)
  PROVE  Framed(s \o Cells(a)) /\ Even(s \o Cells(a))
<1>1. PICK c \in ServerCell, d \in ServerCell : c = <<a, 1>> /\ d = <<a, 2>>
  BY Zenon DEF ServerCell
<1>a. c \in ServerCell /\ d \in ServerCell
  BY <1>1, Zenon
<1>b. Append(s, c) \in Seq(ServerCell) /\ Len(Append(s, c)) = Len(s) + 1
      /\ Append(s, c)[Len(s) + 1] = c
  BY <1>a
<1>2. PICK r \in Seq(ServerCell) : r = Append(s, c)
  BY <1>b, Zenon
<1>3. Framed(r)
  BY <1>1, <1>2, FramedFirst, Zenon
<1>4. Len(r) = Len(s) + 1 /\ r[Len(r)] = c
  BY <1>b, <1>2, Zenon
<1>5. ~Even(r) /\ Even(Append(r, d))
  <2>1. Len(Append(r, d)) = Len(r) + 1
    BY <1>a, <1>2
  <2>2. (Len(s) + 1) % 2 # 0 /\ (Len(s) + 1 + 1) % 2 = 0
    BY DEF Even
  <2> QED
    BY <1>4, <2>1, <2>2, Zenon DEF Even
<1>6. r[Len(r)][1] = a
  BY <1>1, <1>4
<1>7. Framed(Append(r, d))
  BY <1>1, <1>2, <1>3, <1>5, <1>6, FramedSecond, Zenon
<1>8. s \o <<c, d>> = Append(Append(s, c), d)
  BY <1>a
<1> QED
  BY <1>1, <1>2, <1>5, <1>7, <1>8, Zenon DEF Cells

LEMMA PrefixFramed ==
  ASSUME NEW S, NEW s \in Seq(S), NEW r \in Seq(S), Framed(s \o r)
  PROVE  Framed(s)
<1>1. Len(s) <= Len(s \o r) /\ \A i \in 1..Len(s) : (s \o r)[i] = s[i]
  OBVIOUS
<1> QED
  BY <1>1 DEF Framed

-----------------------------------------------------------------------------
(* Order is kept *)

\* Payloads taken out of a sequence, or replaced by 0, leave the rest in order.
LEMMA EchoesSub ==
  ASSUME NEW p \in Seq(Nat), NEW q \in Seq(Nat), NEW w \in Seq(Nat), Echoes(p, w),
         NEW h \in [1..Len(q) -> 1..Len(p)],
         \A i, j \in 1..Len(q) : i < j => h[i] < h[j],
         \A i \in 1..Len(q) : q[i] # 0 => q[i] = p[h[i]]
  PROVE  Echoes(q, w)
<1>1. ASSUME NEW i \in 1..Len(q), q[i] # 0 PROVE \E k \in 1..Len(w) : w[k] = q[i]
  <2>1. h[i] \in 1..Len(p) /\ p[h[i]] # 0 /\ p[h[i]] = q[i]
    BY <1>1, Zenon
  <2>2. \E k \in 1..Len(w) : w[k] = p[h[i]]
    BY <2>1, Zenon DEF Echoes
  <2> QED
    BY <2>1, <2>2, Zenon
<1>2. ASSUME NEW i \in 1..Len(q), NEW j \in 1..Len(q), i < j, q[i] # 0, q[j] # 0
      PROVE  \E k, l \in 1..Len(w) : k < l /\ w[k] = q[i] /\ w[l] = q[j]
  <2>1. h[i] \in 1..Len(p) /\ p[h[i]] # 0 /\ p[h[i]] = q[i]
    BY <1>2, Zenon
  <2>2. h[j] \in 1..Len(p) /\ p[h[j]] # 0 /\ p[h[j]] = q[j]
    BY <1>2, Zenon
  <2>3. h[i] < h[j]
    BY <1>2, Zenon
  <2>4. \E k, l \in 1..Len(w) : k < l /\ w[k] = p[h[i]] /\ w[l] = p[h[j]]
    BY <2>1, <2>2, <2>3, Zenon DEF Echoes
  <2> QED
    BY <2>1, <2>2, <2>4, Zenon
<1> QED
  BY <1>1, <1>2, Zenon DEF Echoes

LEMMA EchoesRemove ==
  ASSUME NEW a \in Seq(Nat), NEW b \in Seq(Nat), NEW c \in Seq(Nat), NEW w \in Seq(Nat),
         Echoes(a \o b \o c, w)
  PROVE  Echoes(a \o c, w)
<1>a. /\ a \o b \o c \in Seq(Nat) /\ a \o c \in Seq(Nat)
      /\ Len(a \o b \o c) = Len(a) + Len(b) + Len(c) /\ Len(a \o c) = Len(a) + Len(c)
      /\ \A i \in 1..Len(a) : (a \o b \o c)[i] = a[i] /\ (a \o c)[i] = a[i]
  OBVIOUS
<1>b. ASSUME NEW i \in 1..Len(c)
      PROVE  (a \o b \o c)[Len(a) + Len(b) + i] = c[i] /\ (a \o c)[Len(a) + i] = c[i]
  OBVIOUS
<1>1. PICK p \in Seq(Nat), q \in Seq(Nat) : p = a \o b \o c /\ q = a \o c
  BY <1>a, Zenon
<1>2. /\ Len(p) = Len(a) + Len(b) + Len(c) /\ Len(q) = Len(a) + Len(c)
      /\ \A i \in 1..Len(a) : p[i] = a[i] /\ q[i] = a[i]
      /\ \A i \in 1..Len(c) : p[Len(a) + Len(b) + i] = c[i] /\ q[Len(a) + i] = c[i]
  BY <1>a, <1>b, <1>1, Zenon
<1>c. PICK l \in Nat, m \in Nat, n \in Nat : l = Len(a) /\ m = Len(b) /\ n = Len(c)
  OBVIOUS
<1>3. PICK h : h = [i \in 1..(l + n) |-> IF i <= l THEN i ELSE i + m]
  BY Zenon
<1>d. h \in [1..(l + n) -> 1..(l + m + n)] /\ \A i, j \in 1..(l + n) : i < j => h[i] < h[j]
  BY <1>3
<1>4. h \in [1..Len(q) -> 1..Len(p)] /\ \A i, j \in 1..Len(q) : i < j => h[i] < h[j]
  BY <1>2, <1>c, <1>d, Zenon
<1>5. ASSUME NEW i \in 1..Len(q) PROVE q[i] = p[h[i]]
  <2>0. i \in 1..(l + n)
    BY <1>2, <1>c, Zenon
  <2>1. CASE i <= l
    <3>1. h[i] = i /\ i \in 1..Len(a)
      BY <1>c, <1>3, <2>0, <2>1
    <3> QED
      BY <1>2, <3>1, Zenon
  <2>2. CASE i > l
    <3>1. PICK k \in 1..n : i = l + k
      <4>1. i - l \in 1..n /\ i = l + (i - l)
        BY <2>0, <2>2
      <4> QED
        BY <4>1, Zenon
    <3>2. h[i] = l + m + k
      BY <1>3, <2>0, <2>2, <3>1
    <3> QED
      BY <1>2, <1>c, <3>1, <3>2, Zenon
  <2> QED
    BY <2>0, <2>1, <2>2
<1> QED
  <2>1. Echoes(p, w)
    BY <1>1, Zenon
  <2>2. p \in Seq(Nat) /\ q \in Seq(Nat) /\ \A i \in 1..Len(q) : q[i] # 0 => q[i] = p[h[i]]
    BY <1>1, <1>5, Zenon
  <2>3. Echoes(q, w)
    BY <1>4, <2>1, <2>2, EchoesSub, Zenon
  <2> QED
    BY <1>1, <2>3, Zenon

LEMMA EchoesZero ==
  ASSUME NEW p \in Seq(Nat), NEW q \in Seq(Nat), NEW w \in Seq(Nat), Echoes(p, w),
         Len(q) = Len(p), \A i \in 1..Len(p) : q[i] \in {p[i], 0}
  PROVE  Echoes(q, w)
<1>1. PICK h : h = [i \in 1..Len(q) |-> i]
  BY Zenon
<1>2. h \in [1..Len(q) -> 1..Len(p)] /\ \A i, j \in 1..Len(q) : i < j => h[i] < h[j]
  BY <1>1, Zenon
<1>3. \A i \in 1..Len(q) : q[i] # 0 => q[i] = p[h[i]]
  BY <1>1, Zenon
<1> QED
  BY <1>2, <1>3, EchoesSub, Zenon

LEMMA EchoesAppendZero ==
  ASSUME NEW p \in Seq(Nat), NEW w \in Seq(Nat), Echoes(p, w)
  PROVE  Echoes(Append(p, 0), w)
<1>a. /\ Append(p, 0) \in Seq(Nat) /\ Len(Append(p, 0)) = Len(p) + 1
      /\ Append(p, 0)[Len(p) + 1] = 0 /\ \A i \in 1..Len(p) : Append(p, 0)[i] = p[i]
  OBVIOUS
<1>1. PICK q \in Seq(Nat) : q = Append(p, 0)
  BY <1>a, Zenon
<1>2. Len(q) = Len(p) + 1 /\ q[Len(p) + 1] = 0 /\ \A i \in 1..Len(p) : q[i] = p[i]
  BY <1>a, <1>1, Zenon
<1>3. \A i \in 1..Len(q) : q[i] # 0 => i \in 1..Len(p) /\ q[i] = p[i]
  BY <1>2
<1>4. ASSUME NEW i \in 1..Len(q), q[i] # 0 PROVE \E k \in 1..Len(w) : w[k] = q[i]
  <2>1. i \in 1..Len(p) /\ q[i] = p[i] /\ p[i] # 0
    BY <1>3, <1>4, Zenon
  <2>2. \E k \in 1..Len(w) : w[k] = p[i]
    BY <2>1, Zenon DEF Echoes
  <2> QED
    BY <2>1, <2>2, Zenon
<1>5. ASSUME NEW i \in 1..Len(q), NEW j \in 1..Len(q), i < j, q[i] # 0, q[j] # 0
      PROVE  \E k, l \in 1..Len(w) : k < l /\ w[k] = q[i] /\ w[l] = q[j]
  <2>1. i \in 1..Len(p) /\ q[i] = p[i] /\ p[i] # 0 /\ j \in 1..Len(p) /\ q[j] = p[j] /\ p[j] # 0
    BY <1>3, <1>5, Zenon
  <2>2. \E k, l \in 1..Len(w) : k < l /\ w[k] = p[i] /\ w[l] = p[j]
    BY <1>5, <2>1, Zenon DEF Echoes
  <2> QED
    BY <2>1, <2>2, Zenon
<1>6. Echoes(q, w)
  BY <1>4, <1>5, Zenon DEF Echoes
<1> QED
  BY <1>1, <1>6, Zenon

LEMMA EchoesExtend ==
  ASSUME NEW p \in Seq(Nat), NEW w \in Seq(Nat), NEW d \in Nat, Echoes(p, w)
  PROVE  Echoes(Append(p, d), Append(w, d))
<1>a. Append(p, d) \in Seq(Nat) /\ Append(w, d) \in Seq(Nat)
  OBVIOUS
<1>1. PICK q \in Seq(Nat), v \in Seq(Nat) : q = Append(p, d) /\ v = Append(w, d)
  BY <1>a, Zenon
<1>2. \A i \in 1..Len(q) : \/ i \in 1..Len(p) /\ q[i] = p[i]
                           \/ i = Len(p) + 1 /\ q[i] = d
  BY <1>1
<1>3. /\ \A k \in 1..Len(w) : k \in 1..Len(v) /\ v[k] = w[k] /\ k < Len(w) + 1
      /\ Len(w) + 1 \in 1..Len(v) /\ v[Len(w) + 1] = d
  BY <1>1
<1>4. ASSUME NEW i \in 1..Len(q), q[i] # 0 PROVE \E k \in 1..Len(v) : v[k] = q[i]
  <2>1. CASE i \in 1..Len(p) /\ q[i] = p[i]
    <3>1. PICK k \in 1..Len(w) : w[k] = p[i]
      BY <1>4, <2>1, Zenon DEF Echoes
    <3> QED
      BY <1>3, <2>1, <3>1, Zenon
  <2>2. CASE i = Len(p) + 1 /\ q[i] = d
    BY <1>3, <2>2, Zenon
  <2> QED
    BY <1>2, <2>1, <2>2, Zenon
<1>5. ASSUME NEW i \in 1..Len(q), NEW j \in 1..Len(q), i < j, q[i] # 0, q[j] # 0
      PROVE  \E k, l \in 1..Len(v) : k < l /\ v[k] = q[i] /\ v[l] = q[j]
  <2>1. i \in 1..Len(p) /\ q[i] = p[i]
    BY <1>1, <1>5
  <2>2. CASE j \in 1..Len(p) /\ q[j] = p[j]
    <3>1. PICK k \in 1..Len(w), l \in 1..Len(w) : k < l /\ w[k] = p[i] /\ w[l] = p[j]
      BY <1>5, <2>1, <2>2, Zenon DEF Echoes
    <3> QED
      BY <1>3, <2>1, <2>2, <3>1, Zenon
  <2>3. CASE j = Len(p) + 1 /\ q[j] = d
    <3>1. PICK k \in 1..Len(w) : w[k] = p[i]
      BY <1>5, <2>1, Zenon DEF Echoes
    <3> QED
      BY <1>3, <2>1, <2>3, <3>1, Zenon
  <2> QED
    BY <1>2, <2>2, <2>3, Zenon
<1>6. Echoes(q, v)
  BY <1>4, <1>5, Zenon DEF Echoes
<1> QED
  BY <1>1, <1>6, Zenon

\* Sequences of payloads, with the concatenation left as it is.
LEMMA CatType == ASSUME NEW a \in Seq(Nat), NEW b \in Seq(Nat) PROVE Cat(a, b) \in Seq(Nat)
  BY DEF Cat

LEMMA CatAssoc == ASSUME NEW a \in Seq(Nat), NEW b \in Seq(Nat), NEW c \in Seq(Nat)
                  PROVE  Cat(Cat(a, b), c) = Cat(a, Cat(b, c))
<1>1. (a \o b) \o c = a \o (b \o c)
  BY JoinedTwice
<1> QED
  BY <1>1, Zenon DEF Cat

LEMMA CatAppend == ASSUME NEW a \in Seq(Nat), NEW b \in Seq(Nat), NEW d \in Nat
                   PROVE  Cat(a, Append(b, d)) = Append(Cat(a, b), d)
  BY AppendConcat DEF Cat

LEMMA CatRemove ==
  ASSUME NEW a \in Seq(Nat), NEW b \in Seq(Nat), NEW c \in Seq(Nat), NEW w \in Seq(Nat),
         Echoes(Cat(Cat(a, b), c), w)
  PROVE  Echoes(Cat(a, c), w)
  BY EchoesRemove, Zenon DEF Cat

\* A frame's two cells.
Pair(e) == <<0, e>>

LEMMA CatPair ==
  ASSUME NEW e \in Nat
  PROVE  /\ Pair(e) \in Seq(Nat)
         /\ \A g, d \in Seq(Nat) : Cat(Cat(g, <<0>>), Cat(<<e>>, d)) = Cat(g, Cat(Pair(e), d))
         /\ \A g \in Seq(Nat) : Cat(g, <<e>>) = Append(g, e)
<1>1. Pair(e) \in Seq(Nat) /\ <<0>> \in Seq(Nat) /\ <<e>> \in Seq(Nat) /\ Pair(e) = Cat(<<0>>, <<e>>)
  BY DEF Pair, Cat
<1>2. PICK p \in Seq(Nat), q \in Seq(Nat) : p = <<0>> /\ q = <<e>>
  BY <1>1, Zenon
<1>3. ASSUME NEW g \in Seq(Nat), NEW d \in Seq(Nat) PROVE Cat(Cat(g, p), Cat(q, d)) = Cat(g, Cat(Pair(e), d))
  <2>1. p \in Seq(Nat) /\ q \in Seq(Nat) /\ Pair(e) = Cat(p, q)
    BY <1>1, <1>2, Zenon
  <2> QED
    BY <2>1, CatType, CatAssoc
<1>4. ASSUME NEW g \in Seq(Nat) PROVE Cat(g, <<e>>) = Append(g, e)
  BY DEF Cat
<1> QED
  BY <1>1, <1>2, <1>3, <1>4, Zenon

LEMMA UpToTwo == ASSUME NEW m \in Nat, NEW i \in Nat, i <= m + 2
                 PROVE  i <= m \/ i = m + 1 \/ i = m + 2
  OBVIOUS

LEMMA ReplacePair ==
  ASSUME NEW x \in Seq(Nat), NEW u \in Seq(Nat), NEW e \in Nat, NEW z \in Nat, z \in {e, 0},
         NEW p, NEW q, p = Cat(Cat(x, Pair(e)), u), q = Cat(Cat(x, Pair(z)), u),
         p \in Seq(Nat), q \in Seq(Nat), NEW w \in Seq(Nat), Echoes(p, w)
  PROVE  Echoes(q, w)
<1> DEFINE r(k) == [i \in 1..(Len(x) + 2 + Len(u)) |->
                     IF i <= Len(x) THEN x[i]
                     ELSE IF i <= Len(x) + 2 THEN (IF i = Len(x) + 1 THEN 0 ELSE k)
                     ELSE u[i - (Len(x) + 2)]]
<1>1. ASSUME NEW k \in Nat
      PROVE  /\ Len(Cat(Cat(x, Pair(k)), u)) = Len(x) + 2 + Len(u)
             /\ \A i \in 1..(Len(x) + 2 + Len(u)) : Cat(Cat(x, Pair(k)), u)[i] = r(k)[i]
  <2>1. PICK y \in Seq(Nat) : y = Cat(x, Pair(k))
    BY CatPair, CatType, Zenon
  <2>2. /\ Len(y) = Len(x) + 2 /\ y[Len(x) + 1] = 0 /\ y[Len(x) + 2] = k
        /\ \A i \in 1..Len(x) : y[i] = x[i]
    BY <2>1 DEF Cat, Pair
  <2>3. /\ Len(Cat(y, u)) = Len(y) + Len(u)
        /\ \A i \in 1..Len(y) : Cat(y, u)[i] = y[i]
        /\ \A i \in 1..Len(u) : Cat(y, u)[Len(y) + i] = u[i]
    BY DEF Cat
  <2>4. ASSUME NEW i \in 1..(Len(x) + 2 + Len(u)) PROVE Cat(y, u)[i] = r(k)[i]
    <3>1. CASE i <= Len(x) + 2
      <4>1. i \in 1..Len(y)
        BY <2>2, <3>1
      <4>2. CASE i <= Len(x)
        <5>1. i \in 1..Len(x) /\ r(k)[i] = x[i]
          BY <4>2
        <5> QED
          BY <2>2, <2>3, <4>1, <5>1, Zenon
      <4>3. CASE i = Len(x) + 1
        <5>1. r(k)[i] = 0
          BY <4>3
        <5> QED
          BY <2>2, <2>3, <4>1, <4>3, <5>1, Zenon
      <4>4. CASE i = Len(x) + 2
        <5>1. r(k)[i] = k
          BY <4>4
        <5> QED
          BY <2>2, <2>3, <4>1, <4>4, <5>1, Zenon
      <4>5. i <= Len(x) \/ i = Len(x) + 1 \/ i = Len(x) + 2
        <5>1. PICK m \in Nat : m = Len(x)
          OBVIOUS
        <5>2. i \in Nat /\ i <= m + 2
          BY <3>1, <5>1
        <5>3. i <= m \/ i = m + 1 \/ i = m + 2
          BY <5>1, <5>2, UpToTwo, Zenon
        <5> QED
          BY <5>1, <5>3, Zenon
      <4> QED
        BY <4>2, <4>3, <4>4, <4>5, Zenon
    <3>2. CASE i > Len(x) + 2
      <4>1. i - (Len(x) + 2) \in 1..Len(u) /\ Len(y) + (i - (Len(x) + 2)) = i
        BY <2>2, <3>2
      <4>2. r(k)[i] = u[i - (Len(x) + 2)]
        BY <3>2
      <4>3. Cat(y, u)[Len(y) + (i - (Len(x) + 2))] = u[i - (Len(x) + 2)]
        BY <2>3, <4>1, Zenon
      <4> QED
        BY <4>1, <4>2, <4>3, Zenon
    <3> QED
      BY <3>1, <3>2
  <2> QED
    BY <2>1, <2>2, <2>3, <2>4, Zenon
<1>2. z \in Nat /\ e \in Nat
  BY Zenon
<1>3. \A i \in 1..(Len(x) + 2 + Len(u)) : r(z)[i] \in {r(e)[i], 0}
  BY Zenon
<1> HIDE DEF r
<1>4. /\ Len(Cat(Cat(x, Pair(z)), u)) = Len(x) + 2 + Len(u)
      /\ \A i \in 1..(Len(x) + 2 + Len(u)) : Cat(Cat(x, Pair(z)), u)[i] = r(z)[i]
  BY <1>1, <1>2, Zenon
<1>5. /\ Len(Cat(Cat(x, Pair(e)), u)) = Len(x) + 2 + Len(u)
      /\ \A i \in 1..(Len(x) + 2 + Len(u)) : Cat(Cat(x, Pair(e)), u)[i] = r(e)[i]
  BY <1>1, <1>2, Zenon
<1>6. Len(q) = Len(p) /\ \A i \in 1..Len(p) : q[i] \in {p[i], 0}
  BY <1>3, <1>4, <1>5, Zenon
<1> QED
  BY <1>6, EchoesZero, Zenon

\* The payloads of a stream.
LEMMA LoadTypes ==
  ASSUME NEW c, c \in ClientCell \/ c \in ServerCell
  PROVE  Load(c) \in Nat
  BY Zenon DEF Load, ClientCell, ServerCell, ClientFrame, ServerFrame

LEMMA LoadsTyped ==
  ASSUME NEW s, s \in Seq(ClientCell) \/ s \in Seq(ServerCell)
  PROVE  /\ Loads(s) \in Seq(Nat) /\ Len(Loads(s)) = Len(s)
         /\ \A i \in 1..Len(s) : Loads(s)[i] = Load(s[i])
<1>1. Len(s) \in Nat /\ \A i \in 1..Len(s) : s[i] \in ClientCell \/ s[i] \in ServerCell
  OBVIOUS
<1>2. \A i \in 1..Len(s) : Load(s[i]) \in Nat
  BY <1>1, LoadTypes, Zenon
<1> QED
  BY <1>1, <1>2 DEF Loads

LEMMA LoadsConcat ==
  ASSUME NEW S, S = ClientCell \/ S = ServerCell, NEW a \in Seq(S), NEW b \in Seq(S)
  PROVE  Loads(a \o b) = Loads(a) \o Loads(b)
<1>1. PICK x \in Seq(Nat), y \in Seq(Nat), z \in Seq(Nat), c \in Seq(S) :
        x = Loads(a) /\ y = Loads(b) /\ z = Loads(c) /\ c = a \o b
  <2>1. a \o b \in Seq(S)
    OBVIOUS
  <2> QED
    BY <2>1, LoadsTyped, Zenon
<1>2. /\ Len(x) = Len(a) /\ \A i \in 1..Len(a) : x[i] = Load(a[i])
      /\ Len(y) = Len(b) /\ \A i \in 1..Len(b) : y[i] = Load(b[i])
      /\ Len(z) = Len(c) /\ \A i \in 1..Len(c) : z[i] = Load(c[i])
  BY <1>1, LoadsTyped, Zenon
<1>3. /\ Len(c) = Len(a) + Len(b)
      /\ \A i \in 1..Len(c) : c[i] = IF i <= Len(a) THEN a[i] ELSE b[i - Len(a)]
  BY <1>1
<1>4. ASSUME NEW i \in 1..Len(z) PROVE z[i] = (x \o y)[i]
  <2>0. z[i] = Load(c[i]) /\ i \in 1..Len(c)
    BY <1>2, Zenon
  <2>1. CASE i <= Len(a)
    <3>1. (x \o y)[i] = x[i] /\ i \in 1..Len(a)
      BY <1>1, <1>2, <1>3, <2>1
    <3>2. c[i] = a[i]
      BY <1>3, <2>0, <2>1, Zenon
    <3> QED
      BY <1>2, <2>0, <3>1, <3>2, Zenon
  <2>2. CASE i > Len(a)
    <3>1. (x \o y)[i] = y[i - Len(a)] /\ i - Len(a) \in 1..Len(b)
      BY <1>1, <1>2, <1>3, <2>2
    <3>2. c[i] = b[i - Len(a)]
      BY <1>3, <2>0, <2>2
    <3> QED
      BY <1>2, <2>0, <3>1, <3>2, Zenon
  <2>3. i <= Len(a) \/ i > Len(a)
    OBVIOUS
  <2> QED
    BY <2>1, <2>2, <2>3, Zenon
<1>a. x \in Seq(Nat) /\ y \in Seq(Nat) /\ z \in Seq(Nat)
  BY <1>1, Zenon
<1>b. x \o y \in Seq(Nat) /\ Len(x \o y) = Len(x) + Len(y)
  BY <1>a
<1>c. Len(z) = Len(x) + Len(y)
  BY <1>2, <1>3, Zenon
<1>5. z = x \o y
  BY <1>a, <1>b, <1>c, <1>4, SameItems, Zenon
<1> QED
  BY <1>1, <1>5, Zenon

LEMMA LoadsAppend ==
  ASSUME NEW a \in Seq(ClientCell), NEW c \in ClientCell
  PROVE  Loads(Append(a, c)) = Append(Loads(a), Load(c))
<1>1. Append(a, c) \in Seq(ClientCell)
  OBVIOUS
<1>2. PICK b \in Seq(ClientCell), x \in Seq(Nat), y \in Seq(Nat), d \in Nat :
        b = Append(a, c) /\ x = Loads(a) /\ y = Loads(b) /\ d = Load(c)
  BY <1>1, LoadsTyped, LoadTypes, Zenon
<1>a. /\ x \in Seq(Nat) /\ y \in Seq(Nat) /\ d \in Nat
  BY <1>2, Zenon
<1>3. /\ Len(x) = Len(a) /\ \A i \in 1..Len(a) : x[i] = Load(a[i])
      /\ Len(y) = Len(b) /\ \A i \in 1..Len(b) : y[i] = Load(b[i])
  BY <1>2, LoadsTyped, Zenon
<1>4. Len(b) = Len(a) + 1 /\ b[Len(a) + 1] = c /\ \A i \in 1..Len(a) : b[i] = a[i]
  <2>1. Len(Append(a, c)) = Len(a) + 1 /\ Append(a, c)[Len(a) + 1] = c
        /\ \A i \in 1..Len(a) : Append(a, c)[i] = a[i]
    OBVIOUS
  <2> QED
    BY <1>2, <2>1, Zenon
<1>5. /\ Append(x, d) \in Seq(Nat) /\ Len(Append(x, d)) = Len(x) + 1
      /\ Append(x, d)[Len(x) + 1] = d /\ \A i \in 1..Len(x) : Append(x, d)[i] = x[i]
  BY <1>a
<1>6. ASSUME NEW i \in 1..Len(y) PROVE y[i] = Append(x, d)[i]
  <2>1. i \in 1..Len(b) /\ y[i] = Load(b[i])
    BY <1>3, Zenon
  <2>2. i \in 1..Len(a) \/ i = Len(a) + 1
    BY <1>4, <2>1
  <2> QED
    BY <1>2, <1>3, <1>4, <1>5, <2>1, <2>2, Zenon
<1>7. Len(y) = Len(Append(x, d))
  BY <1>3, <1>4, <1>5, Zenon
<1>8. y = Append(x, d)
  BY <1>a, <1>5, <1>6, <1>7, SameItems, Zenon
<1> QED
  BY <1>2, <1>8, Zenon

\* The payload of a frame counts once.
Payload(f) == IF f.type = "DATA" THEN f.data ELSE 0

LEMMA LoadsFirst ==
  ASSUME NEW S, S = ClientCell \/ S = ServerCell, NEW s \in Seq(S), Framed(s), Len(s) >= 2
  PROVE  /\ Payload(First(s)) \in Nat
         /\ Loads(s) = Cat(Pair(Payload(First(s))), Loads(Drained(s)))
<1>1. PICK d \in Seq(S), x \in Seq(Nat), y \in Seq(Nat) :
        d = Drained(s) /\ x = Loads(s) /\ y = Loads(d)
  <2>1. Drained(s) \in Seq(S)
    BY DrainedProperties, Zenon
  <2> QED
    BY <2>1, LoadsTyped, Zenon
<1>a. x \in Seq(Nat) /\ y \in Seq(Nat)
  BY <1>1, Zenon
<1>2. Len(d) = Len(s) - 2 /\ \A i \in 1..(Len(s) - 2) : d[i] = s[2 + i]
  BY <1>1, DrainedProperties, Zenon
<1>3. /\ Len(x) = Len(s) /\ \A i \in 1..Len(s) : x[i] = Load(s[i])
      /\ Len(y) = Len(d) /\ \A i \in 1..Len(d) : y[i] = Load(d[i])
  BY <1>1, LoadsTyped, Zenon
<1>4. s[1][2] = 1 /\ s[2] = <<First(s), 2>> /\ 1 \in 1..Len(s) /\ 2 \in 1..Len(s)
  BY FramedDrained
<1>5. Load(s[1]) = 0 /\ Load(s[2]) = Payload(First(s))
  BY <1>4 DEF Load, Payload
<1>6. PICK e \in Nat : e = Payload(First(s))
  <2>0. s[2] \in S
    BY <1>4, Item, Zenon
  <2>1. s[2] \in ClientCell \/ s[2] \in ServerCell
    BY <2>0, Zenon
  <2>2. Load(s[2]) \in Nat
    BY <2>1, LoadTypes, Zenon
  <2> QED
    BY <1>5, <2>2, Zenon
<1>7. x[1] = 0 /\ x[2] = e
  BY <1>3, <1>4, <1>5, <1>6, Zenon
<1>8. \A i \in 1..Len(y) : y[i] = x[2 + i]
  <2> SUFFICES ASSUME NEW i \in 1..Len(y) PROVE y[i] = x[2 + i]
    BY Zenon
  <2>1. i \in 1..Len(d) /\ i \in 1..(Len(s) - 2)
    BY <1>2, <1>3, Zenon
  <2>2. 2 + i \in 1..Len(s)
    BY <2>1
  <2> QED
    BY <1>2, <1>3, <2>1, <2>2, Zenon
<1>9. Len(x) = Len(y) + 2
  BY <1>2, <1>3
<1>10. <<0, e>> \o y \in Seq(Nat) /\ Len(<<0, e>> \o y) = Len(y) + 2
       /\ (<<0, e>> \o y)[1] = 0 /\ (<<0, e>> \o y)[2] = e
       /\ \A i \in 1..Len(y) : (<<0, e>> \o y)[2 + i] = y[i]
  BY <1>a, <1>6
<1>11. ASSUME NEW i \in 1..Len(x) PROVE x[i] = (<<0, e>> \o y)[i]
  <2>1. i = 1 \/ i = 2 \/ \E k \in 1..Len(y) : i = 2 + k
    <3>1. i > 2 => i - 2 \in 1..Len(y) /\ i = 2 + (i - 2)
      BY <1>a, <1>9
    <3>2. i = 1 \/ i = 2 \/ i > 2
      BY <1>a
    <3> QED
      BY <3>1, <3>2, Zenon
  <2> QED
    BY <1>7, <1>8, <1>10, <2>1, Zenon
<1>12. x = <<0, e>> \o y
  BY <1>a, <1>9, <1>10, <1>11, SameItems, Zenon
<1> QED
  BY <1>1, <1>6, <1>12, Zenon DEF Cat, Pair

\* What the steps do to the payloads g (returned), d (coming back) and u (going
\* there) of a connection.
LEMMA LoseBack ==
  ASSUME NEW g \in Seq(Nat), NEW e \in Seq(Nat), NEW d \in Seq(Nat), NEW u \in Seq(Nat),
         NEW w \in Seq(Nat), Echoes(Cat(Cat(g, Cat(e, d)), u), w)
  PROVE  Echoes(Cat(Cat(g, d), u), w)
<1>1. Cat(Cat(g, Cat(e, d)), u) = Cat(Cat(g, e), Cat(d, u)) /\ Cat(d, u) \in Seq(Nat)
  BY CatType, CatAssoc
<1>2. Echoes(Cat(g, Cat(d, u)), w)
  BY <1>1, CatRemove, Zenon
<1>3. Cat(g, Cat(d, u)) = Cat(Cat(g, d), u)
  BY CatAssoc
<1> QED
  BY <1>2, <1>3, Zenon

LEMMA LoseBackEnd ==
  ASSUME NEW g \in Seq(Nat), NEW d \in Seq(Nat), NEW e \in Seq(Nat), NEW u \in Seq(Nat),
         NEW w \in Seq(Nat), Echoes(Cat(Cat(g, Cat(d, e)), u), w)
  PROVE  Echoes(Cat(Cat(g, d), u), w)
<1>1. Cat(g, Cat(d, e)) = Cat(Cat(g, d), e) /\ Cat(g, d) \in Seq(Nat)
  BY CatType, CatAssoc
<1> QED
  BY <1>1, CatRemove, Zenon

LEMMA LoseThere ==
  ASSUME NEW p \in Seq(Nat), NEW e \in Seq(Nat), NEW u \in Seq(Nat), NEW w \in Seq(Nat),
         Echoes(Cat(p, Cat(e, u)), w)
  PROVE  Echoes(Cat(p, u), w)
<1>1. Cat(p, Cat(e, u)) = Cat(Cat(p, e), u)
  BY CatAssoc
<1> QED
  BY <1>1, CatRemove, Zenon

LEMMA TakeFirst ==
  ASSUME NEW g \in Seq(Nat), NEW e \in Nat, NEW d \in Seq(Nat), NEW u \in Seq(Nat),
         NEW w \in Seq(Nat), Echoes(Cat(Cat(g, Cat(Pair(e), d)), u), w)
  PROVE  Echoes(Cat(Cat(Append(g, e), d), u), w)
<1>1. <<0>> \in Seq(Nat) /\ <<e>> \in Seq(Nat) /\ Cat(<<e>>, d) \in Seq(Nat)
  BY DEF Cat
<1>2. PICK z \in Seq(Nat), y \in Seq(Nat), x \in Seq(Nat) : z = <<0>> /\ y = <<e>> /\ x = Cat(y, d)
  BY <1>1, Zenon
<1>3. Cat(Cat(g, z), x) = Cat(g, Cat(Pair(e), d)) /\ Cat(g, y) = Append(g, e)
  <2>1. Cat(Cat(g, <<0>>), Cat(<<e>>, d)) = Cat(g, Cat(Pair(e), d))
    BY CatPair, Zenon
  <2>2. Cat(g, <<e>>) = Append(g, e)
    BY CatPair, Zenon
  <2> QED
    BY <1>2, <2>1, <2>2, Zenon
<1>a. z \in Seq(Nat) /\ y \in Seq(Nat) /\ x \in Seq(Nat) /\ x = Cat(y, d)
  BY <1>2, Zenon
<1>4. Cat(Cat(g, z), x) = Cat(g, Cat(z, x))
  BY <1>a, CatAssoc
<1>b. Echoes(Cat(Cat(g, Cat(z, x)), u), w)
  BY <1>3, <1>4, Zenon
<1>5. Echoes(Cat(Cat(g, x), u), w)
  BY <1>a, <1>b, LoseBack, Zenon
<1>6. Cat(g, x) = Cat(Cat(g, y), d)
  BY <1>a, CatAssoc
<1> QED
  BY <1>3, <1>5, <1>6, Zenon

LEMMA TurnAround ==
  ASSUME NEW g \in Seq(Nat), NEW d \in Seq(Nat), NEW e \in Nat, NEW z \in {e, 0},
         NEW u \in Seq(Nat), NEW w \in Seq(Nat), Echoes(Cat(Cat(g, d), Cat(Pair(e), u)), w)
  PROVE  Echoes(Cat(Cat(g, Cat(d, Pair(z))), u), w)
<1>1. PICK x \in Seq(Nat), a \in Seq(Nat), b \in Seq(Nat) : x = Cat(g, d) /\ a = Pair(e) /\ b = Pair(z)
  <2>1. z \in Nat
    OBVIOUS
  <2> QED
    BY <2>1, CatType, CatPair, Zenon
<1>2. /\ Cat(x, Cat(a, u)) = Cat(Cat(x, a), u)
      /\ Cat(Cat(g, Cat(d, b)), u) = Cat(Cat(x, b), u)
  BY <1>1, CatType, CatAssoc
<1>3. PICK p \in Seq(Nat), q \in Seq(Nat) : p = Cat(Cat(x, a), u) /\ q = Cat(Cat(x, b), u)
  BY <1>1, CatType, Zenon
<1>4. Echoes(p, w)
  BY <1>1, <1>2, <1>3, Zenon
<1>5. x \in Seq(Nat) /\ p = Cat(Cat(x, Pair(e)), u) /\ q = Cat(Cat(x, Pair(z)), u)
  BY <1>1, <1>3, Zenon
<1>6. Echoes(q, w)
  <2>1. z \in Nat /\ z \in {e, 0}
    OBVIOUS
  <2> QED
    BY <1>3, <1>4, <1>5, <2>1, ReplacePair, Zenon
<1> QED
  BY <1>1, <1>2, <1>3, <1>6, Zenon

LEMMA WriteThere ==
  ASSUME NEW p \in Seq(Nat), NEW u \in Seq(Nat), NEW w \in Seq(Nat), Echoes(Cat(p, u), w)
  PROVE  /\ Echoes(Cat(p, Append(u, 0)), w)
         /\ \A d \in Nat : Echoes(Cat(p, Append(u, d)), Append(w, d))
<1>1. PICK q \in Seq(Nat) : q = Cat(p, u)
  BY CatType, Zenon
<1>2. ASSUME NEW d \in Nat PROVE Cat(p, Append(u, d)) = Append(q, d)
  BY <1>1, <1>2, CatAppend, Zenon
<1>3. Echoes(Append(q, 0), w)
  BY <1>1, EchoesAppendZero, Zenon
<1>4. ASSUME NEW d \in Nat PROVE Echoes(Append(q, d), Append(w, d))
  BY <1>1, EchoesExtend, Zenon
<1>5. 0 \in Nat
  BY Zenon
<1> QED
  BY <1>2, <1>3, <1>4, <1>5, Zenon

\* An answer's two cells.
LEMMA LoadsCells == ASSUME NEW a \in ServerFrame
                    PROVE  Cells(a) \in Seq(ServerCell) /\ Loads(Cells(a)) = Pair(Payload(a))
<1>1. <<a, 1>> \in ServerCell /\ <<a, 2>> \in ServerCell
  BY Zenon DEF ServerCell
<1>2. PICK x \in ServerCell, y \in ServerCell : x = <<a, 1>> /\ y = <<a, 2>>
  BY <1>1, Zenon
<1>3. Load(x) = 0 /\ Load(y) = Payload(a)
  BY <1>2 DEF Load, Payload
<1>4. Loads(<<x, y>>) = <<Load(x), Load(y)>>
  BY DEF Loads
<1>5. <<x, y>> \in Seq(ServerCell)
  OBVIOUS
<1> QED
  BY <1>2, <1>3, <1>4, <1>5, Zenon DEF Cells, Pair

LEMMA Nothing == ASSUME NEW S, NEW s \in Seq(S) PROVE <<>> \in Seq(S) /\ s \o <<>> = s
  OBVIOUS

=============================================================================
