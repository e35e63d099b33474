-------------------------- MODULE EchoOrderProofs ---------------------------
(***************************************************************************)
(* EchoLink: the framing of the byte streams and the order of the payloads *)
(* on them, on top of the invariants of EchoLinkProofs and EchoCallProofs. *)
(***************************************************************************)
EXTENDS EchoCallProofs, EchoFrameProofs

-----------------------------------------------------------------------------
(* Framing *)

UpStream(g) == sbuf[g] \o up[g]
DownStream(g) == rbuf[g] \o down[g] \o (IF alive[g] THEN reply[g] ELSE <<>>)

\* On an open connection the client's stream ends with a whole frame, unless a
\* task is between the two writes of its frame, and the server's always does.
UpFramed(g) ==
  /\ Framed(UpStream(g))
  /\ alive[g] /\ conn = g => \A t \in Tasks : pc[t] = "write2" => Half(UpStream(g), out[t])
  /\ alive[g] /\ (conn # g \/ \A t \in Tasks : pc[t] # "write2") => Even(UpStream(g))
DownFramed(g) == Framed(DownStream(g)) /\ (alive[g] => Even(DownStream(g)))
FrameInv == \A g \in Conn : UpFramed(g) /\ DownFramed(g)

-----------------------------------------------------------------------------
(* Order *)

\* What was returned, what is on its way back, and what is on its way there.
Pipe(g) == Cat(Cat(got[g], Loads(DownStream(g))), Loads(UpStream(g)))
OrderAt(g) == Echoes(Pipe(g), written[g])
OrderInv == \A g \in Conn : OrderAt(g)

-----------------------------------------------------------------------------
(* What the steps do to the two streams of a connection *)

LEMMA StreamsTyped ==
  ASSUME StreamTypes, NEW g \in Conn
  PROVE  UpStream(g) \in Seq(ClientCell) /\ DownStream(g) \in Seq(ServerCell)
  BY DEF StreamTypes, UpStream, DownStream

\* A connection whose buffers stay as they are.
LEMMA StreamsStay ==
  ASSUME NEW g \in Conn,
         up'[g] = up[g], sbuf'[g] = sbuf[g], rbuf'[g] = rbuf[g], down'[g] = down[g],
         reply'[g] = reply[g], alive'[g] = alive[g]
  PROVE  UpStream(g)' = UpStream(g) /\ DownStream(g)' = DownStream(g)
  BY Zenon DEF UpStream, DownStream

\* send_frame.
LEMMA WriteStreams ==
  ASSUME TaskInv, SocketInv, NEW c \in ClientCell, conn \in Conn,
         up' = [up EXCEPT ![conn] = Append(@, c)],
         UNCHANGED <<conn, sbuf, rbuf, down, reply, alive>>
  PROVE  /\ UpStream(conn)' = Append(UpStream(conn), c)
         /\ DownStream(conn)' = DownStream(conn)
         /\ \A h \in Conn \ {conn} : UpStream(h)' = UpStream(h) /\ DownStream(h)' = DownStream(h)
<1>a. StreamTypes
  BY Zenon DEF SocketInv
<1>1. ASSUME NEW h \in Conn PROVE DownStream(h)' = DownStream(h)
  BY Zenon DEF DownStream
<1>2. sbuf[conn] \o Append(up[conn], c) = Append(sbuf[conn] \o up[conn], c)
  <2>1. PICK p \in Seq(ClientCell), q \in Seq(ClientCell) : p = sbuf[conn] /\ q = up[conn]
    BY <1>a, Zenon DEF StreamTypes
  <2>2. p \o Append(q, c) = Append(p \o q, c)
    BY AppendConcat
  <2> QED
    BY <2>1, <2>2, Zenon
<1>3. sbuf'[conn] \o up'[conn] = Append(sbuf[conn] \o up[conn], c)
  BY <1>a, <1>2, Zenon DEF StreamTypes
<1>4. ASSUME NEW h \in Conn \ {conn} PROVE up'[h] = up[h]
  BY <1>a, Zenon DEF StreamTypes
<1>5. ASSUME NEW h \in Conn \ {conn} PROVE UpStream(h)' = UpStream(h)
  BY <1>4, Zenon DEF UpStream
<1>6. UNCHANGED conn => UpStream(conn)' = Append(UpStream(conn), c)
  BY <1>3, Zenon DEF UpStream
<1> QED
  BY <1>1, <1>5, <1>6, Zenon

\* conn.Read.
LEMMA ServerReadStreams ==
  ASSUME TaskInv, SocketInv, NEW g \in Conn, NEW n \in Nat, ServerRead(g, n), NEW h \in Conn
  PROVE  UpStream(h)' = UpStream(h) /\ DownStream(h)' = DownStream(h)
<1>a. StreamTypes
  BY Zenon DEF SocketInv
<1>1. /\ n \in 0..Len(up[g])
      /\ sbuf' = [sbuf EXCEPT ![g] = @ \o SubSeq(up[g], 1, n)]
      /\ up' = [up EXCEPT ![g] = SubSeq(@, n + 1, Len(@))]
      /\ UNCHANGED <<rbuf, down, reply, alive>>
  BY <1>a DEF ServerRead, StreamTypes, client
<1>2. DownStream(h)' = DownStream(h)
  BY <1>1, Zenon DEF DownStream
<1>3. CASE h = g
  <2>1. UpStream(h)' = (sbuf[g] \o SubSeq(up[g], 1, n)) \o SubSeq(up[g], n + 1, Len(up[g]))
    BY <1>a, <1>1, <1>3, Zenon DEF UpStream, StreamTypes
  <2>2. PICK p \in Seq(ClientCell), q \in Seq(ClientCell) : p = sbuf[g] /\ q = up[g]
    BY <1>a, Zenon DEF StreamTypes
  <2>3. (p \o SubSeq(q, 1, n)) \o SubSeq(q, n + 1, Len(q)) = p \o q
    BY <1>1, <2>2, Shift, Zenon
  <2> QED
    BY <1>2, <1>3, <2>1, <2>2, <2>3, Zenon DEF UpStream
<1>4. CASE h # g
  <2>1. sbuf'[h] = sbuf[h] /\ up'[h] = up[h]
    BY <1>a, <1>1, <1>4, Zenon DEF StreamTypes
  <2> QED
    BY <1>2, <2>1, Zenon DEF UpStream
<1> QED
  BY <1>3, <1>4, Zenon

\* The server's write.
LEMMA ServerWriteStreams ==
  ASSUME TaskInv, SocketInv, NEW g \in Conn, ServerWrite(g), NEW h \in Conn
  PROVE  UpStream(h)' = UpStream(h) /\ DownStream(h)' = DownStream(h)
<1>a. StreamTypes
  BY Zenon DEF SocketInv
<1>1. UNCHANGED <<up, sbuf, rbuf, alive>> /\ reply[g] # <<>>
  BY Zenon DEF ServerWrite, client
<1>2. UpStream(h)' = UpStream(h)
  BY <1>1, Zenon DEF UpStream
<1>3. CASE /\ alive[g]
           /\ down' = [down EXCEPT ![g] = Append(@, Head(reply[g]))]
           /\ reply' = [reply EXCEPT ![g] = Tail(@)]
  <2>1. CASE h = g
    <3>1. PICK p \in Seq(ServerCell), q \in Seq(ServerCell), r \in Seq(ServerCell) :
            p = rbuf[g] /\ q = down[g] /\ r = reply[g]
      BY <1>a, Zenon DEF StreamTypes
    <3>2. DownStream(h)' = p \o Append(q, Head(r)) \o Tail(r) /\ DownStream(h) = p \o q \o r
      BY <1>a, <1>1, <1>3, <2>1, <3>1, Zenon DEF DownStream, StreamTypes
    <3>3. p \o q \in Seq(ServerCell) /\ Head(r) \in ServerCell /\ r # <<>>
      BY <1>1, <3>1
    <3>4. p \o Append(q, Head(r)) = Append(p \o q, Head(r))
      BY <3>3, AppendConcat
    <3>5. Append(p \o q, Head(r)) \o Tail(r) = (p \o q) \o r
      BY <3>3, HeadOver, Zenon
    <3> QED
      BY <1>2, <3>2, <3>4, <3>5, Zenon
  <2>2. CASE h # g
    <3>1. down'[h] = down[h] /\ reply'[h] = reply[h]
      BY <1>a, <1>3, <2>2, Zenon DEF StreamTypes
    <3> QED
      BY <1>1, <1>2, <3>1, Zenon DEF DownStream
  <2> QED
    BY <2>1, <2>2, Zenon
<1>4. CASE ~alive[g] /\ reply' = [reply EXCEPT ![g] = <<>>] /\ down' = down
  <2>1. CASE h = g
    BY <1>1, <1>2, <1>4, <2>1, Zenon DEF DownStream
  <2>2. CASE h # g
    <3>1. reply'[h] = reply[h]
      BY <1>a, <1>4, <2>2, Zenon DEF StreamTypes
    <3> QED
      BY <1>1, <1>2, <1>4, <3>1, Zenon DEF DownStream
  <2> QED
    BY <2>1, <2>2, Zenon
<1> QED
  BY <1>3, <1>4, Zenon DEF ServerWrite

\* HandleFrame takes the first frame; on an open connection its answer goes to
\* the end of the server's stream.
LEMMA HandleStreams ==
  ASSUME TaskInv, SocketInv, NEW g \in Conn, HandleFrame(g)
  PROVE  /\ Len(UpStream(g)) >= 2 /\ First(UpStream(g)) = First(sbuf[g])
         /\ UpStream(g)' = Drained(UpStream(g))
         /\ \/ DownStream(g)' = DownStream(g)
            \/ \E a \in Answers(First(UpStream(g))) :
                 /\ alive[g] /\ a \in ServerFrame
                 /\ DownStream(g)' = DownStream(g) \o Cells(a)
         /\ \A h \in Conn \ {g} : UpStream(h)' = UpStream(h) /\ DownStream(h)' = DownStream(h)
<1>a. StreamTypes
  BY Zenon DEF SocketInv
<1>1. /\ sbuf[g] \in Seq(ClientCell) /\ Len(sbuf[g]) >= 2
      /\ First(sbuf[g]) \in ClientFrame /\ reply[g] = <<>>
      /\ \/ reply' = reply
         \/ \E a \in Answers(First(sbuf[g])) : reply' = [reply EXCEPT ![g] = Cells(a)]
  BY <1>a, HandledProperties, Zenon
<1>2. sbuf' = [sbuf EXCEPT ![g] = Drained(@)] /\ UNCHANGED <<up, rbuf, down, alive>>
  BY Zenon DEF HandleFrame, client, net
<1>3. PICK p \in Seq(ClientCell), q \in Seq(ClientCell) : p = sbuf[g] /\ q = up[g]
  BY <1>a, Zenon DEF StreamTypes
<1>4. Len(p \o q) >= 2 /\ First(p \o q) = First(p)
  BY <1>1, <1>3, FirstOver, Zenon
<1>5. Len(UpStream(g)) >= 2 /\ First(UpStream(g)) = First(sbuf[g])
  BY <1>3, <1>4, Zenon DEF UpStream
<1>6. UpStream(g)' = Drained(UpStream(g))
  <2>1. Drained(p) \o q = Drained(p \o q)
    BY <1>1, <1>3, DrainConcat, Zenon
  <2> QED
    BY <1>a, <1>2, <1>3, <2>1, Zenon DEF UpStream, StreamTypes
<1>7. \/ DownStream(g)' = DownStream(g)
      \/ \E a \in Answers(First(UpStream(g))) :
           /\ alive[g] /\ a \in ServerFrame
           /\ DownStream(g)' = DownStream(g) \o Cells(a)
  <2>1. CASE reply' = reply \/ ~alive[g]
    BY <1>2, <2>1, Zenon DEF DownStream
  <2>2. ASSUME alive[g], NEW a \in Answers(First(sbuf[g])), reply' = [reply EXCEPT ![g] = Cells(a)]
        PROVE  /\ alive[g] /\ a \in ServerFrame
               /\ DownStream(g)' = DownStream(g) \o Cells(a)
    <3>1. a \in ServerFrame
      BY <1>1, AnswerTypes, Zenon
    <3>2. PICK r \in Seq(ServerCell), s \in Seq(ServerCell) : r = rbuf[g] /\ s = down[g]
      BY <1>a, Zenon DEF StreamTypes
    <3>3. DownStream(g)' = r \o s \o Cells(a)
      BY <1>a, <1>2, <2>2, <3>2, Zenon DEF DownStream, StreamTypes
    <3>4. DownStream(g) = r \o s \o <<>>
      BY <1>1, <2>2, <3>2, Zenon DEF DownStream
    <3>5. r \o s \o <<>> = r \o s
      BY Nothing
    <3> QED
      BY <2>2, <3>1, <3>3, <3>4, <3>5, Zenon
  <2> QED
    BY <1>1, <1>5, <2>1, <2>2, Zenon
<1>8. ASSUME NEW h \in Conn \ {g}
      PROVE  UpStream(h)' = UpStream(h) /\ DownStream(h)' = DownStream(h)
  <2>1. sbuf'[h] = sbuf[h] /\ reply'[h] = reply[h]
    BY <1>a, <1>1, <1>2, Zenon DEF StreamTypes
  <2> QED
    BY <1>2, <2>1, Zenon DEF UpStream, DownStream
<1> QED
  BY <1>5, <1>6, <1>7, <1>8, Zenon

\* recv and expect_handshake_ack take at most the first frame.
LEMMA ReadingStreams ==
  ASSUME TaskInv, SocketInv, NEW t \in Tasks, NEW n \in Nat, Reading(t, n)
  PROVE  /\ conn \in Conn /\ conn' = conn
         /\ \/ DownStream(conn)' = DownStream(conn) /\ got' = got
            \/ /\ Len(DownStream(conn)) >= 2
               /\ DownStream(conn)' = Drained(DownStream(conn))
               /\ \/ got' = got
                  \/ /\ First(DownStream(conn)).type = "DATA"
                     /\ got' = [got EXCEPT ![conn] = Append(@, First(DownStream(conn)).data)]
         /\ UpStream(conn)' = UpStream(conn)
         /\ \A h \in Conn \ {conn} : UpStream(h)' = UpStream(h) /\ DownStream(h)' = DownStream(h)
<1>a. StreamTypes
  BY Zenon DEF SocketInv
<1>1. conn \in Conn /\ n \in 0..Len(down[conn]) /\ Fed(n) \in Seq(ServerCell)
  BY <1>a, FedProperties, Zenon
<1>2. /\ UNCHANGED <<conn, alive, up, sbuf, reply>>
      /\ down' = [down EXCEPT ![conn] = SubSeq(@, n + 1, Len(@))]
  BY Zenon DEF Reading, Feed, sockets
<1>3. PICK b \in Seq(ServerCell), d \in Seq(ServerCell), r \in Seq(ServerCell) :
        b = rbuf[conn] /\ d = down[conn] /\ r = IF alive[conn] THEN reply[conn] ELSE <<>>
  <2>1. <<>> \in Seq(ServerCell) /\ reply[conn] \in Seq(ServerCell)
    BY <1>a, <1>1 DEF StreamTypes
  <2>2. (IF alive[conn] THEN reply[conn] ELSE <<>>) \in Seq(ServerCell)
    BY <2>1, Zenon
  <2> QED
    BY <1>a, <1>1, <2>2, Zenon DEF StreamTypes
<1>4. PICK f \in Seq(ServerCell), e \in Seq(ServerCell) :
        f = b \o SubSeq(d, 1, n) /\ e = SubSeq(d, n + 1, Len(d))
  <2>1. n \in 0..Len(d)
    BY <1>1, <1>3, Zenon
  <2>2. SubSeq(d, 1, n) \in Seq(ServerCell) /\ SubSeq(d, n + 1, Len(d)) \in Seq(ServerCell)
    BY <1>3, <2>1, CutAt, Zenon
  <2>3. PICK k \in Seq(ServerCell) : k = SubSeq(d, 1, n)
    BY <2>2, Zenon
  <2>4. b \o k \in Seq(ServerCell)
    BY <1>3, <2>3
  <2> QED
    BY <2>2, <2>3, <2>4, Zenon
<1>5. f \o e = b \o d /\ f = Fed(n)
  <2>1. (b \o SubSeq(d, 1, n)) \o SubSeq(d, n + 1, Len(d)) = b \o d
    BY <1>1, <1>3, Shift, Zenon
  <2> QED
    BY <1>3, <1>4, <2>1, Zenon DEF Fed
<1>6. DownStream(conn) = f \o e \o r
  BY <1>3, <1>5, Zenon DEF DownStream
<1>7. DownStream(conn)' = rbuf'[conn] \o e \o r
  BY <1>a, <1>1, <1>2, <1>3, <1>4, Zenon DEF DownStream, StreamTypes
<1>8. \/ DownStream(conn)' = DownStream(conn) /\ got' = got
      \/ /\ Len(DownStream(conn)) >= 2
         /\ DownStream(conn)' = Drained(DownStream(conn))
         /\ \/ got' = got
            \/ /\ First(DownStream(conn)).type = "DATA"
               /\ got' = [got EXCEPT ![conn] = Append(@, First(DownStream(conn)).data)]
  <2>1. CASE rbuf' = [rbuf EXCEPT ![conn] = Fed(n)] /\ got' = got
    <3>1. rbuf'[conn] = f
      BY <1>a, <1>1, <1>5, <2>1, Zenon DEF StreamTypes
    <3> QED
      BY <1>6, <1>7, <2>1, <3>1, Zenon
  <2>2. CASE /\ Complete(Fed(n)) /\ rbuf' = [rbuf EXCEPT ![conn] = Drained(Fed(n))]
             /\ \/ got' = got
                \/ /\ First(Fed(n)).type = "DATA"
                   /\ got' = [got EXCEPT ![conn] = Append(@, First(Fed(n)).data)]
    <3>1. Len(f) >= 2
      BY <1>5, <2>2, Zenon DEF Complete
    <3>a. e \in Seq(ServerCell) /\ f \in Seq(ServerCell) /\ r \in Seq(ServerCell)
      BY <1>3, <1>4, Zenon
    <3>2. /\ Len(f \o e \o r) >= 2 /\ First(f \o e \o r) = First(f)
          /\ Drained(f) \o e \o r = Drained(f \o e \o r)
      <4>1. Len(f \o e \o r) >= 2 /\ First(f \o e \o r) = First(f)
        BY <3>a, <3>1, FirstOfThree, Zenon
      <4>2. Drained(f) \o e \o r = Drained(f \o e \o r)
        <5>1. f \o e \in Seq(ServerCell) /\ Len(f \o e) >= 2
          BY <3>a, <3>1
        <5>2. PICK m \in Seq(ServerCell) : m = f \o e
          BY <5>1, Zenon
        <5>3. Drained(m) \o r = Drained(m \o r)
          BY <3>a, <5>1, <5>2, DrainConcat, Zenon
        <5>4. Drained(f) \o e = Drained(m)
          BY <3>a, <3>1, <5>2, DrainConcat, Zenon
        <5> QED
          BY <5>2, <5>3, <5>4, Zenon
      <4> QED
        BY <4>1, <4>2, Zenon
    <3>3. rbuf'[conn] = Drained(f)
      BY <1>a, <1>1, <1>5, <2>2, Zenon DEF StreamTypes
    <3> QED
      BY <1>5, <1>6, <1>7, <2>2, <3>2, <3>3, Zenon
  <2> QED
    BY <2>1, <2>2, Zenon DEF Reading
<1>10. ASSUME NEW h \in Conn \ {conn}
       PROVE  UpStream(h)' = UpStream(h) /\ DownStream(h)' = DownStream(h)
  <2>1. rbuf'[h] = rbuf[h] /\ down'[h] = down[h]
    BY <1>a, <1>2, Zenon DEF Reading, StreamTypes
  <2> QED
    BY <1>2, <2>1, Zenon DEF UpStream, DownStream
<1>11. UpStream(conn)' = UpStream(conn)
  BY <1>2, Zenon DEF UpStream
<1> QED
  BY <1>1, <1>2, <1>8, <1>10, <1>11, Zenon

\* Closing a connection loses the answer that is not written yet.
LEMMA CloseStreams ==
  ASSUME SocketInv, NEW g \in Conn, UNCHANGED <<rbuf, up, down, sbuf, reply>>, alive'[g] => alive[g]
  PROVE  /\ UpStream(g)' = UpStream(g)
         /\ \/ DownStream(g)' = DownStream(g)
            \/ ~alive'[g] /\ DownStream(g) = DownStream(g)' \o reply[g]
<1>1. UpStream(g)' = UpStream(g)
  BY Zenon DEF UpStream
<1>2. CASE alive'[g] \/ ~alive[g]
  BY <1>1, <1>2, Zenon DEF DownStream
<1>3. CASE ~alive'[g] /\ alive[g]
  <2>1. PICK p \in Seq(ServerCell), q \in Seq(ServerCell) : p = rbuf[g] /\ q = down[g]
    BY Zenon DEF SocketInv, StreamTypes
  <2>2. p \o q \o <<>> = p \o q
    BY <2>1
  <2>3. DownStream(g)' = p \o q \o <<>> /\ DownStream(g) = p \o q \o reply[g]
    BY <1>3, <2>1, Zenon DEF DownStream
  <2> QED
    BY <1>1, <1>3, <2>2, <2>3, Zenon
<1> QED
  BY <1>2, <1>3, Zenon

\* A connection starts with nothing on its way.
LEMMA DialStreams ==
  ASSUME TaskInv, SocketInv, NEW t \in Tasks, Dial(t), NEW g \in Conn
  PROVE  /\ UpStream(g)' = UpStream(g) /\ DownStream(g)' = DownStream(g)
         /\ alive'[g] => alive[g] \/ (UpStream(g) = <<>> /\ DownStream(g) = <<>> /\ conn # g)
<1>1. UNCHANGED <<conn, rbuf, up, down, sbuf, reply>>
  BY Zenon DEF Dial, client
<1>2. opened' = opened + 1 /\ alive' = [alive EXCEPT ![opened + 1] = TRUE]
  BY Zenon DEF Dial
<1>3. CASE g = opened + 1
  <2>1. g > opened /\ conn # g
    BY <1>3, Bounds DEF SocketInv, Unused, TaskInv, TaskTypes
  <2>2. rbuf[g] = <<>> /\ up[g] = <<>> /\ down[g] = <<>> /\ sbuf[g] = <<>> /\ reply[g] = <<>>
    BY <2>1, Zenon DEF SocketInv, Unused
  <2>3. <<>> \o <<>> = <<>> /\ <<>> \o <<>> \o <<>> = <<>>
    OBVIOUS
  <2>4. (IF alive[g] THEN reply[g] ELSE <<>>) = <<>> /\ (IF alive'[g] THEN reply'[g] ELSE <<>>) = <<>>
    BY <1>1, <2>2, Zenon
  <2>5. UpStream(g) = <<>> /\ DownStream(g) = <<>>
    BY <2>2, <2>3, <2>4, Zenon DEF UpStream, DownStream
  <2>6. UpStream(g)' = <<>> /\ DownStream(g)' = <<>>
    BY <1>1, <2>2, <2>3, <2>4, Zenon DEF UpStream, DownStream
  <2> QED
    BY <2>1, <2>5, <2>6, Zenon
<1>4. CASE g # opened + 1
  <2>1. alive'[g] = alive[g]
    BY <1>2, <1>4, Zenon DEF TaskInv, Flags
  <2> QED
    BY <1>1, <2>1, StreamsStay, Zenon
<1> QED
  BY <1>3, <1>4, Zenon

-----------------------------------------------------------------------------
(* Framing is kept *)

LEMMA FrameInvInit == Init => FrameInv
<1> SUFFICES ASSUME Init, NEW g \in Conn PROVE UpFramed(g) /\ DownFramed(g)
  BY Zenon DEF FrameInv
<1>1. /\ rbuf[g] = <<>> /\ up[g] = <<>> /\ down[g] = <<>> /\ sbuf[g] = <<>> /\ reply[g] = <<>>
      /\ ~alive[g]
  BY Zenon DEF Init
<1>2. UpStream(g) = <<>> /\ DownStream(g) = <<>>
  BY <1>1 DEF UpStream, DownStream
<1>3. Framed(<<>>)
  BY DEF Framed
<1> QED
  BY <1>1, <1>2, <1>3, Zenon DEF UpFramed, DownFramed

\* A connection on which nobody writes in this step.
LEMMA UpFramedStays ==
  ASSUME NEW g \in Conn, UpFramed(g), UpStream(g)' = UpStream(g), alive'[g] => alive[g],
         conn' = g => \A t \in Tasks : pc'[t] = "write2" =>
           conn = g /\ pc[t] = "write2" /\ out'[t] = out[t],
         alive'[g] /\ conn = g => \A t \in Tasks : pc[t] = "write2" => conn' = g /\ pc'[t] = "write2"
  PROVE  UpFramed(g)'
  BY Zenon DEF UpFramed

LEMMA DownFramedStays ==
  ASSUME NEW g \in Conn, DownFramed(g), DownStream(g)' = DownStream(g), alive'[g] => alive[g]
  PROVE  DownFramed(g)'
  BY Zenon DEF DownFramed

LEMMA FrameInvQuiet == ASSUME FrameInv, Quiet PROVE FrameInv'
<1> SUFFICES ASSUME NEW g \in Conn PROVE UpFramed(g)' /\ DownFramed(g)'
  BY Zenon DEF FrameInv
<1>1. UpFramed(g) /\ DownFramed(g)
  BY Zenon DEF FrameInv
<1>2. UNCHANGED <<conn, alive, rbuf, up, down, sbuf, reply>>
  BY Zenon DEF Quiet, sockets, streams
<1>3. UpStream(g)' = UpStream(g) /\ DownStream(g)' = DownStream(g)
  BY <1>2, StreamsStay, Zenon
<1>4. \A t \in Tasks : /\ pc'[t] = "write2" => pc[t] = "write2" /\ out'[t] = out[t]
                       /\ pc[t] = "write2" /\ alive[conn] => pc'[t] = "write2"
  BY Zenon DEF Quiet
<1>5. UpFramed(g)'
  <2>0. conn' = conn /\ alive' = alive
    BY <1>2, Zenon
  <2>1. alive'[g] => alive[g]
    BY <2>0, Zenon
  <2>2. conn' = g => \A t \in Tasks : pc'[t] = "write2" =>
          conn = g /\ pc[t] = "write2" /\ out'[t] = out[t]
    BY <1>4, <2>0, Zenon
  <2>3. alive'[g] /\ conn = g =>
          \A t \in Tasks : pc[t] = "write2" => conn' = g /\ pc'[t] = "write2"
    BY <1>4, <2>0, Zenon
  <2> QED
    BY <1>1, <1>3, <2>1, <2>2, <2>3, UpFramedStays, Zenon
<1> QED
  BY <1>1, <1>2, <1>3, <1>5, DownFramedStays, Zenon

LEMMA FrameInvDial ==
  ASSUME TaskInv, SocketInv, FrameInv, NEW t \in Tasks, Dial(t) PROVE FrameInv'
<1> SUFFICES ASSUME NEW g \in Conn PROVE UpFramed(g)' /\ DownFramed(g)'
  BY Zenon DEF FrameInv
<1>1. UpFramed(g) /\ DownFramed(g)
  BY Zenon DEF FrameInv
<1>2. /\ UpStream(g)' = UpStream(g) /\ DownStream(g)' = DownStream(g)
      /\ alive'[g] => alive[g] \/ (UpStream(g) = <<>> /\ DownStream(g) = <<>> /\ conn # g)
  BY DialStreams, Zenon
<1>3. UNCHANGED <<conn, out>> /\ pc' = [pc EXCEPT ![t] = "publish"] /\ pc[t] = "dial"
  BY Zenon DEF Dial, client, To
<1>4. \A u \in Tasks : pc'[u] = "write2" <=> pc[u] = "write2"
  BY <1>3, Zenon DEF TaskInv, TaskTypes
<1>5. CASE alive'[g] => alive[g]
  <2>1. UpFramed(g)'
    BY <1>1, <1>2, <1>3, <1>4, <1>5, UpFramedStays, Zenon
  <2> QED
    BY <1>1, <1>2, <1>5, <2>1, DownFramedStays, Zenon
<1>6. CASE UpStream(g) = <<>> /\ DownStream(g) = <<>> /\ conn # g
  <2>1. Framed(<<>>) /\ Even(<<>>)
    BY DEF Framed, Even
  <2> QED
    BY <1>2, <1>3, <1>6, <2>1, Zenon DEF UpFramed, DownFramed
<1> QED
  BY <1>2, <1>5, <1>6, Zenon

\* Publish, Drop and Lose close connections; the first two hold the lock.
LEMMA FrameInvClose ==
  ASSUME TaskInv, SocketInv, FrameInv, UNCHANGED <<rbuf, up, down, sbuf, reply, out>>,
         \A g \in Conn : alive'[g] => alive[g],
         conn' = conn \/ \A t \in Tasks : pc[t] # "write2",
         \A t \in Tasks : pc'[t] = "write2" <=> pc[t] = "write2"
  PROVE  FrameInv'
<1> SUFFICES ASSUME NEW g \in Conn PROVE UpFramed(g)' /\ DownFramed(g)'
  BY Zenon DEF FrameInv
<1>1. UpFramed(g) /\ DownFramed(g)
  BY Zenon DEF FrameInv
<1>2. /\ UpStream(g)' = UpStream(g)
      /\ \/ DownStream(g)' = DownStream(g)
         \/ ~alive'[g] /\ DownStream(g) = DownStream(g)' \o reply[g]
  BY CloseStreams, Zenon
<1>3. UpFramed(g)'
  BY <1>1, <1>2, UpFramedStays, Zenon
<1>4. CASE DownStream(g)' = DownStream(g)
  BY <1>1, <1>3, <1>4, DownFramedStays, Zenon
<1>5. CASE ~alive'[g] /\ DownStream(g) = DownStream(g)' \o reply[g]
  <2>1. DownStream(g)' = rbuf[g] \o down[g] \o <<>>
    BY <1>5, Zenon DEF DownStream
  <2>2. PICK p \in Seq(ServerCell), q \in Seq(ServerCell), r \in Seq(ServerCell) :
          p = rbuf[g] /\ q = down[g] /\ r = reply[g]
    BY Zenon DEF SocketInv, StreamTypes
  <2>3. p \o q \o <<>> \in Seq(ServerCell)
    BY <2>2
  <2>4. PICK s \in Seq(ServerCell) : s = DownStream(g)'
    BY <2>1, <2>2, <2>3, Zenon
  <2>5. Framed(s \o r)
    BY <1>1, <1>5, <2>2, <2>4, Zenon DEF DownFramed
  <2>6. Framed(s)
    BY <2>2, <2>4, <2>5, PrefixFramed, Zenon
  <2> QED
    BY <1>3, <1>5, <2>4, <2>6, Zenon DEF DownFramed
<1> QED
  BY <1>2, <1>4, <1>5, Zenon

\* A step of the streams in which the tasks go on as they were: at most the
\* streams of g change, and they stay framed.
LEMMA FrameInvMove ==
  ASSUME FrameInv, NEW g \in Conn, UNCHANGED <<conn, alive>>,
         \A t \in Tasks : (pc'[t] = "write2" <=> pc[t] = "write2") /\ out'[t] = out[t],
         \A h \in Conn \ {g} : UpStream(h)' = UpStream(h) /\ DownStream(h)' = DownStream(h),
         UpStream(g)' = UpStream(g) \/ UpFramed(g)',
         DownStream(g)' = DownStream(g) \/ DownFramed(g)'
  PROVE  FrameInv'
<1> SUFFICES ASSUME NEW h \in Conn PROVE UpFramed(h)' /\ DownFramed(h)'
  BY Zenon DEF FrameInv
<1>1. UpFramed(h) /\ DownFramed(h)
  BY Zenon DEF FrameInv
<1>2. UpStream(h)' = UpStream(h) => UpFramed(h)'
  BY <1>1, UpFramedStays, Zenon
<1>3. DownStream(h)' = DownStream(h) => DownFramed(h)'
  BY <1>1, DownFramedStays, Zenon
<1> QED
  BY <1>2, <1>3, Zenon

LEMMA FrameInvReading ==
  ASSUME TaskInv, SocketInv, FrameInv, NEW t \in Tasks, NEW n \in Nat, Reading(t, n)
  PROVE  FrameInv'
<1>1. /\ conn \in Conn
      /\ UpStream(conn)' = UpStream(conn)
      /\ \A h \in Conn \ {conn} : UpStream(h)' = UpStream(h) /\ DownStream(h)' = DownStream(h)
      /\ \/ DownStream(conn)' = DownStream(conn)
         \/ Len(DownStream(conn)) >= 2 /\ DownStream(conn)' = Drained(DownStream(conn))
  BY ReadingStreams, Zenon
<1>2. /\ UNCHANGED <<conn, alive>>
      /\ \A u \in Tasks : (pc'[u] = "write2" <=> pc[u] = "write2") /\ out'[u] = out[u]
  BY Zenon DEF Reading, sockets
<1>3. DownStream(conn)' = DownStream(conn) \/ DownFramed(conn)'
  <2> SUFFICES ASSUME Len(DownStream(conn)) >= 2, DownStream(conn)' = Drained(DownStream(conn))
               PROVE  DownFramed(conn)'
    BY <1>1, Zenon
  <2>1. PICK s \in Seq(ServerCell) : s = DownStream(conn)
    BY <1>1, StreamsTyped, Zenon DEF SocketInv
  <2>2. Framed(s) /\ Len(s) >= 2 /\ (alive[conn] => Even(s))
    BY <1>1, <2>1, Zenon DEF FrameInv, DownFramed
  <2>3. Framed(Drained(s)) /\ (Even(s) => Even(Drained(s)))
    BY <2>1, <2>2, DrainEven, Zenon
  <2> QED
    BY <1>2, <2>1, <2>2, <2>3, Zenon DEF DownFramed
<1> QED
  BY <1>1, <1>2, <1>3, FrameInvMove, Zenon

LEMMA FrameInvHandle ==
  ASSUME TaskInv, SocketInv, FrameInv, NEW g \in Conn, HandleFrame(g)
  PROVE  FrameInv'
<1>1. /\ Len(UpStream(g)) >= 2 /\ UpStream(g)' = Drained(UpStream(g))
      /\ \/ DownStream(g)' = DownStream(g)
         \/ \E a \in ServerFrame : alive[g] /\ DownStream(g)' = DownStream(g) \o Cells(a)
      /\ \A h \in Conn \ {g} : UpStream(h)' = UpStream(h) /\ DownStream(h)' = DownStream(h)
  BY HandleStreams, Zenon
<1>2. UNCHANGED <<conn, alive, pc, out>>
  BY Zenon DEF HandleFrame, client, task, net
<1>3. UpFramed(g)'
  <2>1. PICK s \in Seq(ClientCell) : s = UpStream(g)
    BY StreamsTyped, Zenon DEF SocketInv
  <2>2. Framed(s) /\ Len(s) >= 2
    BY <1>1, <2>1, Zenon DEF FrameInv, UpFramed
  <2>3. Framed(Drained(s)) /\ (Even(s) => Even(Drained(s))) /\ \A f : Half(s, f) => Half(Drained(s), f)
    BY <2>1, <2>2, DrainEven, Zenon
  <2>4. UpFramed(g)
    BY Zenon DEF FrameInv
  <2> QED
    BY <1>1, <1>2, <2>1, <2>3, <2>4, Zenon DEF UpFramed
<1>4. DownStream(g)' = DownStream(g) \/ DownFramed(g)'
  <2> SUFFICES ASSUME NEW a \in ServerFrame, alive[g], DownStream(g)' = DownStream(g) \o Cells(a)
               PROVE  DownFramed(g)'
    BY <1>1, Zenon
  <2>1. PICK s \in Seq(ServerCell) : s = DownStream(g)
    BY StreamsTyped, Zenon DEF SocketInv
  <2>2. Framed(s) /\ Even(s)
    BY <2>1, Zenon DEF FrameInv, DownFramed
  <2>3. Framed(s \o Cells(a)) /\ Even(s \o Cells(a))
    BY <2>1, <2>2, AnswerFramed, Zenon
  <2> QED
    BY <2>1, <2>3, Zenon DEF DownFramed
<1> QED
  BY <1>1, <1>2, <1>3, <1>4, FrameInvMove, Zenon

LEMMA FrameInvWrite ==
  ASSUME TaskInv, SocketInv, FrameInv, NEW t \in Tasks, Write1(t) \/ Write2(t)
  PROVE  FrameInv'
<1>a. StreamTypes /\ TaskTypes /\ Control
  BY Zenon DEF SocketInv, TaskInv
<1>1. /\ pc[t] \in {"write1", "write2"} /\ alive[conn]
      /\ UNCHANGED <<conn, sbuf, rbuf, down, reply, alive, out>>
  BY Zenon DEF Write1, Write2, client, server
<1>2. conn \in Conn /\ out[t] \in ClientFrame
  BY <1>a, <1>1, Names, Bounds DEF TaskTypes, Control, Critical, Writing, Conn
<1>b. PICK g \in Conn : g = conn
  BY <1>2, Zenon
<1>3. \A u \in Tasks \ {t} : pc[u] # "write2"
  BY <1>a, <1>1, Zenon DEF Control, Critical
<1>4. PICK s \in Seq(ClientCell) : s = UpStream(conn)
  BY <1>a, <1>2, StreamsTyped, Zenon
<1>5. UpFramed(conn) /\ Framed(s)
  BY <1>2, <1>4, Zenon DEF FrameInv, UpFramed
<1>6. ASSUME NEW c \in ClientCell, up' = [up EXCEPT ![conn] = Append(@, c)], UpFramed(g)'
      PROVE  FrameInv'
  <2> SUFFICES ASSUME NEW h \in Conn PROVE UpFramed(h)' /\ DownFramed(h)'
    BY Zenon DEF FrameInv
  <2>1. UpFramed(h) /\ DownFramed(h)
    BY Zenon DEF FrameInv
  <2>2. DownStream(h)' = DownStream(h) /\ (h # conn => UpStream(h)' = UpStream(h))
    BY <1>1, <1>2, <1>6, WriteStreams, Zenon
  <2>3. DownFramed(h)'
    BY <1>1, <2>1, <2>2, DownFramedStays, Zenon
  <2>4. h # conn => UpFramed(h)'
    BY <1>1, <2>1, <2>2, UpFramedStays, Zenon
  <2> QED
    BY <1>b, <1>6, <2>3, <2>4, Zenon
<1>7. CASE Write1(t)
  <2>1. PICK c \in ClientCell : c = <<out[t], 1>>
    BY <1>2, Zenon DEF ClientCell
  <2>2. pc[t] = "write1" /\ pc' = [pc EXCEPT ![t] = "write2"]
    BY <1>7, Zenon DEF Write1, To
  <2>3. up' = [up EXCEPT ![conn] = Append(@, c)]
    BY <1>7, <2>1, Zenon DEF Write1, Cells
  <2>4. Even(s)
    BY <1>1, <1>3, <1>4, <1>5, <2>2, Zenon DEF UpFramed
  <2>5. Framed(Append(s, c)) /\ Half(Append(s, c), out[t])
    BY <1>2, <1>4, <1>5, <2>1, <2>4, WriteFirst, Zenon
  <2>6. UpStream(g)' = Append(s, c)
    BY <1>b, <1>1, <1>2, <1>4, <2>3, WriteStreams, Zenon
  <2>7. pc'[t] = "write2" /\ \A u \in Tasks \ {t} : pc'[u] # "write2"
    BY <1>a, <1>3, <2>2, Zenon DEF TaskTypes
  <2>8. UpFramed(g)'
    BY <1>b, <1>1, <2>5, <2>6, <2>7, Zenon DEF UpFramed
  <2> QED
    BY <1>6, <2>3, <2>8, Zenon
<1>8. CASE Write2(t)
  <2>1. PICK c \in ClientCell : c = <<out[t], 2>>
    BY <1>2, Zenon DEF ClientCell
  <2>2. pc[t] = "write2" /\ pc' = [pc EXCEPT ![t] = Sent(t)]
    BY <1>8, Zenon DEF Write2, To
  <2>3. up' = [up EXCEPT ![conn] = Append(@, c)]
    BY <1>8, <2>1, Zenon DEF Write2, Cells
  <2>4. Half(s, out[t])
    BY <1>1, <1>4, <1>5, <2>2, Zenon DEF UpFramed
  <2>5. Framed(Append(s, c)) /\ Even(Append(s, c))
    BY <1>2, <1>4, <1>5, <2>1, <2>4, WriteSecond, Zenon
  <2>6. UpStream(g)' = Append(s, c)
    BY <1>b, <1>1, <1>2, <1>4, <2>3, WriteStreams, Zenon
  <2>7. \A u \in Tasks : pc'[u] # "write2"
    <3>1. out[t].type \in {"HELLO", "DATA", "PING", "CLOSE"}
      BY <1>2, Zenon DEF ClientFrame
    <3>2. Sent(t) # "write2"
      BY <1>2, <3>1, SentTo, Zenon
    <3> QED
      BY <1>a, <1>3, <2>2, <3>2, Zenon DEF TaskTypes
  <2>8. UpFramed(g)'
    BY <1>b, <1>1, <2>5, <2>6, <2>7, Zenon DEF UpFramed
  <2> QED
    BY <1>6, <2>3, <2>8, Zenon
<1> QED
  BY <1>7, <1>8, Zenon

LEMMA FrameInvNext == ASSUME TaskInv, SocketInv, FrameInv, [Next]_vars PROVE FrameInv'
<1>a. TaskTypes /\ Flags /\ Control
  BY Zenon DEF TaskInv
<1>1. ASSUME NEW t \in Tasks, Publish(t) \/ Drop(t) PROVE FrameInv'
  <2>1. /\ UNCHANGED <<rbuf, up, down, sbuf, reply, out>>
        /\ lock = free /\ pc[t] \in {"publish", "drop"}
        /\ alive' = [h \in Conn |-> alive[h] /\ h # conn]
        /\ \E l \in {"reset", "idle"} : pc' = [pc EXCEPT ![t] = l]
    BY <1>1, Zenon DEF Publish, Drop, Install, To, server
  <2>2. \A u \in Tasks : (pc'[u] = "write2" <=> pc[u] = "write2") /\ pc[u] # "write2"
    BY <1>a, <2>1, Names, Zenon DEF TaskTypes, Control, Critical
  <2>3. \A g \in Conn : alive'[g] => alive[g]
    BY <2>1, Zenon
  <2> QED
    BY <2>1, <2>2, <2>3, FrameInvClose, Zenon
<1>2. ASSUME NEW g \in Conn, Lose(g) PROVE FrameInv'
  <2>1. UNCHANGED <<conn, pc, rbuf, up, down, sbuf, reply, out>> /\ alive' = [alive EXCEPT ![g] = FALSE]
    BY <1>2, Zenon DEF Lose, client, task, server
  <2>2. \A h \in Conn : alive'[h] => alive[h]
    BY <1>a, <2>1, Zenon DEF Flags
  <2> QED
    BY <2>1, <2>2, FrameInvClose, Zenon
<1>3. ASSUME NEW g \in Conn, NEW n \in Nat, ServerRead(g, n) \/ ServerWrite(g) PROVE FrameInv'
  <2>1. UNCHANGED <<conn, pc, out, alive>>
    BY <1>3, Zenon DEF ServerRead, ServerWrite, client, task
  <2>2. \A h \in Conn : UpStream(h)' = UpStream(h) /\ DownStream(h)' = DownStream(h)
    BY <1>3, ServerReadStreams, ServerWriteStreams, Zenon
  <2> QED
    BY <2>1, <2>2, FrameInvMove, Zenon
<1>4. 0 \in Nat
  BY Zenon
<1> QED
  BY <1>1, <1>2, <1>3, <1>4, NextSteps, FrameInvQuiet, FrameInvDial, FrameInvReading, FrameInvHandle,
     FrameInvWrite, Zenon

\* The bytes of two frames never mix and both FrameReaders stay at a frame
\* boundary, for any number of tasks that send, receive, time out, reconnect
\* and close at the same time.
THEOREM Streams == Spec => []StreamsFramed
<1>1. FrameInv => StreamsFramed
  BY Zenon DEF FrameInv, UpFramed, DownFramed, UpStream, DownStream, StreamsFramed
<1> QED
  BY <1>1, FrameInvInit, FrameInvNext, TaskInvariant, SocketInvariant, PTL DEF Spec

LEMMA OrderInvInit == Init => OrderInv
<1> SUFFICES ASSUME Init, NEW g \in Conn PROVE OrderAt(g)
  BY Zenon DEF OrderInv
<1>1. /\ rbuf[g] = <<>> /\ up[g] = <<>> /\ down[g] = <<>> /\ sbuf[g] = <<>> /\ got[g] = <<>>
      /\ ~alive[g]
  BY Zenon DEF Init
<1>2. UpStream(g) = <<>> /\ DownStream(g) = <<>>
  BY <1>1 DEF UpStream, DownStream
<1>3. Loads(<<>>) = <<>>
  BY DEF Loads
<1>4. Cat(Cat(<<>>, <<>>), <<>>) = <<>>
  BY DEF Cat
<1>5. Pipe(g) = <<>>
  BY <1>1, <1>2, <1>3, <1>4, Zenon DEF Pipe
<1>6. Echoes(<<>>, written[g])
  BY DEF Echoes
<1> QED
  BY <1>5, <1>6, Zenon DEF OrderAt

LEMMA OrderStays ==
  ASSUME NEW g \in Conn, OrderAt(g), UpStream(g)' = UpStream(g), DownStream(g)' = DownStream(g),
         got'[g] = got[g], written'[g] = written[g]
  PROVE  OrderAt(g)'
  BY Zenon DEF OrderAt, Pipe

\* The parts of a pipe.
LEMMA PipeTyped ==
  ASSUME SocketInv, NEW g \in Conn
  PROVE  /\ got[g] \in Seq(Nat) /\ written[g] \in Seq(Nat)
         /\ Loads(DownStream(g)) \in Seq(Nat) /\ Loads(UpStream(g)) \in Seq(Nat)
<1>1. StreamTypes
  BY Zenon DEF SocketInv
<1>2. UpStream(g) \in Seq(ClientCell) /\ DownStream(g) \in Seq(ServerCell)
  BY <1>1, StreamsTyped, Zenon
<1> QED
  BY <1>1, <1>2, LoadsTyped, Zenon DEF StreamTypes

LEMMA OrderClose ==
  ASSUME SocketInv, OrderInv, UNCHANGED <<rbuf, up, down, sbuf, reply, got, written>>,
         \A g \in Conn : alive'[g] => alive[g]
  PROVE  OrderInv'
<1> SUFFICES ASSUME NEW g \in Conn PROVE OrderAt(g)'
  BY Zenon DEF OrderInv
<1>1. OrderAt(g)
  BY Zenon DEF OrderInv
<1>2. /\ UpStream(g)' = UpStream(g)
      /\ \/ DownStream(g)' = DownStream(g)
         \/ ~alive'[g] /\ DownStream(g) = DownStream(g)' \o reply[g]
  BY CloseStreams, Zenon
<1>3. got'[g] = got[g] /\ written'[g] = written[g]
  BY Zenon
<1>4. CASE DownStream(g)' = DownStream(g)
  BY <1>1, <1>2, <1>3, <1>4, OrderStays, Zenon
<1>5. CASE ~alive'[g] /\ DownStream(g) = DownStream(g)' \o reply[g]
  <2>1. DownStream(g)' = rbuf[g] \o down[g] \o <<>>
    BY <1>5, Zenon DEF DownStream
  <2>2. PICK b \in Seq(ServerCell), c \in Seq(ServerCell), r \in Seq(ServerCell) :
          b = rbuf[g] /\ c = down[g] /\ r = reply[g]
    BY Zenon DEF SocketInv, StreamTypes
  <2>3. b \o c \o <<>> \in Seq(ServerCell)
    BY <2>2
  <2>4. PICK s \in Seq(ServerCell) : s = DownStream(g)'
    BY <2>1, <2>2, <2>3, Zenon
  <2>5. Loads(s \o r) = Loads(s) \o Loads(r)
    BY <2>2, <2>4, LoadsConcat, Zenon
  <2>6. PICK G \in Seq(Nat), u \in Seq(Nat), w \in Seq(Nat), d \in Seq(Nat), e \in Seq(Nat) :
          G = got[g] /\ u = Loads(UpStream(g)) /\ w = written[g] /\ d = Loads(s) /\ e = Loads(r)
    BY <2>2, <2>4, PipeTyped, LoadsTyped, Zenon
  <2>7. Echoes(Cat(Cat(G, Cat(d, e)), u), w)
    BY <1>1, <1>5, <2>2, <2>4, <2>5, <2>6, Zenon DEF OrderAt, Pipe, Cat
  <2>8. Echoes(Cat(Cat(G, d), u), w)
    BY <2>6, <2>7, LoseBackEnd, Zenon
  <2> QED
    BY <1>2, <1>3, <2>4, <2>6, <2>8, Zenon DEF OrderAt, Pipe
<1> QED
  BY <1>2, <1>4, <1>5, Zenon

LEMMA OrderReading ==
  ASSUME TaskInv, SocketInv, FrameInv, OrderInv, NEW t \in Tasks, NEW n \in Nat, Reading(t, n)
  PROVE  OrderInv'
<1>1. PICK c \in Conn :
      /\ c = conn /\ UpStream(c)' = UpStream(c)
      /\ \A h \in Conn \ {c} : UpStream(h)' = UpStream(h) /\ DownStream(h)' = DownStream(h)
      /\ \/ DownStream(c)' = DownStream(c) /\ got' = got
         \/ /\ Len(DownStream(c)) >= 2
            /\ DownStream(c)' = Drained(DownStream(c))
            /\ \/ got' = got
               \/ /\ First(DownStream(c)).type = "DATA"
                  /\ got' = [got EXCEPT ![c] = Append(@, First(DownStream(c)).data)]
  <2>1. conn \in Conn /\ conn' = conn
    BY ReadingStreams, Zenon
  <2>2. PICK c \in Conn : c = conn
    BY <2>1, Zenon
  <2>3. /\ UpStream(c)' = UpStream(c)
        /\ \A h \in Conn \ {c} : UpStream(h)' = UpStream(h) /\ DownStream(h)' = DownStream(h)
        /\ \/ DownStream(c)' = DownStream(c) /\ got' = got
           \/ /\ Len(DownStream(c)) >= 2
              /\ DownStream(c)' = Drained(DownStream(c))
              /\ \/ got' = got
                 \/ /\ First(DownStream(c)).type = "DATA"
                    /\ got' = [got EXCEPT ![c] = Append(@, First(DownStream(c)).data)]
    BY <2>1, <2>2, ReadingStreams, Zenon
  <2> QED
    BY <2>2, <2>3, Zenon
<1>2. written' = written
  BY Zenon DEF Reading
<1>a. got \in [Conn -> Seq(Nat)]
  BY Zenon DEF SocketInv, StreamTypes
<1>3. ASSUME NEW h \in Conn \ {c} PROVE OrderAt(h)'
  <2>1. got'[h] = got[h]
    BY <1>1, <1>a, Zenon
  <2>2. OrderAt(h)
    BY Zenon DEF OrderInv
  <2> QED
    BY <1>1, <1>2, <2>1, <2>2, OrderStays, Zenon
<1>b. OrderAt(c)
  BY Zenon DEF OrderInv
<1>4. CASE DownStream(c)' = DownStream(c) /\ got' = got
  BY <1>1, <1>2, <1>3, <1>4, <1>b, OrderStays, Zenon DEF OrderInv
<1>5. CASE /\ Len(DownStream(c)) >= 2
           /\ DownStream(c)' = Drained(DownStream(c))
           /\ \/ got' = got
              \/ /\ First(DownStream(c)).type = "DATA"
                 /\ got' = [got EXCEPT ![c] = Append(@, First(DownStream(c)).data)]
  <2>1. PICK s \in Seq(ServerCell) : s = DownStream(c) /\ Framed(s) /\ Len(s) >= 2
    BY <1>5, StreamsTyped, Zenon DEF SocketInv, FrameInv, DownFramed
  <2>2. PICK e \in Nat : e = Payload(First(s)) /\ Loads(s) = Cat(Pair(e), Loads(Drained(s)))
    BY <2>1, LoadsFirst, Zenon
  <2>a. Drained(s) \in Seq(ServerCell)
    BY <2>1, DrainedProperties, Zenon
  <2>3. PICK G \in Seq(Nat), u \in Seq(Nat), w \in Seq(Nat), d \in Seq(Nat) :
          G = got[c] /\ u = Loads(UpStream(c)) /\ w = written[c] /\ d = Loads(Drained(s))
    BY <2>a, PipeTyped, LoadsTyped, Zenon
  <2>4. Echoes(Cat(Cat(G, Cat(Pair(e), d)), u), w)
    BY <1>b, <2>1, <2>2, <2>3, Zenon DEF OrderAt, Pipe
  <2>5. CASE got' = got
    <3>1. Pair(e) \in Seq(Nat)
      BY <2>2, CatPair, Zenon
    <3>2. Echoes(Cat(Cat(G, d), u), w)
      BY <2>3, <2>4, <3>1, LoseBack, Zenon
    <3>3. OrderAt(c)'
      BY <1>1, <1>2, <1>5, <2>1, <2>3, <2>5, <3>2, Zenon DEF OrderAt, Pipe
    <3> QED
      BY <1>3, <3>3, Zenon DEF OrderInv
  <2>6. CASE /\ First(s).type = "DATA"
             /\ got' = [got EXCEPT ![c] = Append(@, First(s).data)]
    <3>1. got'[c] = Append(G, e)
      BY <1>a, <2>2, <2>3, <2>6, Zenon DEF Payload
    <3>2. Echoes(Cat(Cat(Append(G, e), d), u), w)
      BY <2>2, <2>3, <2>4, TakeFirst, Zenon
    <3>3. OrderAt(c)'
      BY <1>1, <1>2, <1>5, <2>1, <2>3, <3>1, <3>2, Zenon DEF OrderAt, Pipe
    <3> QED
      BY <1>3, <3>3, Zenon DEF OrderInv
  <2> QED
    BY <1>5, <2>1, <2>5, <2>6, Zenon
<1> QED
  BY <1>1, <1>4, <1>5, Zenon

\* A handled frame is lost, or turns around with its payload or without.
LEMMA OrderHandle ==
  ASSUME TaskInv, SocketInv, FrameInv, OrderInv, NEW c \in Conn, HandleFrame(c)
  PROVE  OrderInv'
<1>1. /\ Len(UpStream(c)) >= 2 /\ UpStream(c)' = Drained(UpStream(c))
      /\ First(UpStream(c)) = First(sbuf[c])
      /\ \/ DownStream(c)' = DownStream(c)
         \/ \E a \in Answers(First(UpStream(c))) :
              a \in ServerFrame /\ DownStream(c)' = DownStream(c) \o Cells(a)
      /\ \A h \in Conn \ {c} : UpStream(h)' = UpStream(h) /\ DownStream(h)' = DownStream(h)
  BY HandleStreams, Zenon
<1>2. got' = got /\ written' = written
  BY Zenon DEF HandleFrame, history
<1>3. ASSUME NEW h \in Conn \ {c} PROVE OrderAt(h)'
  BY <1>1, <1>2, OrderStays, Zenon DEF OrderInv
<1>b. OrderAt(c)
  BY Zenon DEF OrderInv
<1>4. PICK s \in Seq(ClientCell) : s = UpStream(c) /\ Framed(s) /\ Len(s) >= 2
  BY <1>1, StreamsTyped, Zenon DEF SocketInv, FrameInv, UpFramed
<1>5. PICK e \in Nat : e = Payload(First(s)) /\ Loads(s) = Cat(Pair(e), Loads(Drained(s)))
  BY <1>4, LoadsFirst, Zenon
<1>a. Drained(s) \in Seq(ClientCell) /\ First(s) \in ClientFrame
  <2>1. s[1] \in ClientCell
    BY <1>4
  <2>2. First(s) \in ClientFrame
    BY <2>1, Zenon DEF ClientCell, First
  <2> QED
    BY <1>4, <2>2, DrainedProperties, Zenon
<1>6. PICK G \in Seq(Nat), u \in Seq(Nat), w \in Seq(Nat), d \in Seq(Nat) :
        G = got[c] /\ d = Loads(DownStream(c)) /\ w = written[c] /\ u = Loads(Drained(s))
  BY <1>a, PipeTyped, LoadsTyped, Zenon
<1>7. Echoes(Cat(Cat(G, d), Cat(Pair(e), u)), w)
  BY <1>b, <1>4, <1>5, <1>6, Zenon DEF OrderAt, Pipe
<1>8. CASE DownStream(c)' = DownStream(c)
  <2>1. Pair(e) \in Seq(Nat)
    BY <1>5, CatPair, Zenon
  <2>2. PICK p \in Seq(Nat) : p = Cat(G, d)
    BY <1>6, CatType, Zenon
  <2>3. Echoes(Cat(p, u), w)
    BY <1>6, <1>7, <2>1, <2>2, LoseThere, Zenon
  <2>4. OrderAt(c)'
    BY <1>1, <1>2, <1>4, <1>6, <1>8, <2>2, <2>3, Zenon DEF OrderAt, Pipe
  <2> QED
    BY <1>3, <2>4, Zenon DEF OrderInv
<1>9. ASSUME NEW a \in Answers(First(s)), a \in ServerFrame,
             DownStream(c)' = DownStream(c) \o Cells(a)
      PROVE  OrderInv'
  <2>1. PICK b \in Seq(ServerCell), k \in Seq(ServerCell) : b = DownStream(c) /\ k = Cells(a)
    BY <1>9, LoadsCells, StreamsTyped, Zenon DEF SocketInv
  <2>2. Loads(b \o k) = Loads(b) \o Loads(k)
    BY <2>1, LoadsConcat, Zenon
  <2>3. a.type = "DATA" => First(s).type = "DATA" /\ a.data \in {First(s).data, 0}
    BY <1>a, <1>9, AnswerTypes, Zenon
  <2>4. PICK z \in {e, 0} : z = Payload(a)
    BY <1>5, <2>3, Zenon DEF Payload
  <2>5. Loads(k) = Pair(z)
    BY <1>9, <2>1, <2>4, LoadsCells, Zenon
  <2>6. Echoes(Cat(Cat(G, Cat(d, Pair(z))), u), w)
    BY <1>5, <1>6, <1>7, <2>4, TurnAround, Zenon
  <2>7. Loads(DownStream(c)') = Cat(d, Pair(z))
    BY <1>6, <1>9, <2>1, <2>2, <2>5, Zenon DEF Cat
  <2>8. OrderAt(c)'
    BY <1>1, <1>2, <1>4, <1>6, <2>6, <2>7, Zenon DEF OrderAt, Pipe
  <2> QED
    BY <1>3, <2>8, Zenon DEF OrderInv
<1> QED
  BY <1>1, <1>4, <1>8, <1>9, Zenon

\* A written half of a frame.
LEMMA OrderWrite ==
  ASSUME TaskInv, SocketInv, OrderInv, NEW t \in Tasks, Write1(t) \/ Write2(t)
  PROVE  OrderInv'
<1>a. StreamTypes /\ TaskTypes /\ Control
  BY Zenon DEF SocketInv, TaskInv
<1>1. /\ pc[t] \in {"write1", "write2"}
      /\ UNCHANGED <<conn, sbuf, rbuf, down, reply, alive, got>>
  BY Zenon DEF Write1, Write2, client, server, history
<1>2. conn \in Conn /\ out[t] \in ClientFrame
  BY <1>a, <1>1, Names, Bounds DEF TaskTypes, Control, Critical, Writing, Conn
<1>b. PICK c \in Conn : c = conn
  BY <1>2, Zenon
<1>c. PICK x \in ClientCell, y \in ClientCell : x = <<out[t], 1>> /\ y = <<out[t], 2>>
  <2>1. <<out[t], 1>> \in ClientCell /\ <<out[t], 2>> \in ClientCell
    BY <1>2, Zenon DEF ClientCell
  <2> QED
    BY <2>1, Zenon
<1>d. Load(x) = 0 /\ Load(y) = Payload(out[t])
  BY <1>c DEF Load, Payload
<1>e. written \in [Conn -> Seq(Nat)]
  BY <1>a, Zenon DEF StreamTypes
<1>3. OrderAt(c)
  BY Zenon DEF OrderInv
<1>4. PICK G \in Seq(Nat), u \in Seq(Nat), w \in Seq(Nat), d \in Seq(Nat) :
        G = got[c] /\ d = Loads(DownStream(c)) /\ w = written[c] /\ u = Loads(UpStream(c))
  BY PipeTyped, Zenon
<1>5. PICK p \in Seq(Nat) : p = Cat(G, d)
  BY <1>4, CatType, Zenon
<1>6. Echoes(Cat(p, u), w)
  BY <1>3, <1>4, <1>5, Zenon DEF OrderAt, Pipe
<1>7. PICK s \in Seq(ClientCell) : s = UpStream(c)
  BY <1>a, StreamsTyped, Zenon
<1>8. ASSUME NEW k \in ClientCell, up' = [up EXCEPT ![conn] = Append(@, k)],
             \A h \in Conn \ {c} : written'[h] = written[h],
             Echoes(Cat(p, Append(u, Load(k))), written'[c])
      PROVE  OrderInv'
  <2>1. /\ UpStream(c)' = Append(s, k) /\ DownStream(c)' = DownStream(c)
        /\ \A h \in Conn \ {c} : UpStream(h)' = UpStream(h) /\ DownStream(h)' = DownStream(h)
    BY <1>b, <1>1, <1>2, <1>7, <1>8, WriteStreams, Zenon
  <2>2. Loads(UpStream(c)') = Append(u, Load(k))
    BY <1>4, <1>7, <1>8, <2>1, LoadsAppend, Zenon
  <2>3. OrderAt(c)'
    BY <1>1, <1>4, <1>5, <1>8, <2>1, <2>2, Zenon DEF OrderAt, Pipe
  <2>4. ASSUME NEW h \in Conn \ {c} PROVE OrderAt(h)'
    BY <1>1, <1>8, <2>1, OrderStays, Zenon DEF OrderInv
  <2> QED
    BY <2>3, <2>4, Zenon DEF OrderInv
<1>9. Echoes(Cat(p, Append(u, 0)), w) /\ \A q \in Nat : Echoes(Cat(p, Append(u, q)), Append(w, q))
  BY <1>4, <1>5, <1>6, WriteThere, Zenon
<1>10. CASE Write1(t)
  <2>1. up' = [up EXCEPT ![conn] = Append(@, x)] /\ written' = written
    BY <1>c, <1>10, Zenon DEF Write1, Cells, history
  <2> QED
    BY <1>4, <1>8, <1>9, <1>c, <1>d, <2>1, Zenon
<1>11. CASE Write2(t)
  <2>1. up' = [up EXCEPT ![conn] = Append(@, y)]
    BY <1>c, <1>11, Zenon DEF Write2, Cells
  <2>2. CASE out[t].type = "DATA"
    <3>1. written' = [written EXCEPT ![c] = Append(@, out[t].data)]
      BY <1>b, <1>11, <2>2, Zenon DEF Write2
    <3>2. Load(y) = out[t].data /\ out[t].data \in Nat
      BY <1>2, <1>d, <2>2, Zenon DEF Payload, ClientFrame
    <3>3. written'[c] = Append(w, Load(y)) /\ \A h \in Conn \ {c} : written'[h] = written[h]
      BY <1>e, <1>4, <3>1, <3>2, Zenon
    <3> QED
      BY <1>8, <1>9, <1>c, <2>1, <3>2, <3>3, Zenon
  <2>3. CASE out[t].type # "DATA"
    <3>1. written' = written
      BY <1>11, <2>3, Zenon DEF Write2
    <3>2. Load(y) = 0
      BY <1>d, <2>3, Zenon DEF Payload
    <3> QED
      BY <1>4, <1>8, <1>9, <1>c, <2>1, <3>1, <3>2, Zenon
  <2> QED
    BY <2>2, <2>3, Zenon
<1> QED
  BY <1>10, <1>11, Zenon

LEMMA OrderInvNext == ASSUME TaskInv, SocketInv, FrameInv, OrderInv, [Next]_vars PROVE OrderInv'
<1>a. Flags
  BY Zenon DEF TaskInv
<1>0. ASSUME UNCHANGED <<got, written>>,
             \A g \in Conn : UpStream(g)' = UpStream(g) /\ DownStream(g)' = DownStream(g)
      PROVE  OrderInv'
  BY <1>0, OrderStays, Zenon DEF OrderInv
<1>1. ASSUME NEW t \in Tasks, Publish(t) \/ Drop(t) PROVE OrderInv'
  <2>1. /\ UNCHANGED <<rbuf, up, down, sbuf, reply, got, written>>
        /\ alive' = [h \in Conn |-> alive[h] /\ h # conn]
    BY <1>1, Zenon DEF Publish, Drop, Install, server, history
  <2>2. \A g \in Conn : alive'[g] => alive[g]
    BY <2>1, Zenon
  <2> QED
    BY <2>1, <2>2, OrderClose, Zenon
<1>2. ASSUME NEW g \in Conn, Lose(g) PROVE OrderInv'
  <2>1. /\ UNCHANGED <<rbuf, up, down, sbuf, reply, got, written>>
        /\ alive' = [alive EXCEPT ![g] = FALSE]
    BY <1>2, Zenon DEF Lose, client, task, server, history
  <2>2. \A h \in Conn : alive'[h] => alive[h]
    BY <1>a, <2>1, Zenon DEF Flags
  <2> QED
    BY <2>1, <2>2, OrderClose, Zenon
<1>3. ASSUME NEW g \in Conn, NEW n \in Nat, ServerRead(g, n) \/ ServerWrite(g) PROVE OrderInv'
  <2>1. UNCHANGED <<got, written>>
    BY <1>3, Zenon DEF ServerRead, ServerWrite, history
  <2>2. \A h \in Conn : UpStream(h)' = UpStream(h) /\ DownStream(h)' = DownStream(h)
    BY <1>3, ServerReadStreams, ServerWriteStreams, Zenon
  <2> QED
    BY <1>0, <2>1, <2>2, Zenon
<1>4. ASSUME Quiet PROVE OrderInv'
  <2>1. UNCHANGED <<alive, rbuf, up, down, sbuf, reply, got, written>>
    BY <1>4, Zenon DEF Quiet, sockets, streams
  <2> QED
    BY <1>0, <2>1, StreamsStay, Zenon
<1>5. ASSUME NEW t \in Tasks, Dial(t) PROVE OrderInv'
  <2>1. UNCHANGED <<got, written>>
    BY <1>5, Zenon DEF Dial, history
  <2> QED
    BY <1>0, <1>5, <2>1, DialStreams, Zenon
<1>6. 0 \in Nat
  BY Zenon
<1> QED
  BY <1>1, <1>2, <1>3, <1>4, <1>5, <1>6, NextSteps, OrderReading, OrderHandle, OrderWrite, Zenon

\* What receive() returns on a connection was written to it, in the order it
\* was written and each payload at most once, however many tasks send and
\* receive, time out, retry and reconnect at the same time.
THEOREM EchoesInOrder == Spec => []EchoInOrder
<1>1. SocketInv /\ PayloadInv /\ OrderInv => EchoInOrder
  <2> SUFFICES ASSUME SocketInv, PayloadInv, OrderInv PROVE EchoInOrder
    BY Zenon
  <2>1. ASSUME NEW g \in Conn PROVE Echoes(got[g], written[g])
    <3>1. PICK G \in Seq(Nat), u \in Seq(Nat), w \in Seq(Nat), d \in Seq(Nat) :
            G = got[g] /\ d = Loads(DownStream(g)) /\ w = written[g] /\ u = Loads(UpStream(g))
      BY PipeTyped, Zenon
    <3>2. Echoes(Cat(Cat(G, d), u), w)
      BY <3>1, Zenon DEF OrderInv, OrderAt, Pipe
    <3>3. PICK z \in Seq(Nat) : z = <<>>
      BY Nothing, Zenon
    <3>4. PICK p \in Seq(Nat) : p = Cat(G, d)
      BY <3>1, CatType, Zenon
    <3>5. Cat(p, Cat(u, z)) = Cat(p, u)
      BY <3>1, <3>3, <3>4 DEF Cat
    <3>6. Echoes(Cat(p, z), w)
      BY <3>1, <3>2, <3>3, <3>4, <3>5, LoseThere, Zenon
    <3>7. Cat(G, Cat(d, z)) = Cat(p, z) /\ Cat(G, z) = G
      BY <3>1, <3>3, <3>4 DEF Cat
    <3>8. Echoes(Cat(G, z), w)
      BY <3>1, <3>3, <3>6, <3>7, LoseThere, Zenon
    <3> QED
      BY <3>1, <3>7, <3>8, Zenon
  <2> QED
    BY <2>1, Zenon DEF EchoInOrder, PayloadInv
<1> QED
  BY <1>1, OrderInvInit, OrderInvNext, FrameInvInit, FrameInvNext, TaskInvariant, SocketInvariant,
     PayloadInvariant, PTL DEF Spec

=============================================================================
