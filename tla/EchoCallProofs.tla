--------------------------- MODULE EchoCallProofs ----------------------------
(***************************************************************************)
(* EchoLink: the payloads the calls send and the handshake, on top of the  *)
(* invariants of EchoLinkProofs.                                           *)
(***************************************************************************)
EXTENDS EchoLinkProofs

-----------------------------------------------------------------------------
(* Payloads *)

\* A send that has not returned.
Pending(t) == op[t] \in Sends /\ pc[t] # "idle"

Numbered == \A g \in Conn : \A i \in 1..Len(written[g]) : written[g][i] \in 1..payloads

\* What a task is about to write is the payload of its call.
Sending ==
  /\ \A t \in Tasks : pc[t] = "alloc" => op[t] \in Sends
  /\ \A t \in Tasks : pc[t] \in Writing /\ out[t].type = "DATA" =>
       op[t] \in Sends /\ out[t].data = arg[t]

\* It was not written yet, and no other task has it.
Fresh == \A t \in Tasks : Pending(t) =>
  /\ arg[t] \in 1..payloads
  /\ \A g \in Conn : \A i \in 1..Len(written[g]) : written[g][i] # arg[t]
  /\ \A u \in Tasks \ {t} : Pending(u) => arg[u] # arg[t]

PayloadInv == WrittenOnce /\ Numbered /\ Sending /\ Fresh

\* A step inside a method, of a task that has not returned.
LEMMA PayloadInside ==
  ASSUME TaskInv, PayloadInv, NEW t \in Tasks, pc[t] # "idle",
         UNCHANGED <<payloads, written, op, arg>>,
         NEW l, pc' = pc \/ pc' = [pc EXCEPT ![t] = l],
         l = "alloc" => op[t] \in Sends,
         \A u \in Tasks \ {t} : out'[u] = out[u],
         l \in Writing => \/ out'[t].type # "DATA"
                          \/ op[t] \in Sends /\ out'[t].data = arg[t],
         pc' = pc => out' = out
  PROVE  PayloadInv'
<1>a. pc \in [Tasks -> Labels]
  BY Zenon DEF TaskInv, TaskTypes
<1>1. \A u \in Tasks : Pending(u)' => Pending(u)
  BY <1>a, Zenon DEF Pending
<1>2. \A u \in Tasks : pc'[u] = "alloc" => op'[u] \in Sends
  BY <1>a, Zenon DEF PayloadInv, Sending
<1>3. ASSUME NEW u \in Tasks, pc'[u] \in Writing, out'[u].type = "DATA"
      PROVE  op'[u] \in Sends /\ out'[u].data = arg'[u]
  <2>1. CASE pc' = pc \/ u # t
    <3>1. pc[u] \in Writing /\ out'[u] = out[u]
      BY <1>a, <1>3, <2>1, Zenon
    <3> QED
      BY <1>3, <3>1, Zenon DEF PayloadInv, Sending
  <2>2. CASE pc' = [pc EXCEPT ![t] = l] /\ u = t
    <3>1. l \in Writing
      BY <1>a, <1>3, <2>2, Zenon
    <3> QED
      BY <1>3, <2>2, <3>1, Zenon
  <2> QED
    BY <2>1, <2>2, Zenon
<1>4. WrittenOnce' /\ Numbered'
  <2>1. WrittenOnce /\ Numbered
    BY Zenon DEF PayloadInv
  <2> QED
    BY <2>1 DEF WrittenOnce, Numbered
<1>5. Fresh'
  <2>1. Fresh
    BY Zenon DEF PayloadInv
  <2>2. ASSUME NEW u \in Tasks, Pending(u)'
        PROVE  /\ arg'[u] \in 1..payloads'
               /\ \A g \in Conn : \A i \in 1..Len(written'[g]) : written'[g][i] # arg'[u]
               /\ \A v \in Tasks \ {u} : Pending(v)' => arg'[v] # arg'[u]
    BY <1>1, <2>1, <2>2, Zenon DEF Fresh
  <2> QED
    BY <2>2, Zenon DEF Fresh
<1> QED
  BY <1>2, <1>3, <1>4, <1>5, Zenon DEF PayloadInv, Sending

LEMMA PayloadCall == ASSUME TaskInv, SocketInv, PayloadInv, NEW t \in Tasks, Call(t) PROVE PayloadInv'
<1>a. TaskTypes /\ Work
  BY Zenon DEF TaskInv
<1>b. PICK m \in Methods \cup {"beat"} :
        /\ op' = [op EXCEPT ![t] = m]
        /\ pc' = [pc EXCEPT ![t] = Entry(m)]
        /\ payloads' = IF m \in Sends THEN payloads + 1 ELSE payloads
        /\ arg' = [arg EXCEPT ![t] = IF m \in Sends THEN payloads + 1 ELSE 0]
  <2>1. Head(todo[t]) \in Methods \cup {"beat"}
    BY <1>a, Names DEF Call, Work
  <2> QED
    BY <2>1, Zenon DEF Call, To
<1>c. /\ pc[t] = "idle" /\ written' = written
      /\ out' = [out EXCEPT ![t] = Frame("PING", 0, "none")]
  BY Zenon DEF Call
<1>f. WrittenOnce /\ Numbered /\ Sending /\ Fresh
  BY Zenon DEF PayloadInv
<1>1. Entry(m) = "alloc" => m \in Sends
  BY EntryOf, Zenon DEF Methods, Sends
<1>2. out'[t].type = "PING" /\ \A u \in Tasks \ {t} : out'[u] = out[u]
  BY <1>a, <1>c, Zenon DEF Work, Frame
<1>3. /\ \A u \in Tasks \ {t} : pc'[u] = pc[u] /\ op'[u] = op[u] /\ arg'[u] = arg[u]
      /\ op'[t] = m /\ pc'[t] = Entry(m)
      /\ arg'[t] = IF m \in Sends THEN payloads + 1 ELSE 0
      /\ \A u \in Tasks : arg[u] \in Nat
  BY <1>a, <1>b, Zenon DEF TaskTypes
<1>4. \A u \in Tasks \ {t} : Pending(u)' <=> Pending(u)
  BY <1>3, Zenon DEF Pending
<1>5. Pending(t)' => m \in Sends
  BY <1>3, Zenon DEF Pending
<1>6. payloads \in Nat /\ payloads' \in Nat /\ payloads <= payloads'
      /\ (m \in Sends => payloads' = payloads + 1)
  BY <1>a, <1>b DEF TaskTypes
<1>7. \A g \in Conn : \A i \in 1..Len(written[g]) :
        written[g][i] \in 1..payloads /\ written[g][i] \in 1..payloads' /\ written[g][i] # payloads + 1
  BY <1>6 DEF PayloadInv, Numbered
<1>8. ASSUME NEW u \in Tasks, Pending(u)'
      PROVE  /\ arg'[u] \in 1..payloads'
             /\ \A g \in Conn : \A i \in 1..Len(written[g]) : written[g][i] # arg'[u]
             /\ \A v \in Tasks \ {u} : Pending(v)' => arg'[v] # arg'[u]
  <2>1. \A v \in Tasks \ {t} : Pending(v) => arg[v] \in 1..payloads
    BY Zenon DEF PayloadInv, Fresh
  <2>2. CASE u = t
    <3>1. m \in Sends /\ arg'[u] = payloads + 1 /\ payloads' = payloads + 1
      BY <1>3, <1>5, <1>6, <1>8, <2>2, Zenon
    <3>2. \A v \in Tasks \ {u} : Pending(v)' => arg'[v] \in 1..payloads
      BY <1>3, <1>4, <2>1, <2>2, Zenon
    <3>3. payloads + 1 \in 1..payloads + 1 /\ payloads + 1 \notin 1..payloads
      BY <1>6
    <3> QED
      BY <1>7, <3>1, <3>2, <3>3, Zenon
  <2>3. CASE u # t
    <3>1. Pending(u) /\ arg'[u] = arg[u]
      BY <1>3, <1>4, <1>8, <2>3, Zenon
    <3>2. arg[u] \in 1..payloads /\ arg[u] \in 1..payloads' /\ arg[u] # payloads + 1
      BY <1>6, <2>1, <2>3, <3>1
    <3>3. \A v \in Tasks \ {u} : Pending(v)' => arg'[v] # arg'[u]
      <4> SUFFICES ASSUME NEW v \in Tasks \ {u}, Pending(v)' PROVE arg'[v] # arg[u]
        BY <3>1, Zenon
      <4>1. CASE v = t
        BY <1>3, <1>5, <3>2, <4>1, Zenon
      <4>2. CASE v # t
        BY <1>3, <1>4, <3>1, <4>2, <1>f, Zenon DEF Fresh
      <4> QED
        BY <4>1, <4>2, Zenon
    <3> QED
      BY <1>f, <3>1, <3>2, <3>3, Zenon DEF Fresh
  <2> QED
    BY <2>2, <2>3, Zenon
<1>9. \A u \in Tasks : pc'[u] = "alloc" => op'[u] \in Sends
  BY <1>1, <1>3, <1>f, Zenon DEF Sending
<1>10. ASSUME NEW u \in Tasks, pc'[u] \in Writing, out'[u].type = "DATA"
       PROVE  op'[u] \in Sends /\ out'[u].data = arg'[u]
  <2>1. u # t
    BY <1>2, <1>10, Zenon
  <2> QED
    BY <1>2, <1>3, <1>f, <1>10, <2>1, Zenon DEF Sending
<1>11. WrittenOnce' /\ Numbered'
  BY <1>c, <1>7, <1>f DEF WrittenOnce, Numbered
<1>12. Fresh'
  BY <1>c, <1>8, Zenon DEF Fresh
<1> QED
  BY <1>9, <1>10, <1>11, <1>12, Zenon DEF PayloadInv, Sending

LEMMA PayloadWrite2 ==
  ASSUME TaskInv, SocketInv, PayloadInv, NEW t \in Tasks, Write2(t), out[t].type = "DATA"
  PROVE  PayloadInv'
<1>a. TaskTypes /\ Work /\ Control /\ StreamTypes
  BY Zenon DEF TaskInv, SocketInv
<1>f. WrittenOnce /\ Numbered /\ Sending /\ Fresh
  BY Zenon DEF PayloadInv
<1>1. /\ pc[t] = "write2" /\ pc' = [pc EXCEPT ![t] = Sent(t)]
      /\ UNCHANGED <<payloads, op, arg, out>>
      /\ written' = [written EXCEPT ![conn] = Append(@, out[t].data)]
  BY Zenon DEF Write2, To
<1>2. conn \in Conn /\ out[t] \in ClientFrame
  BY <1>a, <1>1, Names, Bounds DEF TaskTypes, Control, Critical, Writing, Conn
<1>3. /\ op[t] \in Sends /\ out[t].data = arg[t] /\ Pending(t)
  BY <1>f, <1>1, Zenon DEF Sending, Writing, Pending
<1>4. pc' = [pc EXCEPT ![t] = "idle"]
  BY <1>1, <1>2, SentTo, Zenon
<1>5. /\ pc'[t] = "idle" /\ \A u \in Tasks \ {t} : pc'[u] = pc[u]
      /\ ~Pending(t)' /\ \A u \in Tasks : Pending(u)' => Pending(u) /\ u # t
  BY <1>a, <1>1, <1>4, Zenon DEF TaskTypes, Pending
<1>6. /\ arg[t] \in 1..payloads
      /\ \A g \in Conn : \A i \in 1..Len(written[g]) : written[g][i] # arg[t]
  BY <1>f, <1>3, Zenon DEF Fresh
<1>7. PICK d \in Nat : d = arg[t]
  BY <1>a, Zenon DEF TaskTypes
<1>8. ASSUME NEW g \in Conn, NEW i \in 1..Len(written'[g])
      PROVE  \/ i \in 1..Len(written[g]) /\ written'[g][i] = written[g][i]
             \/ g = conn /\ i = Len(written[g]) + 1 /\ written'[g][i] = d
  <2>1. CASE g = conn
    <3>1. written'[g] = Append(written[g], d)
      BY <1>a, <1>1, <1>3, <1>7, <2>1, Zenon DEF StreamTypes
    <3>2. PICK w \in Seq(Nat) : w = written[g]
      BY <1>a, Zenon DEF StreamTypes
    <3>3. i \in 1..Len(Append(w, d))
      BY <1>8, <3>1, <3>2, Zenon
    <3>4. \/ i \in 1..Len(w) /\ Append(w, d)[i] = w[i]
          \/ i = Len(w) + 1 /\ Append(w, d)[i] = d
      BY <1>7, <3>2, <3>3
    <3> QED
      BY <2>1, <3>1, <3>2, <3>4, Zenon
  <2>2. CASE g # conn
    <3>1. written'[g] = written[g]
      BY <1>a, <1>1, <2>2, Zenon DEF StreamTypes
    <3> QED
      BY <1>8, <3>1, Zenon
  <2> QED
    BY <2>1, <2>2, Zenon
<1>9. WrittenOnce'
  <2> SUFFICES ASSUME NEW g \in Conn, NEW h \in Conn,
                      NEW i \in 1..Len(written'[g]), NEW j \in 1..Len(written'[h]),
                      written'[g][i] = written'[h][j]
               PROVE  g = h /\ i = j
    BY Zenon DEF WrittenOnce
  <2>1. \/ i \in 1..Len(written[g]) /\ written'[g][i] = written[g][i] /\ written[g][i] # d
        \/ g = conn /\ i = Len(written[g]) + 1 /\ written'[g][i] = d
    BY <1>6, <1>7, <1>8, Zenon
  <2>2. \/ j \in 1..Len(written[h]) /\ written'[h][j] = written[h][j] /\ written[h][j] # d
        \/ h = conn /\ j = Len(written[h]) + 1 /\ written'[h][j] = d
    BY <1>6, <1>7, <1>8, Zenon
  <2>3. CASE i \in 1..Len(written[g]) /\ j \in 1..Len(written[h]) /\ written[g][i] = written[h][j]
    BY <1>f, <2>3 DEF WrittenOnce
  <2> QED
    BY <2>1, <2>2, <2>3, Zenon
<1>10. Numbered'
  <2> SUFFICES ASSUME NEW g \in Conn, NEW i \in 1..Len(written'[g])
               PROVE  written'[g][i] \in 1..payloads
    BY <1>1, Zenon DEF Numbered
  <2> QED
    BY <1>f, <1>6, <1>7, <1>8, Zenon DEF Numbered
<1>11. Sending'
  BY <1>f, <1>1, <1>5, Zenon DEF Sending, Writing
<1>12. Fresh'
  <2>1. ASSUME NEW u \in Tasks, Pending(u)'
        PROVE  /\ arg'[u] \in 1..payloads'
               /\ \A g \in Conn : \A i \in 1..Len(written'[g]) : written'[g][i] # arg'[u]
               /\ \A v \in Tasks \ {u} : Pending(v)' => arg'[v] # arg'[u]
    <3>1. Pending(u) /\ u # t
      BY <1>5, <2>1, Zenon
    <3>2. arg[u] # arg[t] /\ \A g \in Conn : \A i \in 1..Len(written[g]) : written[g][i] # arg[u]
      BY <1>f, <1>3, <3>1, Zenon DEF Fresh
    <3>3. \A g \in Conn : \A i \in 1..Len(written'[g]) : written'[g][i] # arg[u]
      BY <1>7, <1>8, <3>2, Zenon
    <3>4. arg[u] \in 1..payloads /\ \A v \in Tasks \ {u} : Pending(v)' => arg[v] # arg[u]
      BY <1>f, <1>5, <3>1, Zenon DEF Fresh
    <3> QED
      BY <1>1, <3>3, <3>4, Zenon
  <2> QED
    BY <2>1, Zenon DEF Fresh
<1> QED
  BY <1>9, <1>10, <1>11, <1>12, Zenon DEF PayloadInv

LEMMA PayloadClient ==
  ASSUME TaskInv, SocketInv, PayloadInv, NEW t \in Tasks, ClientStep(t) PROVE PayloadInv'
<1>a. TaskTypes /\ Work /\ Control
  BY Zenon DEF TaskInv
<1>f. Sending
  BY Zenon DEF PayloadInv
<1>b. /\ ConnectFailed(t) \in {"idle", "retry"} /\ SendFailed(t) \in {"idle", "strategy"}
      /\ \A e : Received(t, e) \in {"idle", "recv"}
  BY Zenon DEF ConnectFailed, SendFailed, Received
<1>c. pc[t] \in Writing => /\ NotSent(t) \in {"idle", "retry", "strategy", "drop"}
                           /\ Sent(t) \in {"ack", "idle", "recv", "drop"}
  <2> SUFFICES ASSUME pc[t] \in Writing
               PROVE  /\ NotSent(t) \in {"idle", "retry", "strategy", "drop"}
                      /\ Sent(t) \in {"ack", "idle", "recv", "drop"}
    BY Zenon
  <2>1. out[t] \in ClientFrame
    BY <1>a, Zenon DEF Control
  <2>2. out[t].type \in {"HELLO", "DATA", "PING", "CLOSE"}
    BY <2>1, Zenon DEF ClientFrame
  <2> QED
    BY <1>b, <2>1, <2>2, NotSentTo, SentTo, Zenon
<1>d. Writing = {"frame", "write1", "write2"}
  BY Zenon DEF Writing
\* Steps to a place where nothing is sent.
<1>1. ASSUME UNCHANGED <<payloads, written, op, arg>>, pc[t] # "idle", out' = out,
             NEW l, l \notin Writing \cup {"alloc"}, pc' = pc \/ pc' = [pc EXCEPT ![t] = l]
      PROVE  PayloadInv'
  BY <1>1, PayloadInside, Zenon
<1>2. CASE Dial(t) \/ DialFails(t) \/ Publish(t) \/ Drop(t) \/ TakeStrategy(t) \/ Retry(t)
  <2>1. UNCHANGED <<payloads, written, op, arg, out>> /\ pc[t] # "idle"
    BY <1>2, Zenon DEF Dial, DialFails, Publish, Drop, TakeStrategy, Retry, history
  <2>2. PICK l \in {"publish", "idle", "retry", "reset", "dial"} : pc' = [pc EXCEPT ![t] = l]
    BY <1>b, <1>2, Zenon DEF Dial, DialFails, Publish, Drop, TakeStrategy, Retry, To
  <2> QED
    BY <1>1, <1>d, <2>1, <2>2, Zenon
<1>3. CASE AwaitAck(t) \/ Recv(t) \/ ReadFails(t) \/ TimeOut(t)
  <2>1. UNCHANGED <<payloads, written, op, arg, out>> /\ pc[t] # "idle"
    BY <1>3, Zenon DEF AwaitAck, Recv, ReadFails, TimeOut, history
  <2>2. PICK l \in {"idle", "retry", "ackRead", "read", "recv"} : pc' = [pc EXCEPT ![t] = l]
    BY <1>b, <1>3, Zenon DEF AwaitAck, Recv, ReadFails, TimeOut, To
  <2> QED
    BY <1>1, <1>d, <2>1, <2>2, Zenon
<1>4. CASE \E n \in 1..WireCap : AckRead(t, n) \/ Read(t, n) \/ TimeOutInRecv(t, n)
  <2>1. UNCHANGED <<payloads, written, op, arg, out>> /\ pc[t] # "idle"
    BY <1>4, Zenon DEF AckRead, Read, TimeOutInRecv, history
  <2>2. PICK l \in {"idle", "retry", "beat", "recv"} : pc' = pc \/ pc' = [pc EXCEPT ![t] = l]
    BY <1>b, <1>4, Zenon DEF AckRead, Read, TimeOutInRecv, To
  <2> QED
    BY <1>1, <1>d, <2>1, <2>2, Zenon
<1>5. CASE Reset(t) \/ Stop(t)
  <2>1. UNCHANGED <<payloads, written, op, arg>> /\ pc[t] # "idle"
    BY <1>5, Zenon DEF Reset, Stop, history
  <2>a. PICK l : l = "frame" /\ pc' = [pc EXCEPT ![t] = l]
    BY <1>5, Zenon DEF Reset, Stop, To
  <2>2. PICK m \in {"HELLO", "CLOSE"} : out' = [out EXCEPT ![t] = Frame(m, 0, "none")]
    BY <1>5, Zenon DEF Reset, Stop
  <2>3. out'[t].type # "DATA" /\ \A u \in Tasks \ {t} : out'[u] = out[u]
    BY <1>a, <2>2, Zenon DEF Work, Frame
  <2>4. pc' # pc
    BY <1>5, <2>a, <1>a, Zenon DEF Reset, Stop, TaskTypes
  <2> QED
    <3>1. /\ l = "alloc" => op[t] \in Sends
          /\ l \in Writing => out'[t].type # "DATA" \/ (op[t] \in Sends /\ out'[t].data = arg[t])
          /\ pc' = pc => out' = out
      BY <2>a, <2>3, <2>4, Zenon
    <3>2. pc' = pc \/ pc' = [pc EXCEPT ![t] = l]
      BY <2>a, Zenon
    <3> QED
      BY <2>1, <2>3, <3>1, <3>2, PayloadInside, Zenon
<1>6. CASE StartHeartbeat(t)
  <2>1. UNCHANGED <<payloads, written, op, arg, out>> /\ pc[t] # "idle"
    BY <1>6, Zenon DEF StartHeartbeat, history
  <2>2. PICK l \in {"alloc", "idle"} : (l = "alloc" => op[t] = "retrySend") /\ pc' = [pc EXCEPT ![t] = l]
    BY <1>6, Zenon DEF StartHeartbeat, To
  <2>3. l \notin Writing /\ (l = "alloc" => op[t] \in Sends)
    BY <2>2, Zenon DEF Writing, Sends
  <2> QED
    BY <2>1, <2>2, <2>3, PayloadInside, Zenon
<1>7. CASE AllocStream(t)
  <2>1. UNCHANGED <<payloads, written, op, arg>> /\ pc[t] = "alloc" /\ pc[t] # "idle"
    BY <1>7, Zenon DEF AllocStream, history
  <2>2. op[t] \in Sends
    BY <1>f, <2>1, Zenon DEF Sending
  <2>3. CASE pc' = [pc EXCEPT ![t] = SendFailed(t)] /\ out' = out
    BY <1>1, <1>b, <1>d, <2>1, <2>3, Zenon
  <2>4. CASE pc' = [pc EXCEPT ![t] = "frame"] /\ out' = [out EXCEPT ![t] = Frame("DATA", arg[t], Key(op[t]))]
    <3>1. out'[t].data = arg[t] /\ \A u \in Tasks \ {t} : out'[u] = out[u]
      BY <1>a, <2>4, Zenon DEF Work, Frame
    <3>2. pc' # pc
      BY <1>a, <2>1, <2>4, Zenon DEF TaskTypes
    <3> QED
      BY <2>1, <2>2, <2>4, <3>1, <3>2, PayloadInside, Zenon
  <2> QED
    BY <1>7, <2>3, <2>4, Zenon DEF AllocStream, To
<1>8. CASE SendFrame(t) \/ Write1(t) \/ WriteFails(t) \/ (Write2(t) /\ out[t].type # "DATA")
  <2>1. UNCHANGED <<payloads, written, op, arg, out>> /\ pc[t] \in Writing
    BY <1>d, <1>8, Zenon DEF SendFrame, Write1, Write2, WriteFails, history
  <2>2. PICK l \in {"idle", "retry", "strategy", "drop", "ack", "recv", "write1", "write2"} :
          pc' = [pc EXCEPT ![t] = l]
    BY <1>c, <1>8, <2>1, Zenon DEF SendFrame, Write1, Write2, WriteFails, To
  <2>3. out[t].type # "DATA" \/ (op[t] \in Sends /\ out[t].data = arg[t])
    BY <1>f, <2>1, Zenon DEF Sending
  <2>4. pc[t] # "idle" /\ l # "alloc"
    BY <1>d, <2>1, <2>2, Zenon
  <2> QED
    BY <2>1, <2>2, <2>3, <2>4, PayloadInside, Zenon
<1> QED
  BY <1>2, <1>3, <1>4, <1>5, <1>6, <1>7, <1>8, PayloadCall, PayloadWrite2, Zenon DEF ClientStep

LEMMA PayloadInvInit == Init => PayloadInv
<1> SUFFICES ASSUME Init PROVE PayloadInv
  BY Zenon
<1>1. (\A g \in Conn : written[g] = <<>>) /\ \A t \in Tasks : pc[t] = "idle"
  BY Zenon DEF Init
<1>2. WrittenOnce /\ Numbered
  BY <1>1 DEF WrittenOnce, Numbered
<1>3. Sending /\ Fresh
  BY <1>1, Zenon DEF Sending, Fresh, Pending, Writing
<1> QED
  BY <1>2, <1>3, Zenon DEF PayloadInv

\* No payload is written twice, though send_with_retry tries again after a
\* failure and any number of tasks send at the same time.
THEOREM PayloadInvariant == Spec => []PayloadInv
<1>1. TaskInv /\ SocketInv /\ PayloadInv /\ [Next]_vars => PayloadInv'
  <2> SUFFICES ASSUME TaskInv, SocketInv, PayloadInv, [Next]_vars PROVE PayloadInv'
    BY Zenon
  <2>1. CASE UNCHANGED <<task, payloads, written>>
    <3>1. UNCHANGED <<op, arg, pc, out, payloads, written>>
      BY <2>1, Zenon DEF task
    <3>2. WrittenOnce' /\ Numbered'
      BY <3>1 DEF PayloadInv, WrittenOnce, Numbered
    <3>3. Sending' /\ Fresh'
      BY <3>1, Zenon DEF PayloadInv, Sending, Fresh, Pending
    <3> QED
      BY <3>2, <3>3, Zenon DEF PayloadInv
  <2>2. ASSUME NEW g \in Conn, ServerStep(g) \/ ServerStops(g) \/ Lose(g) \/ Refill(g)
        PROVE  UNCHANGED <<task, payloads, written>>
    BY <2>2, Zenon DEF ServerStep, ServerRead, HandleFrame, ServerWrite, ServerStops, Lose, Refill, history
  <2>3. CASE UNCHANGED vars
    BY <2>1, <2>3, Zenon DEF vars, history
  <2> QED
    BY <2>1, <2>2, <2>3, PayloadClient, Zenon DEF Next
<1> QED
  BY <1>1, PayloadInvInit, TaskInvariant, SocketInvariant, PTL DEF Spec

-----------------------------------------------------------------------------
(* The handshake *)

HelloInv == hello \in [Conn -> BOOLEAN] /\ HelloPending

\* Tasks have their own control state.
LEMMA OthersStay ==
  ASSUME TaskInv, NEW u \in Tasks, ClientStep(u), NEW t \in Tasks \ {u}
  PROVE  pc'[t] = pc[t] /\ out'[t] = out[t] /\ mine'[t] = mine[t]
<1>a. pc \in [Tasks -> Labels] /\ mine \in [Tasks -> 0..MaxConns] /\ DOMAIN out = Tasks
  BY Zenon DEF TaskInv, TaskTypes, Work
<1>1. CASE Call(u) \/ Dial(u) \/ DialFails(u) \/ Publish(u) \/ Reset(u) \/ StartHeartbeat(u)
  BY <1>a, <1>1, Zenon DEF Call, Dial, DialFails, Publish, Reset, StartHeartbeat, To
<1>2. CASE AllocStream(u) \/ SendFrame(u) \/ Write1(u) \/ Write2(u) \/ WriteFails(u)
  BY <1>a, <1>2, Zenon DEF AllocStream, SendFrame, Write1, Write2, WriteFails, To
<1>3. CASE AwaitAck(u) \/ Recv(u) \/ ReadFails(u) \/ TimeOut(u)
  BY <1>a, <1>3, Zenon DEF AwaitAck, Recv, ReadFails, TimeOut, To
<1>4. CASE \E n \in 1..WireCap : AckRead(u, n) \/ Read(u, n) \/ TimeOutInRecv(u, n)
  BY <1>a, <1>4, Zenon DEF AckRead, Read, TimeOutInRecv, To
<1>5. CASE Stop(u) \/ Drop(u) \/ TakeStrategy(u) \/ Retry(u)
  BY <1>a, <1>5, Zenon DEF Stop, Drop, TakeStrategy, Retry, To
<1> QED
  BY <1>1, <1>2, <1>3, <1>4, <1>5, Zenon DEF ClientStep

\* A step in which task u, if it was to write the HELLO of a connection that
\* stays open, still is or has.
LEMMA HelloKeep ==
  ASSUME HelloInv, NEW u \in Tasks,
         \A t \in Tasks \ {u} : pc'[t] = pc[t] /\ out'[t] = out[t] /\ mine'[t] = mine[t],
         hello' \in [Conn -> BOOLEAN], \A g \in Conn : hello[g] => hello'[g],
         \A g \in Conn : alive'[g] => alive[g],
         \A g \in Conn : alive'[g] /\ conn = g => conn' = g,
         \A g \in Conn : alive'[g] /\ ~hello'[g] /\ Greeting(u, g) => Greeting(u, g)'
  PROVE  HelloInv'
<1> SUFFICES ASSUME NEW g \in Conn, alive'[g], ~hello'[g]
             PROVE  \E t \in Apps : Greeting(t, g)'
  BY Zenon DEF HelloInv, HelloPending
<1>1. PICK t \in Apps : Greeting(t, g)
  BY Zenon DEF HelloInv, HelloPending
<1>2. CASE t = u
  BY <1>1, <1>2, Zenon
<1>3. CASE t # u
  <2>1. pc'[t] = pc[t] /\ out'[t] = out[t] /\ mine'[t] = mine[t]
    BY <1>3, Names, Zenon
  <2>2. Greeting(t, g)'
    BY <1>1, <2>1, Zenon DEF Greeting
  <2> QED
    BY <2>2, Zenon
<1> QED
  BY <1>2, <1>3, Zenon

\* A new connection: the task that made it will greet it.
LEMMA HelloDial ==
  ASSUME TaskInv, HelloInv, NEW u \in Tasks, Dial(u)
  PROVE  HelloInv'
<1>a. TaskTypes /\ Flags /\ Control
  BY Zenon DEF TaskInv
<1>1. /\ pc[u] = "dial" /\ pc' = [pc EXCEPT ![u] = "publish"] /\ conn' = conn
      /\ mine' = [mine EXCEPT ![u] = opened + 1] /\ alive' = [alive EXCEPT ![opened + 1] = TRUE]
      /\ hello' = hello /\ out' = out
  BY Zenon DEF Dial, To, client, history
<1>2. u \in Apps
  BY <1>a, <1>1, Names, Zenon DEF Control, Writing
<1> SUFFICES ASSUME NEW g \in Conn, alive'[g], ~hello[g]
             PROVE  \E t \in Apps : Greeting(t, g)'
  BY <1>1, Zenon DEF HelloInv, HelloPending
<1>3. CASE g = opened + 1
  <2>1. pc'[u] = "publish" /\ mine'[u] = g
    BY <1>a, <1>1, <1>3, Zenon DEF TaskTypes
  <2>2. Greeting(u, g)'
    BY <2>1, Zenon DEF Greeting
  <2> QED
    BY <1>2, <2>2, Zenon
<1>4. CASE g # opened + 1
  <2>1. alive[g]
    BY <1>a, <1>1, <1>4, Zenon DEF Flags
  <2>2. PICK t \in Apps : Greeting(t, g)
    BY <2>1, Zenon DEF HelloInv, HelloPending
  <2>3. t # u
    BY <1>1, <2>2, Zenon DEF Greeting, Writing
  <2>4. pc'[t] = pc[t] /\ mine'[t] = mine[t]
    BY <1>a, <1>1, <2>3, Names, Zenon DEF TaskTypes
  <2>5. Greeting(t, g)'
    BY <1>1, <2>2, <2>4, Zenon DEF Greeting
  <2> QED
    BY <2>5, Zenon
<1> QED
  BY <1>3, <1>4, Zenon

LEMMA HelloConnect ==
  ASSUME TaskInv, HelloInv, NEW u \in Tasks, ClientStep(u), Publish(u) \/ Reset(u)
  PROVE  HelloInv'
<1>a. TaskTypes /\ Flags /\ Work
  BY Zenon DEF TaskInv
<1>0. hello' = hello /\ hello \in [Conn -> BOOLEAN]
  BY Zenon DEF Publish, Reset, history, HelloInv
<1>1. CASE Publish(u)
  <2>1. /\ pc[u] = "publish" /\ pc' = [pc EXCEPT ![u] = "reset"] /\ conn' = mine[u]
        /\ alive' = [h \in Conn |-> alive[h] /\ h # conn]
    BY <1>1, Zenon DEF Publish, Install, To
  <2>2. ASSUME NEW g \in Conn, alive'[g] PROVE alive[g] /\ g # conn
    BY <2>1, <2>2, Zenon
  <2>3. ASSUME NEW g \in Conn, alive'[g], Greeting(u, g) PROVE Greeting(u, g)'
    <3>1. mine[u] = g
      BY <2>2, <2>3, Zenon DEF Greeting
    <3>2. pc'[u] = "reset" /\ conn' = g
      BY <1>a, <2>1, <3>1, Zenon DEF TaskTypes
    <3> QED
      BY <3>2, Zenon DEF Greeting
  <2> QED
    BY <1>0, <2>2, <2>3, OthersStay, HelloKeep, Zenon
<1>2. CASE Reset(u)
  <2>1. /\ pc[u] = "reset" /\ pc' = [pc EXCEPT ![u] = "frame"] /\ conn' = conn /\ alive' = alive
        /\ out' = [out EXCEPT ![u] = Frame("HELLO", 0, "none")]
    BY <1>2, Zenon DEF Reset, To, net
  <2>2. pc'[u] = "frame" /\ out'[u] = Frame("HELLO", 0, "none")
    BY <1>a, <2>1, Zenon DEF TaskTypes, Work
  <2>3. pc'[u] \in Writing /\ out'[u].type = "HELLO"
    BY <2>2 DEF Writing, Frame
  <2>4. ASSUME NEW g \in Conn, Greeting(u, g) PROVE Greeting(u, g)'
    BY <2>1, <2>3, <2>4, Zenon DEF Greeting
  <2> QED
    BY <1>0, <2>1, <2>4, OthersStay, HelloKeep, Zenon
<1> QED
  BY <1>1, <1>2, Zenon

LEMMA HelloSend ==
  ASSUME TaskInv, HelloInv, NEW u \in Tasks, ClientStep(u),
         SendFrame(u) \/ Write1(u) \/ Write2(u) \/ WriteFails(u)
  PROVE  HelloInv'
<1>a. TaskTypes /\ Flags /\ Control
  BY Zenon DEF TaskInv
<1>b. hello \in [Conn -> BOOLEAN]
  BY Zenon DEF HelloInv
<1>c. UNCHANGED <<conn, alive, out>>
  BY Zenon DEF SendFrame, Write1, Write2, WriteFails, net, client
<1>d. pc[u] \in {"frame", "write1", "write2"}
  BY Zenon DEF SendFrame, Write1, Write2, WriteFails
<1>e. ASSUME NEW g \in Conn, Greeting(u, g) PROVE conn = g /\ conn # 0 /\ out[u].type = "HELLO"
  BY <1>d, <1>e DEF Greeting, Conn
<1>s. hello' \in [Conn -> BOOLEAN] /\ \A g \in Conn : hello[g] => hello'[g]
  <2>1. hello' = hello \/ hello' = [hello EXCEPT ![conn] = TRUE]
    BY Zenon DEF SendFrame, Write1, Write2, WriteFails, history
  <2> QED
    BY <1>b, <2>1, Zenon
<1> SUFFICES ASSUME NEW g \in Conn, alive'[g], ~hello'[g], Greeting(u, g) PROVE Greeting(u, g)'
  BY <1>c, <1>s, OthersStay, HelloKeep, Zenon
<1>1. conn = g /\ conn # 0 /\ out[u].type = "HELLO" /\ conn' = g /\ out'[u].type = "HELLO" /\ alive[conn]
  BY <1>c, <1>e, Zenon
<1>2. ASSUME NEW l \in Writing, pc' = [pc EXCEPT ![u] = l] PROVE Greeting(u, g)'
  <2>1. pc'[u] \in Writing
    BY <1>a, <1>2, Zenon DEF TaskTypes
  <2> QED
    BY <1>1, <2>1, Zenon DEF Greeting
<1>3. CASE SendFrame(u)
  BY <1>1, <1>2, <1>3, Zenon DEF SendFrame, To, Writing
<1>4. CASE Write1(u)
  BY <1>2, <1>4, Zenon DEF Write1, To, Writing
<1>5. CASE WriteFails(u)
  BY <1>1, <1>5, Zenon DEF WriteFails
<1>6. CASE Write2(u)
  <2>1. hello' = [hello EXCEPT ![conn] = TRUE]
    BY <1>1, <1>6, Zenon DEF Write2
  <2> QED
    BY <1>1, <1>b, <2>1, Zenon
<1> QED
  BY <1>3, <1>4, <1>5, <1>6, Zenon

\* Every other step is made by a task that is not about to greet.
LEMMA HelloOther ==
  ASSUME TaskInv, HelloInv, NEW u \in Tasks, ClientStep(u),
         pc[u] \notin Writing \cup {"dial", "publish", "reset"} \/ DialFails(u)
  PROVE  HelloInv'
<1>1. hello' = hello /\ \A g \in Conn : alive'[g] => alive[g] /\ (conn' = conn \/ conn # g)
  <2>a. pc[u] \notin {"frame", "write1", "write2", "publish", "reset"}
    BY Zenon DEF Writing, DialFails
  <2>b. pc[u] # "dial" \/ DialFails(u)
    BY Zenon
  <2>1. CASE Drop(u)
    BY <2>1, Zenon DEF Drop, Install, history
  <2>2. CASE \E n \in 1..WireCap : AckRead(u, n) \/ Read(u, n) \/ TimeOutInRecv(u, n)
    BY <2>2, Zenon DEF AckRead, Read, TimeOutInRecv, history, net
  <2>3. CASE Call(u) \/ StartHeartbeat(u) \/ AllocStream(u) \/ AwaitAck(u) \/ Recv(u) \/ ReadFails(u)
    BY <2>3, Zenon DEF Call, StartHeartbeat, AllocStream, AwaitAck, Recv, ReadFails, client, history, net
  <2>4. CASE TimeOut(u) \/ Stop(u) \/ TakeStrategy(u) \/ Retry(u) \/ DialFails(u)
    BY <2>4, Zenon DEF TimeOut, Stop, TakeStrategy, Retry, DialFails, client, history, net
  <2>5. ~(Publish(u) \/ Reset(u)) /\ (Dial(u) => DialFails(u))
    BY <2>a, <2>b, Zenon DEF Dial, Publish, Reset
  <2>6. ~(SendFrame(u) \/ Write1(u) \/ Write2(u) \/ WriteFails(u))
    BY <2>a, Zenon DEF SendFrame, Write1, Write2, WriteFails
  <2> QED
    BY <2>1, <2>2, <2>3, <2>4, <2>5, <2>6, Zenon DEF ClientStep
<1>2. \A g \in Conn : ~Greeting(u, g)
  BY Zenon DEF Greeting, DialFails, Writing
<1>3. hello' \in [Conn -> BOOLEAN]
  BY <1>1, Zenon DEF HelloInv
<1> QED
  BY <1>1, <1>2, <1>3, OthersStay, HelloKeep, Zenon

LEMMA HelloInvNext == TaskInv /\ HelloInv /\ [Next]_vars => HelloInv'
<1> SUFFICES ASSUME TaskInv, HelloInv, [Next]_vars PROVE HelloInv'
  BY Zenon
<1>a. Flags
  BY Zenon DEF TaskInv
<1>1. ASSUME NEW u \in Tasks, ClientStep(u) PROVE HelloInv'
  <2>1. CASE pc[u] \in {"frame", "write1", "write2", "dial", "publish", "reset"}
    <3>a. pc[u] \notin {"idle", "beat", "alloc", "ack", "recv", "ackRead", "read", "stop", "drop",
                        "strategy", "retry"}
      BY <2>1, Zenon
    <3>1. ~(Call(u) \/ StartHeartbeat(u) \/ AllocStream(u) \/ AwaitAck(u) \/ Recv(u) \/ ReadFails(u))
      BY <3>a, Zenon DEF Call, StartHeartbeat, AllocStream, AwaitAck, Recv, ReadFails
    <3>2. ~(TimeOut(u) \/ Stop(u) \/ Drop(u) \/ TakeStrategy(u) \/ Retry(u))
      BY <3>a, Zenon DEF TimeOut, Stop, Drop, TakeStrategy, Retry
    <3>3. ~\E n \in 1..WireCap : AckRead(u, n) \/ Read(u, n) \/ TimeOutInRecv(u, n)
      BY <3>a, Zenon DEF AckRead, Read, TimeOutInRecv
    <3>4. \/ Dial(u) \/ DialFails(u) \/ Publish(u) \/ Reset(u)
          \/ SendFrame(u) \/ Write1(u) \/ Write2(u) \/ WriteFails(u)
      BY <1>1, <3>1, <3>2, <3>3, Zenon DEF ClientStep
    <3> QED
      BY <1>1, <3>4, HelloDial, HelloConnect, HelloSend, HelloOther, Zenon
  <2>2. CASE pc[u] \notin {"frame", "write1", "write2", "dial", "publish", "reset"}
    <3>1. pc[u] \notin Writing \cup {"dial", "publish", "reset"}
      BY <2>2, Zenon DEF Writing
    <3> QED
      BY <1>1, <3>1, HelloOther, Zenon
  <2> QED
    BY <2>1, <2>2, Zenon
<1>2. ASSUME UNCHANGED <<conn, mine, hello, pc, out>>, \A g \in Conn : alive'[g] => alive[g]
      PROVE  HelloInv'
  BY <1>2, Zenon DEF HelloInv, HelloPending, Greeting
<1>3. ASSUME NEW g \in Conn, ServerStep(g) \/ ServerStops(g) \/ Lose(g) \/ Refill(g)
      PROVE  HelloInv'
  <2>1. UNCHANGED <<conn, mine, hello, pc, out>>
    BY <1>3, Zenon DEF ServerStep, ServerRead, HandleFrame, ServerWrite, ServerStops, Lose, Refill,
                       client, task, history
  <2>2. alive' = alive \/ alive' = [alive EXCEPT ![g] = FALSE]
    BY <1>3, Zenon DEF ServerStep, ServerRead, HandleFrame, ServerWrite, ServerStops, Lose, Refill, net
  <2>3. \A h \in Conn : alive'[h] => alive[h]
    BY <1>a, <2>2, Zenon DEF Flags
  <2> QED
    BY <1>2, <2>1, <2>3, Zenon
<1>4. CASE UNCHANGED vars
  BY <1>2, <1>4, Zenon DEF vars, client, task, net, history
<1> QED
  BY <1>1, <1>3, <1>4, Zenon DEF Next

LEMMA HelloInvariant == Spec => []HelloInv
<1>1. Init => HelloInv
  <2> SUFFICES ASSUME Init PROVE HelloInv
    BY Zenon
  <2>1. hello \in [Conn -> BOOLEAN] /\ \A g \in Conn : ~alive[g]
    BY Zenon DEF Init
  <2> QED
    BY <2>1, Zenon DEF HelloInv, HelloPending
<1> QED
  BY <1>1, HelloInvNext, TaskInvariant, PTL DEF Spec

\* No connect or reconnect leaves an open connection without HELLO, however
\* many tasks share the client and whatever they call.
THEOREM HelloPendingHolds == Spec => []HelloPending
<1>1. HelloInv => HelloPending
  BY Zenon DEF HelloInv
<1> QED
  BY <1>1, HelloInvariant, PTL

\* The payloads of a client that one application task uses.
LEMMA HelloAlone ==
  ASSUME NEW a, Apps = {a}, TaskInv, SocketInv, HelloInv, HelloBeforeData, [Next]_vars
  PROVE  HelloBeforeData'
<1>a. TaskTypes /\ Control /\ StreamTypes /\ hello \in [Conn -> BOOLEAN]
  BY Zenon DEF TaskInv, SocketInv, HelloInv
<1>1. ASSUME UNCHANGED <<written, hello>> PROVE HelloBeforeData'
  BY <1>1, Zenon DEF HelloBeforeData
<1>2. ASSUME NEW u \in Tasks, Write2(u) PROVE HelloBeforeData'
  <2>1. \A g \in Conn : hello[g] => hello'[g]
    BY <1>a, <1>2, Zenon DEF Write2
  <2>2. CASE out[u].type # "DATA"
    BY <1>2, <2>1, <2>2, Zenon DEF Write2, HelloBeforeData
  <2>3. CASE out[u].type = "DATA"
    <3>1. u = a /\ out[a].type # "HELLO" /\ pc[a] = "write2"
      <4>1. u # hb
        BY <1>a, <1>2, <2>3, Zenon DEF Write2, Control, Writing
      <4> QED
        BY <1>2, <2>3, <4>1, Names, Zenon DEF Write2
    <3>2. alive[conn] /\ conn \in Conn
      <4>1. conn # 0
        BY <1>a, <1>2, Names, Zenon DEF Write2, Control, Critical
      <4> QED
        BY <1>2, <1>a, <4>1, Handle, Zenon DEF Write2, TaskTypes
    <3>3. ~Greeting(a, conn)
      BY <3>1, Zenon DEF Greeting
    <3>4. hello[conn]
      BY <3>2, <3>3, Zenon DEF HelloInv, HelloPending
    <3>5. \A g \in Conn \ {conn} : written'[g] = written[g]
      BY <1>2, <1>a, Zenon DEF Write2, StreamTypes
    <3> QED
      BY <2>1, <3>4, <3>5, Zenon DEF HelloBeforeData
  <2> QED
    BY <2>2, <2>3, Zenon
<1>3. ASSUME NEW u \in Tasks, ClientStep(u) PROVE HelloBeforeData'
  <2>1. CASE Call(u) \/ Dial(u) \/ DialFails(u) \/ Publish(u) \/ Reset(u) \/ StartHeartbeat(u)
    BY <1>1, <2>1, Zenon DEF Call, Dial, DialFails, Publish, Reset, StartHeartbeat, history
  <2>2. CASE AllocStream(u) \/ SendFrame(u) \/ Write1(u) \/ WriteFails(u)
    BY <1>1, <2>2, Zenon DEF AllocStream, SendFrame, Write1, WriteFails, history
  <2>3. CASE AwaitAck(u) \/ Recv(u) \/ ReadFails(u) \/ TimeOut(u)
    BY <1>1, <2>3, Zenon DEF AwaitAck, Recv, ReadFails, TimeOut, history
  <2>4. CASE \E n \in 1..WireCap : AckRead(u, n) \/ Read(u, n) \/ TimeOutInRecv(u, n)
    BY <1>1, <2>4, Zenon DEF AckRead, Read, TimeOutInRecv, history
  <2>5. CASE Stop(u) \/ Drop(u) \/ TakeStrategy(u) \/ Retry(u)
    BY <1>1, <2>5, Zenon DEF Stop, Drop, TakeStrategy, Retry, history
  <2> QED
    BY <1>2, <1>3, <2>1, <2>2, <2>3, <2>4, <2>5, Zenon DEF ClientStep
<1>4. ASSUME NEW g \in Conn, ServerStep(g) \/ ServerStops(g) \/ Lose(g) \/ Refill(g)
      PROVE  HelloBeforeData'
  BY <1>1, <1>4, Zenon DEF ServerStep, ServerRead, HandleFrame, ServerWrite, ServerStops, Lose, Refill,
                           history
<1>5. CASE UNCHANGED vars
  BY <1>1, <1>5, Zenon DEF vars, history
<1> QED
  BY <1>3, <1>4, <1>5, Zenon DEF Next

\* A client that one application task uses writes HELLO to a connection before
\* it writes any payload, whatever methods the task calls, whatever fails and
\* however often it reconnects, with a heartbeat running beside it.
THEOREM HelloFirst == ASSUME NEW a, Apps = {a} PROVE Spec => []HelloBeforeData
<1>1. Init => HelloBeforeData
  BY Zenon DEF Init, HelloBeforeData
<1>2. TaskInv /\ SocketInv /\ HelloInv /\ HelloBeforeData /\ [Next]_vars => HelloBeforeData'
  BY HelloAlone, Zenon
<1> QED
  BY <1>1, <1>2, TaskInvariant, SocketInvariant, HelloInvariant, PTL DEF Spec

=============================================================================
