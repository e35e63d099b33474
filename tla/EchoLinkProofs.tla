--------------------------- MODULE EchoLinkProofs ----------------------------
(***************************************************************************)
(* The invariants of EchoLink for any number of tasks, connections and     *)
(* retries, any size of the socket buffers and any lists of methods.       *)
(*                                                                         *)
(* They are proved in layers, each from the ones before it: the types and  *)
(* the control state of the tasks, and the sockets, here; the numbers of   *)
(* the payloads and the handshake in EchoCallProofs; the framing of the    *)
(* byte streams and the order of the payloads in EchoOrderProofs.          *)
(***************************************************************************)
EXTENDS EchoLink, TLAPS

\* The time a leaf may take.
USE SMTT(30), ZenonT(30)

-----------------------------------------------------------------------------
(* Types and control *)

\* The tasks and the locks.
TaskTypes ==
  /\ conn \in 0..MaxConns /\ retries \in 0..MaxRetries
  /\ lock \in Tasks \cup {free} /\ strategy \in Apps \cup {free}
  /\ op \in [Tasks -> Methods \cup {"beat", "none"}]
  /\ arg \in [Tasks -> Nat] /\ tries \in [Tasks -> Nat] /\ payloads \in Nat
  /\ pc \in [Tasks -> Labels]
  /\ mine \in [Tasks -> 0..MaxConns]
  /\ opened \in 0..MaxConns

Flags ==
  /\ beating \in BOOLEAN
  /\ alive \in [Conn -> BOOLEAN]
  /\ serving \in [Conn -> BOOLEAN]

\* What the tasks are about to do.
Work ==
  /\ DOMAIN todo = Tasks /\ todo[hb] \in Seq({"beat"})
  /\ \A t \in Apps : todo[t] \in Seq(Methods)
  /\ out \in [Tasks -> ClientFrame \cup {NoFrame}]

Critical == {"write1", "write2", "ackRead", "read"}

\* The lock is held where a method reads or writes the socket, and only with a
\* connection; send_frame has a frame of the client; the heartbeat only pings.
Control ==
  /\ \A t \in Tasks : lock = t <=> pc[t] \in Critical
  /\ lock # free => conn # 0
  /\ \A t \in Tasks : pc[t] \in Writing => out[t] \in ClientFrame
  /\ pc[hb] \in Writing \cup {"idle"}
  /\ pc[hb] \in Writing => out[hb].type = "PING"

TaskInv == TaskTypes /\ Flags /\ Work /\ Control

LEMMA Names == /\ hb \in Tasks /\ Apps \subseteq Tasks /\ Tasks \ {hb} = Apps
               /\ free \notin Tasks /\ hb \notin Apps
  BY LinkAssumption DEF Tasks

LEMMA Bounds == MaxConns \in Nat /\ MaxRetries \in Nat /\ WireCap \in Nat /\ IPTokens \in Nat
  BY LinkAssumption

\* A connection that was made is none of those still to come.
LEMMA NotAbove ==
  ASSUME NEW o \in 0..MaxConns, NEW g \in Conn, g <= o, NEW h \in Conn, h > o PROVE h # g
  BY Bounds DEF Conn

\* The handle is the number of a connection, or 0.
LEMMA Handle ==
  /\ \A o \in 0..MaxConns : 0 <= o
  /\ \A c \in 0..MaxConns : c # 0 => c \in Conn
  BY Bounds DEF Conn

\* Where a call starts.
LEMMA EntryOf ==
  /\ Entry("connect") = "dial"
  /\ \A m \in Sends : Entry(m) = "alloc"
  /\ \A m \in {"recv", "timedRecv"} : Entry(m) = "recv"
  /\ \A m \in {"ping", "beat"} : Entry(m) = "frame"
  /\ Entry("close") = "stop"
  /\ Entry("reconnect") = "strategy"
  BY Zenon DEF Entry, Sends

\* Where a method goes on after send_frame.
LEMMA SentTo == ASSUME NEW t \in Tasks, out[t] \in ClientFrame
                PROVE  /\ out[t].type = "HELLO" => Sent(t) = "ack"
                       /\ out[t].type = "DATA" => Sent(t) = "idle"
                       /\ out[t].type = "PING" => Sent(t) = IF t = hb THEN "idle" ELSE "recv"
                       /\ out[t].type = "CLOSE" => Sent(t) = "drop"
  BY Zenon DEF Sent

LEMMA NotSentTo == ASSUME NEW t \in Tasks, out[t] \in ClientFrame
                   PROVE  /\ out[t].type = "HELLO" => NotSent(t) = ConnectFailed(t)
                          /\ out[t].type = "DATA" => NotSent(t) = SendFailed(t)
                          /\ out[t].type = "PING" => NotSent(t) = "idle"
                          /\ out[t].type = "CLOSE" => NotSent(t) = "drop"
  BY Zenon DEF NotSent

LEMMA TaskInvInit == Init => TaskInv
<1> SUFFICES ASSUME Init PROVE TaskInv
  OBVIOUS
<1>1. TaskTypes
  BY Bounds DEF Init, TaskTypes, Conn, Labels
<1>2. Flags
  BY Zenon DEF Init, Flags
<1>3. Work
  BY LinkAssumption DEF Init, Work
<1>4. Control
  BY Names DEF Init, Control, Critical, Writing
<1> QED
  BY <1>1, <1>2, <1>3, <1>4 DEF TaskInv

LEMMA TaskInvCall == ASSUME TaskInv, NEW t \in Tasks, Call(t) PROVE TaskInv'
<1>a. TaskTypes /\ Flags /\ Work /\ Control
  BY DEF TaskInv
<1>1. PICK m \in Methods \cup {"beat"} :
        /\ t = hb => m = "beat"
        /\ t # hb => m \in Methods
        /\ op' = [op EXCEPT ![t] = m]
        /\ pc' = [pc EXCEPT ![t] = Entry(m)]
        /\ payloads' = IF m \in Sends THEN payloads + 1 ELSE payloads
        /\ arg' = [arg EXCEPT ![t] = IF m \in Sends THEN payloads + 1 ELSE 0]
  <2>1. /\ t = hb => Head(todo[t]) = "beat"
        /\ t # hb => Head(todo[t]) \in Methods
    BY <1>a, Names DEF Call, Work
  <2> QED
    BY <2>1, Zenon DEF Call, To
<1>2. /\ pc[t] = "idle"
      /\ out' = [out EXCEPT ![t] = Frame("PING", 0, "none")]
      /\ todo' = [todo EXCEPT ![t] = Tail(@)] /\ todo[t] # <<>>
      /\ tries' = [tries EXCEPT ![t] = 0]
      /\ UNCHANGED <<client, mine, net, server>>
  BY DEF Call
<1>3. TaskTypes'
  <2>1. Entry(m) \in Labels
    BY EntryOf DEF Methods, Sends, Labels
  <2>2. payloads' \in Nat /\ arg' \in [Tasks -> Nat]
    BY <1>a, <1>1 DEF TaskTypes
  <2> QED
    BY <1>a, <1>1, <1>2, <2>1, <2>2, Zenon DEF TaskTypes, client, net
<1>4. Flags'
  BY <1>a, <1>2 DEF Flags, client, net, server
<1>b. Frame("PING", 0, "none") \in ClientFrame /\ Frame("PING", 0, "none").type = "PING"
  BY DEF Frame, ClientFrame
<1>5. Work'
  BY <1>a, <1>b, <1>2, Names DEF Work
<1>6. Control'
  <2>1. /\ Entry(m) \in {"dial", "alloc", "recv", "frame", "stop", "strategy"}
        /\ m = "beat" => Entry(m) = "frame"
    BY EntryOf DEF Methods, Sends
  <2> QED
    BY <1>a, <1>b, <1>1, <1>2, <2>1, Names, Zenon
    DEF TaskTypes, Work, Control, client, Critical, Writing
<1> QED
  BY <1>3, <1>4, <1>5, <1>6 DEF TaskInv

\* The steps of connect_internal and reconnect.
LEMMA TaskInvConnect ==
  ASSUME TaskInv, NEW t \in Tasks
  PROVE  Dial(t) \/ DialFails(t) \/ Publish(t) \/ Reset(t) \/ StartHeartbeat(t)
           \/ TakeStrategy(t) \/ Retry(t) => TaskInv'
<1>a. TaskTypes /\ Flags /\ Work /\ Control
  BY DEF TaskInv
<1>b. ConnectFailed(t) \in {"idle", "retry"}
  BY DEF ConnectFailed
<1>1. ASSUME Dial(t) PROVE TaskInv'
  <2>1. TaskTypes'
    BY <1>a, <1>1, Bounds DEF Dial, TaskTypes, To, client, history, Labels
  <2>2. Flags'
    BY <1>a, <1>1, Zenon DEF Dial, Flags, client, net, server
  <2>3. Work'
    BY <1>a, <1>1 DEF Dial, Work
  <2>4. Control'
    BY <1>a, <1>1, Names
    DEF Dial, TaskTypes, Control, Critical, Writing, To, client
  <2> QED
    BY <2>1, <2>2, <2>3, <2>4 DEF TaskInv
<1>2. ASSUME DialFails(t) PROVE TaskInv'
  <2>1. TaskTypes'
    BY <1>a, <1>2, <1>b DEF DialFails, TaskTypes, To, client, net, history, Labels
  <2>2. Flags'
    BY <1>a, <1>2 DEF DialFails, Flags, client, net, server
  <2>3. Work'
    BY <1>a, <1>2 DEF DialFails, Work
  <2>4. Control'
    BY <1>a, <1>2, Names, <1>b
    DEF DialFails, TaskTypes, Control, Critical, Writing, To, client
  <2> QED
    BY <2>1, <2>2, <2>3, <2>4 DEF TaskInv
<1>3. ASSUME Publish(t) PROVE TaskInv'
  <2>1. TaskTypes'
    BY <1>a, <1>3 DEF Publish, TaskTypes, To, Install, history, Labels
  <2>2. Flags'
    BY <1>a, <1>3 DEF Publish, Flags, Install, history, client, net, server
  <2>3. Work'
    BY <1>a, <1>3 DEF Publish, Work
  <2>4. Control'
    BY <1>a, <1>3, Names
    DEF Publish, TaskTypes, Control, Critical, Writing, To, Install
  <2> QED
    BY <2>1, <2>2, <2>3, <2>4 DEF TaskInv
<1>4. ASSUME Reset(t) PROVE TaskInv'
  <2>1. /\ Frame("HELLO", 0, "none") \in ClientFrame
        /\ t # hb
    BY <1>a, <1>4 DEF Reset, Frame, ClientFrame, Control, Writing
  <2>2. TaskTypes'
    BY <1>a, <1>4, Bounds DEF Reset, TaskTypes, To, reset, net, history, Labels
  <2>3. Flags'
    BY <1>a, <1>4 DEF Reset, Flags, client, net, server
  <2>4. Work'
    BY <1>a, <1>4, <2>1 DEF Reset, Work
  <2>5. Control'
    BY <1>a, <1>4, Names, <2>1
    DEF Reset, TaskTypes, Control, Critical, Writing, To, Work
  <2> QED
    BY <2>2, <2>3, <2>4, <2>5 DEF TaskInv
<1>5. ASSUME StartHeartbeat(t) PROVE TaskInv'
  <2>1. TaskTypes'
    BY <1>a, <1>5 DEF StartHeartbeat, TaskTypes, To, net, history, Labels
  <2>2. Flags'
    BY <1>a, <1>5 DEF StartHeartbeat, Flags, client, net, server
  <2>3. Work'
    BY <1>a, <1>5 DEF StartHeartbeat, Work
  <2>4. Control'
    BY <1>a, <1>5, Names
    DEF StartHeartbeat, TaskTypes, Control, Critical, Writing, To
  <2> QED
    BY <2>1, <2>2, <2>3, <2>4 DEF TaskInv
<1>6. ASSUME TakeStrategy(t) PROVE TaskInv'
  <2>1. TaskTypes'
    BY <1>a, <1>6, Names DEF TakeStrategy, TaskTypes, To, Control, Writing, net, history, Labels
  <2>2. Flags'
    BY <1>a, <1>6, Zenon DEF TakeStrategy, Flags, client, net, server
  <2>3. Work'
    BY <1>a, <1>6, Zenon DEF TakeStrategy, Work
  <2>4. Control'
    BY <1>a, <1>6, Names
    DEF TakeStrategy, TaskTypes, Control, Critical, Writing, To
  <2> QED
    BY <2>1, <2>2, <2>3, <2>4 DEF TaskInv
<1>7. ASSUME Retry(t) PROVE TaskInv'
  <2>1. TaskTypes'
    BY <1>a, <1>7, Bounds DEF Retry, TaskTypes, To, should_retry, wait, net, history, Labels
  <2>2. Flags'
    BY <1>a, <1>7 DEF Retry, Flags, client, net, server
  <2>3. Work'
    BY <1>a, <1>7, Zenon DEF Retry, Work
  <2>4. Control'
    BY <1>a, <1>7, Names, Zenon
    DEF Retry, TaskTypes, Control, Critical, Writing, To
  <2> QED
    BY <2>1, <2>2, <2>3, <2>4 DEF TaskInv
<1> QED
  BY <1>1, <1>2, <1>3, <1>4, <1>5, <1>6, <1>7

\* The steps of send, send_frame and close.
LEMMA TaskInvSend ==
  ASSUME TaskInv, NEW t \in Tasks
  PROVE  AllocStream(t) \/ SendFrame(t) \/ Write1(t) \/ Write2(t) \/ WriteFails(t)
           \/ Stop(t) \/ Drop(t) => TaskInv'
<1>a. TaskTypes /\ Flags /\ Work /\ Control
  BY DEF TaskInv
<1>b. ConnectFailed(t) \in {"idle", "retry"} /\ SendFailed(t) \in {"idle", "strategy"}
  BY DEF ConnectFailed, SendFailed
<1>c. pc[t] \in Writing =>
        /\ Sent(t) \in {"idle", "ack", "recv", "drop"}
        /\ NotSent(t) \in {"idle", "retry", "strategy", "drop"}
        /\ t = hb => Sent(t) = "idle" /\ NotSent(t) = "idle"
  <2> SUFFICES ASSUME pc[t] \in Writing
               PROVE  /\ Sent(t) \in {"idle", "ack", "recv", "drop"}
                      /\ NotSent(t) \in {"idle", "retry", "strategy", "drop"}
                      /\ t = hb => Sent(t) = "idle" /\ NotSent(t) = "idle"
    OBVIOUS
  <2>1. out[t] \in ClientFrame /\ (t = hb => out[t].type = "PING")
    BY <1>a DEF Control
  <2>2. out[t].type \in {"HELLO", "DATA", "PING", "CLOSE"}
    BY <2>1 DEF ClientFrame
  <2> QED
    BY <1>b, <2>1, <2>2, SentTo, NotSentTo
<1>d. CountFailure(t) => tries' \in [Tasks -> Nat]
  BY <1>a DEF CountFailure, TaskTypes
<1>1. ASSUME AllocStream(t) PROVE TaskInv'
  <2>1. t # hb
    BY <1>a, <1>1 DEF AllocStream, Control, Writing
  <2>2. Key(op[t]) \in {"none", "client", "lz4"}
    BY Zenon DEF Key
  <2>3. Frame("DATA", arg[t], Key(op[t])) \in ClientFrame
    BY <1>a, <2>2 DEF Frame, ClientFrame, TaskTypes
  <2>4. PICK l \in {"frame", "idle", "strategy"}, f \in ClientFrame :
          /\ pc' = [pc EXCEPT ![t] = l]
          /\ IF l = "frame" THEN out' = [out EXCEPT ![t] = f] ELSE out' = out
    BY <1>1, <1>b, <2>3, Zenon DEF AllocStream, To
  <2>5. tries' \in [Tasks -> Nat]
    BY <1>a, <1>1 DEF AllocStream, TaskTypes
  <2>6. pc[t] = "alloc" /\ UNCHANGED <<conn, lock, strategy, retries, op, arg, mine, opened, payloads>>
    BY <1>1, Zenon DEF AllocStream, client, net, history
  <2>7. TaskTypes'
    BY <1>a, <2>4, <2>5, <2>6, Zenon DEF TaskTypes, Labels
  <2>8. Flags'
    BY <1>a, <1>1, Zenon DEF AllocStream, Flags, client, net, server
  <2>9. Work'
    BY <1>a, <1>1, <2>3, Zenon DEF AllocStream, Work
  <2>10. Control'
    BY <1>a, Names, <2>1, <2>4, <2>6, Zenon
    DEF TaskTypes, Control, Critical, Writing, Work
  <2> QED
    BY <2>7, <2>8, <2>9, <2>10 DEF TaskInv
<1>2. ASSUME SendFrame(t) PROVE TaskInv'
  <2>1. PICK l \in {"write1", "idle", "retry", "strategy", "drop"} :
          /\ pc' = [pc EXCEPT ![t] = l]
          /\ IF l = "write1" THEN conn # 0 /\ lock' = t ELSE lock' = lock
          /\ t = hb => l \in {"write1", "idle"}
    BY <1>c, <1>2, Zenon DEF SendFrame, To, Writing
  <2>2. tries' \in [Tasks -> Nat]
    BY <1>a, <1>2, <1>d DEF SendFrame, TaskTypes
  <2>3. pc[t] = "frame" /\ lock = free
    BY <1>2 DEF SendFrame
  <2>4. UNCHANGED <<conn, strategy, retries, op, arg, out, mine, opened, payloads>>
    BY <1>2 DEF SendFrame, net, history
  <2>5. TaskTypes'
    BY <1>a, <2>1, <2>2, <2>4, Zenon DEF TaskTypes, Labels
  <2>6. Flags'
    BY <1>a, <1>2, Zenon DEF SendFrame, Flags, client, net, server
  <2>7. Work'
    BY <1>a, <1>2, Zenon DEF SendFrame, Work
  <2>8. Control'
    BY <1>a, Names, <2>1, <2>3, <2>4
    DEF TaskTypes, Control, Critical, Writing
  <2> QED
    BY <2>5, <2>6, <2>7, <2>8 DEF TaskInv
<1>3. ASSUME Write1(t) PROVE TaskInv'
  <2>1. TaskTypes'
    BY <1>a, <1>3 DEF Write1, TaskTypes, To, client, history, Labels
  <2>2. Flags'
    BY <1>a, <1>3 DEF Write1, Flags, client, net, server
  <2>3. Work'
    BY <1>a, <1>3 DEF Write1, Work
  <2>4. Control'
    BY <1>a, <1>3, Names
    DEF Write1, TaskTypes, Control, Critical, Writing, To, client
  <2> QED
    BY <2>1, <2>2, <2>3, <2>4 DEF TaskInv
<1>4. ASSUME Write2(t) PROVE TaskInv'
  <2>1. PICK l \in {"idle", "ack", "recv", "drop"} :
          pc' = [pc EXCEPT ![t] = l] /\ (t = hb => l = "idle")
    BY <1>c, <1>4, Zenon DEF Write2, To, Writing
  <2>2. pc[t] = "write2" /\ lock' = free
    BY <1>4, Zenon DEF Write2
  <2>3. UNCHANGED <<conn, strategy, retries, op, arg, out, mine, tries, opened, payloads>>
    BY <1>4, Zenon DEF Write2
  <2>4. TaskTypes'
    BY <1>a, <2>1, <2>2, <2>3 DEF TaskTypes, Labels
  <2>5. Flags'
    BY <1>a, <1>4, Zenon DEF Write2, Flags, client, net, server
  <2>6. Work'
    BY <1>a, <1>4, Zenon DEF Write2, Work
  <2>7. Control'
    BY <1>a, Names, <2>1, <2>2, <2>3
    DEF TaskTypes, Control, Critical, Writing
  <2> QED
    BY <2>4, <2>5, <2>6, <2>7 DEF TaskInv
<1>5. ASSUME WriteFails(t) PROVE TaskInv'
  <2>1. PICK l \in {"idle", "retry", "strategy", "drop"} :
          pc' = [pc EXCEPT ![t] = l] /\ (t = hb => l = "idle")
    BY <1>c, <1>5, Zenon DEF WriteFails, To, Writing
  <2>2. tries' \in [Tasks -> Nat]
    BY <1>5, <1>d DEF WriteFails
  <2>3. pc[t] \in {"write1", "write2"} /\ lock' = free
    BY <1>5 DEF WriteFails
  <2>4. UNCHANGED <<conn, strategy, retries, op, arg, out, mine, opened, payloads>>
    BY <1>5 DEF WriteFails, net, history
  <2>5. TaskTypes'
    BY <1>a, <2>1, <2>2, <2>3, <2>4, Zenon DEF TaskTypes, Labels
  <2>6. Flags'
    BY <1>a, <1>5, Zenon DEF WriteFails, Flags, client, net, server
  <2>7. Work'
    BY <1>a, <1>5, Zenon DEF WriteFails, Work
  <2>8. Control'
    BY <1>a, Names, <2>1, <2>3, <2>4
    DEF TaskTypes, Control, Critical, Writing
  <2> QED
    BY <2>5, <2>6, <2>7, <2>8 DEF TaskInv
<1>6. ASSUME Stop(t) PROVE TaskInv'
  <2>1. /\ Frame("CLOSE", 0, "none") \in ClientFrame
        /\ t # hb
    BY <1>a, <1>6 DEF Stop, Frame, ClientFrame, Control, Writing
  <2>2. TaskTypes'
    BY <1>a, <1>6 DEF Stop, TaskTypes, To, net, history, Labels
  <2>3. Flags'
    BY <1>a, <1>6, Zenon DEF Stop, Flags, client, net, server
  <2>4. Work'
    BY <1>a, <1>6, <2>1, Zenon DEF Stop, Work
  <2>5. Control'
    <3>1. /\ pc[t] = "stop" /\ pc' = [pc EXCEPT ![t] = "frame"]
          /\ out' = [out EXCEPT ![t] = Frame("CLOSE", 0, "none")]
          /\ UNCHANGED <<conn, lock>>
      BY <1>6, Zenon DEF Stop, To
    <3> QED
      BY <1>a, <2>1, <3>1, Names, Zenon DEF TaskTypes, Control, Critical, Writing, Work
  <2> QED
    BY <2>2, <2>3, <2>4, <2>5 DEF TaskInv
<1>7. ASSUME Drop(t) PROVE TaskInv'
  <2>1. TaskTypes'
    BY <1>a, <1>7, Bounds DEF Drop, TaskTypes, To, Install, history, Labels
  <2>2. Flags'
    BY <1>a, <1>7 DEF Drop, Flags, Install, history, client, net, server
  <2>3. Work'
    BY <1>a, <1>7, Zenon DEF Drop, Work
  <2>4. Control'
    BY <1>a, <1>7, Names, Zenon
    DEF Drop, TaskTypes, Control, Critical, Writing, To, Install
  <2> QED
    BY <2>1, <2>2, <2>3, <2>4 DEF TaskInv
<1> QED
  BY <1>1, <1>2, <1>3, <1>4, <1>5, <1>6, <1>7

\* The steps of expect_handshake_ack, recv and ping, and their timeouts.
LEMMA TaskInvRecv ==
  ASSUME TaskInv, NEW t \in Tasks, NEW n,
         \/ AwaitAck(t) \/ Recv(t) \/ ReadFails(t) \/ TimeOut(t)
         \/ AckRead(t, n) \/ Read(t, n) \/ TimeOutInRecv(t, n)
  PROVE  TaskInv'
<1>a. TaskTypes /\ Flags /\ Work /\ Control
  BY DEF TaskInv
<1>b. /\ ConnectFailed(t) \in {"idle", "retry"}
      /\ \A e \in BOOLEAN : Received(t, e) \in {"idle", "recv"}
  BY DEF ConnectFailed, Received
<1>c. /\ UNCHANGED <<conn, strategy, retries, beating, op, arg, out, mine, tries, payloads>>
      /\ UNCHANGED <<todo, opened, alive, serving>>
  BY Zenon DEF AwaitAck, Recv, ReadFails, TimeOut, AckRead, Read, TimeOutInRecv,
               net, server, history
<1>d. pc[t] \in Critical \cup {"ack", "recv"} /\ t # hb
  BY <1>a, Zenon DEF AwaitAck, Recv, ReadFails, TimeOut, AckRead, Read, TimeOutInRecv,
                     Critical, Control, Writing
<1>e. PICK l \in Labels :
        /\ pc' = [pc EXCEPT ![t] = l]
        /\ l \notin Writing
        /\ IF l \in Critical THEN conn # 0 /\ lock' = t ELSE lock' # t
        /\ lock' = lock \/ (lock = free /\ lock' = t) \/ (lock = t /\ lock' = free)
  <2>1. CASE AwaitAck(t)
    BY <1>a, <1>b, <2>1, Names, Zenon DEF AwaitAck, To, Labels, Critical, Writing
  <2>2. CASE Recv(t)
    BY <2>2, Names DEF Recv, To, Labels, Critical, Writing
  <2>3. CASE ReadFails(t)
    <3>1. Received(t, FALSE) \in {"idle", "recv"}
      BY <1>b, Zenon
    <3> QED
      BY <1>a, <1>b, <2>3, <3>1, Names, Zenon DEF ReadFails, Control, To, Labels, Critical, Writing
  <2>4. CASE TimeOut(t)
    BY <1>a, <2>4, Names, Zenon DEF TimeOut, Control, To, Labels, Critical, Writing
  <2>5. CASE AckRead(t, n)
    <3>1. CASE pc' = pc /\ lock' = lock
      <4>1. pc' = [pc EXCEPT ![t] = "ackRead"] /\ lock = t /\ conn # 0
        BY <1>a, <2>5, <3>1, Names, Zenon DEF AckRead, TaskTypes, Control, Critical
      <4> QED
        BY <3>1, <4>1, Zenon DEF Labels, Critical, Writing
    <3>2. CASE lock' = free /\ \E l \in {"beat", "idle", "retry"} : pc' = [pc EXCEPT ![t] = l]
      BY <1>a, <2>5, <3>2, Names, Zenon DEF AckRead, Control, Labels, Critical, Writing
    <3> QED
      BY <1>b, <2>5, <3>1, <3>2, Zenon DEF AckRead, To
  <2>6. CASE Read(t, n)
    <3>1. lock' = free /\ \E l \in {"idle", "recv"} : pc' = [pc EXCEPT ![t] = l]
      BY <1>b, <2>6, Zenon DEF Read, To
    <3> QED
      BY <1>a, <2>6, <3>1, Names, Zenon DEF Read, Control, Labels, Critical, Writing
  <2>7. CASE TimeOutInRecv(t, n)
    <3>1. lock' = free /\ pc' = [pc EXCEPT ![t] = "idle"] /\ pc[t] = "read"
      BY <2>7, Zenon DEF TimeOutInRecv, To
    <3> QED
      BY <1>a, <3>1, Names, Zenon DEF Control, Labels, Critical, Writing
  <2> QED
    BY <2>1, <2>2, <2>3, <2>4, <2>5, <2>6, <2>7
<1>1. TaskTypes'
  BY <1>a, <1>c, <1>e DEF TaskTypes
<1>2. Flags'
  BY <1>a, <1>c, Zenon DEF Flags
<1>3. Work'
  BY <1>a, <1>c, Zenon DEF Work
<1>4. Control'
  BY <1>a, <1>c, <1>d, <1>e, Names, Zenon DEF TaskTypes, Control, Critical, Writing
<1> QED
  BY <1>1, <1>2, <1>3, <1>4 DEF TaskInv

\* Everything the client does not do.
LEMMA TaskInvOther ==
  ASSUME TaskInv, NEW g, NEW n,
         \/ ServerRead(g, n) \/ HandleFrame(g) \/ ServerWrite(g) \/ ServerStops(g)
         \/ Lose(g) \/ Refill(g) \/ UNCHANGED vars
  PROVE  TaskInv'
<1>a. TaskTypes /\ Flags /\ Work /\ Control
  BY DEF TaskInv
<1>1. UNCHANGED <<conn, lock, strategy, retries, beating, op, arg, tries, pc, mine, out, todo,
                  opened, payloads>>
  BY Zenon DEF ServerRead, HandleFrame, ServerWrite, ServerStops, Lose, Refill, vars, client,
               task, net, server, history
<1>2. Flags'
  <2>1. CASE UNCHANGED <<alive, serving>>
    BY <1>a, <1>1, <2>1, Zenon DEF Flags
  <2>2. CASE Lose(g)
    BY <1>a, <1>1, <2>2, Zenon DEF Flags, Lose, server
  <2>3. CASE ServerStops(g)
    BY <1>a, <1>1, <2>3, Zenon DEF Flags, ServerStops, net
  <2> QED
    BY <2>1, <2>2, <2>3, Zenon DEF ServerRead, HandleFrame, ServerWrite, Refill, vars, net, server
<1>3. TaskTypes' /\ Work' /\ Control'
  BY <1>a, <1>1, Zenon DEF TaskTypes, Work, Control
<1> QED
  BY <1>2, <1>3 DEF TaskInv

\* The lock on the connection is held exactly where client.rs reads or writes
\* the socket, and the heartbeat does nothing but ping.
THEOREM TaskInvariant == Spec => []TaskInv
<1>1. TaskInv /\ [Next]_vars => TaskInv'
  <2> SUFFICES ASSUME TaskInv, [Next]_vars PROVE TaskInv'
    OBVIOUS
  <2>1. ASSUME NEW t \in Tasks, ClientStep(t) PROVE TaskInv'
    <3>1. CASE \E n \in 1..WireCap : AckRead(t, n) \/ Read(t, n) \/ TimeOutInRecv(t, n)
      BY <3>1, TaskInvRecv
    <3>2. CASE AwaitAck(t) \/ Recv(t) \/ ReadFails(t) \/ TimeOut(t)
      BY <3>2, TaskInvRecv
    <3> QED
      BY <2>1, <3>1, <3>2, TaskInvCall, TaskInvConnect, TaskInvSend DEF ClientStep
  <2>2. ASSUME NEW g \in Conn, ServerStep(g) \/ ServerStops(g) \/ Lose(g) \/ Refill(g)
        PROVE  TaskInv'
    BY <2>2, TaskInvOther DEF ServerStep
  <2>3. CASE UNCHANGED vars
    BY <2>3, TaskInvOther
  <2> QED
    BY <2>1, <2>2, <2>3 DEF Next
<1> QED
  BY TaskInvInit, <1>1, PTL DEF Spec

-----------------------------------------------------------------------------
(* Steps that leave the sockets alone *)

sockets == <<conn, alive, opened, mine>>
streams == <<rbuf, up, down, sbuf, reply, written, got, hello>>

\* A task begins and ends a write, or installs a connection, only in other steps.
Quiet ==
  /\ UNCHANGED <<sockets, streams>>
  /\ \A g \in Conn : serving'[g] => serving[g]
  /\ \A t \in Tasks : /\ pc'[t] = "write2" => pc[t] = "write2" /\ out'[t] = out[t]
                      /\ pc[t] = "write2" /\ alive[conn] => pc'[t] = "write2"
                      /\ pc'[t] = "publish" <=> pc[t] = "publish"

\* One frame's worth of reading: bytes arrive, and a complete frame is taken.
Reading(t, n) ==
  /\ pc[t] \in {"ackRead", "read"} /\ Feed(n)
  /\ \/ rbuf' = [rbuf EXCEPT ![conn] = Fed(n)] /\ got' = got
     \/ /\ Complete(Fed(n))
        /\ rbuf' = [rbuf EXCEPT ![conn] = Drained(Fed(n))]
        /\ \/ got' = got
           \/ /\ First(Fed(n)).type = "DATA"
              /\ got' = [got EXCEPT ![conn] = Append(@, First(Fed(n)).data)]
  /\ UNCHANGED <<sockets, up, sbuf, reply, serving, written, hello>>
  /\ \A u \in Tasks : /\ pc'[u] = "write2" <=> pc[u] = "write2"
                      /\ pc'[u] = "publish" <=> pc[u] = "publish"
                      /\ out'[u] = out[u]

LEMMA ReadingSteps ==
  ASSUME TaskInv, NEW t \in Tasks, NEW n,
         AckRead(t, n) \/ Read(t, n) \/ TimeOutInRecv(t, n)
  PROVE  Reading(t, n)
<1>1. pc[t] \in {"ackRead", "read"} /\ Feed(n)
  BY Zenon DEF AckRead, Read, TimeOutInRecv
<1>2. UNCHANGED <<sockets, up, sbuf, reply, serving, written, hello, out>>
  BY Zenon DEF AckRead, Read, TimeOutInRecv, sockets, server, history
<1>3. \/ rbuf' = [rbuf EXCEPT ![conn] = Fed(n)] /\ got' = got
      \/ /\ Complete(Fed(n))
         /\ rbuf' = [rbuf EXCEPT ![conn] = Drained(Fed(n))]
         /\ \/ got' = got
            \/ /\ First(Fed(n)).type = "DATA"
               /\ got' = [got EXCEPT ![conn] = Append(@, First(Fed(n)).data)]
  BY Zenon DEF AckRead, Read, TimeOutInRecv, history
<1>4. pc' = pc \/ \E l \in {"idle", "beat", "recv", "retry"} : pc' = [pc EXCEPT ![t] = l]
  BY Zenon DEF AckRead, Read, TimeOutInRecv, To, ConnectFailed, Received
<1>5. pc \in [Tasks -> Labels]
  BY DEF TaskInv, TaskTypes
<1>6. ASSUME NEW u \in Tasks
      PROVE  /\ pc'[u] = "write2" <=> pc[u] = "write2"
             /\ pc'[u] = "publish" <=> pc[u] = "publish"
  BY <1>1, <1>4, <1>5
<1> QED
  BY <1>1, <1>2, <1>3, <1>6, Zenon DEF Reading

\* The effect of a step on the labels that matter to the sockets.
LEMMA QuietLabels ==
  ASSUME TaskInv, NEW t \in Tasks, NEW l, pc' = [pc EXCEPT ![t] = l],
         pc[t] \notin {"publish", "write2"} \/ (pc[t] = "write2" /\ ~alive[conn]),
         l \notin {"publish", "write2"},
         \A u \in Tasks \ {t} : out'[u] = out[u],
         UNCHANGED <<sockets, streams>>, \A g \in Conn : serving'[g] => serving[g]
  PROVE  Quiet
<1>1. pc \in [Tasks -> Labels]
  BY DEF TaskInv, TaskTypes
<1>2. ASSUME NEW u \in Tasks
      PROVE  /\ pc'[u] = "write2" => pc[u] = "write2" /\ out'[u] = out[u]
             /\ pc[u] = "write2" /\ alive[conn] => pc'[u] = "write2"
             /\ pc'[u] = "publish" <=> pc[u] = "publish"
  BY <1>1
<1> QED
  BY <1>2, Zenon DEF Quiet

QuietStep(t) ==
  \/ Call(t) \/ DialFails(t) \/ Reset(t) \/ StartHeartbeat(t) \/ AllocStream(t) \/ SendFrame(t)
  \/ WriteFails(t) \/ AwaitAck(t) \/ Recv(t) \/ ReadFails(t) \/ TimeOut(t) \/ Stop(t)
  \/ TakeStrategy(t) \/ Retry(t)

LEMMA QuietSteps == ASSUME TaskInv, NEW t \in Tasks, QuietStep(t) PROVE Quiet
<1>a. TaskTypes /\ Work /\ Control
  BY DEF TaskInv
<1>1. UNCHANGED <<sockets, streams, serving>>
  BY Zenon DEF QuietStep, Call, DialFails, Reset, StartHeartbeat, AllocStream, SendFrame,
     WriteFails, AwaitAck, Recv, ReadFails, TimeOut, Stop, TakeStrategy, Retry, sockets, streams,
     client, net, server, history
<1>2. pc[t] \notin {"publish", "write2"} \/ (pc[t] = "write2" /\ ~alive[conn])
  BY Zenon DEF QuietStep, Call, DialFails, Reset, StartHeartbeat, AllocStream, SendFrame,
     WriteFails, AwaitAck, Recv, ReadFails, TimeOut, Stop, TakeStrategy, Retry
<1>3. \A u \in Tasks \ {t} : out'[u] = out[u]
  <2>1. out' = out \/ \E f : out' = [out EXCEPT ![t] = f]
    BY Zenon DEF QuietStep, Call, DialFails, Reset, StartHeartbeat, AllocStream, SendFrame,
       WriteFails, AwaitAck, Recv, ReadFails, TimeOut, Stop, TakeStrategy, Retry
  <2> QED
    BY <1>a, <2>1 DEF Work
<1>b. /\ ConnectFailed(t) \in {"idle", "retry"} /\ SendFailed(t) \in {"idle", "strategy"}
      /\ Received(t, FALSE) \in {"idle", "recv"}
  BY DEF ConnectFailed, SendFailed, Received
<1>c. pc[t] \in Writing => NotSent(t) \in {"idle", "retry", "strategy", "drop"}
  <2> SUFFICES ASSUME pc[t] \in Writing
               PROVE  NotSent(t) \in {"idle", "retry", "strategy", "drop"}
    OBVIOUS
  <2>1. out[t] \in ClientFrame
    BY <1>a DEF Control
  <2>2. out[t].type \in {"HELLO", "DATA", "PING", "CLOSE"}
    BY <2>1 DEF ClientFrame
  <2> QED
    BY <1>b, <2>1, <2>2, NotSentTo
<1>4. PICK l \in Labels \ {"publish", "write2"} : pc' = [pc EXCEPT ![t] = l]
  <2>1. CASE Call(t)
    <3>1. Head(todo[t]) \in Methods \cup {"beat"}
      BY <1>a, <2>1, Names DEF Call, Work
    <3>2. Entry(Head(todo[t])) \in {"dial", "alloc", "recv", "frame", "stop", "strategy"}
      BY <3>1, EntryOf DEF Methods, Sends
    <3> QED
      BY <2>1, <3>2, Zenon DEF Call, To, Labels
  <2>2. CASE DialFails(t) \/ Reset(t) \/ StartHeartbeat(t) \/ AllocStream(t)
    BY <1>b, <2>2, Zenon DEF DialFails, Reset, StartHeartbeat, AllocStream, To, Labels
  <2>3. CASE SendFrame(t) \/ WriteFails(t)
    BY <1>c, <2>3, Zenon DEF SendFrame, WriteFails, To, Writing, Labels
  <2>4. CASE AwaitAck(t) \/ Recv(t) \/ ReadFails(t) \/ TimeOut(t)
    BY <1>b, <2>4, Zenon DEF AwaitAck, Recv, ReadFails, TimeOut, To, Labels
  <2>5. CASE Stop(t) \/ TakeStrategy(t) \/ Retry(t)
    BY <2>5, Zenon DEF Stop, TakeStrategy, Retry, To, Labels
  <2> QED
    BY <2>1, <2>2, <2>3, <2>4, <2>5 DEF QuietStep
<1> QED
  BY <1>1, <1>2, <1>3, <1>4, QuietLabels, Zenon

LEMMA QuietServer ==
  ASSUME TaskInv, NEW g, ServerStops(g) \/ Refill(g) \/ UNCHANGED vars PROVE Quiet
<1>1. UNCHANGED <<sockets, streams, pc, out>>
  BY Zenon DEF ServerStops, Refill, vars, client, task, net, server, history, sockets, streams
<1>2. \A h \in Conn : serving'[h] => serving[h]
  BY DEF ServerStops, Refill, vars, server, TaskInv, Flags
<1> QED
  BY <1>1, <1>2, Zenon DEF Quiet

\* Every step, by its effect on the sockets.
LEMMA NextSteps ==
  ASSUME TaskInv, [Next]_vars
  PROVE  \/ Quiet
         \/ \E t \in Tasks : \/ Dial(t) \/ Publish(t) \/ Drop(t) \/ Write1(t) \/ Write2(t)
                            \/ \E n \in Nat : Reading(t, n)
         \/ \E g \in Conn : \/ \E n \in Nat : ServerRead(g, n)
                            \/ HandleFrame(g) \/ ServerWrite(g) \/ Lose(g)
<1>1. \A n \in 1..WireCap : n \in Nat
  BY Bounds
<1>2. ASSUME NEW t \in Tasks, ClientStep(t)
      PROVE  \/ Quiet \/ Dial(t) \/ Publish(t) \/ Drop(t) \/ Write1(t) \/ Write2(t)
             \/ \E n \in Nat : Reading(t, n)
  <2>1. CASE QuietStep(t)
    BY <2>1, QuietSteps
  <2>2. CASE \E n \in 1..WireCap : AckRead(t, n) \/ Read(t, n) \/ TimeOutInRecv(t, n)
    BY <1>1, <2>2, ReadingSteps
  <2> QED
    BY <1>2, <2>1, <2>2, Zenon DEF ClientStep, QuietStep
<1>3. ASSUME NEW g \in Conn, ServerStep(g) \/ ServerStops(g) \/ Lose(g) \/ Refill(g)
      PROVE  \/ Quiet \/ \E n \in Nat : ServerRead(g, n)
             \/ HandleFrame(g) \/ ServerWrite(g) \/ Lose(g)
  BY <1>1, <1>3, QuietServer, Zenon DEF ServerStep
<1> QED
  BY <1>2, <1>3, QuietServer, Zenon DEF Next

-----------------------------------------------------------------------------
(* The sockets *)

\* Nothing is known of a connection that was not made yet.
Unused ==
  /\ conn <= opened /\ \A t \in Tasks : mine[t] <= opened
  /\ \A g \in Conn : g > opened =>
       /\ ~alive[g] /\ ~serving[g]
       /\ rbuf[g] = <<>> /\ up[g] = <<>> /\ down[g] = <<>> /\ sbuf[g] = <<>> /\ reply[g] = <<>>
       /\ written[g] = <<>> /\ got[g] = <<>>

StreamTypes ==
  /\ up \in [Conn -> Seq(ClientCell)] /\ sbuf \in [Conn -> Seq(ClientCell)]
  /\ rbuf \in [Conn -> Seq(ServerCell)] /\ down \in [Conn -> Seq(ServerCell)]
  /\ reply \in [Conn -> Seq(ServerCell)]
  /\ written \in [Conn -> Seq(Nat)] /\ got \in [Conn -> Seq(Nat)]
  /\ \A g \in Conn : Len(up[g]) <= WireCap /\ Len(down[g]) <= WireCap

SocketInv == Unused /\ StreamTypes /\ NoLeakedConnection

\* Both parts of a sequence that is cut after n elements.
LEMMA CutAt == ASSUME NEW S, NEW s \in Seq(S), NEW n \in 0..Len(s)
             PROVE  /\ SubSeq(s, 1, n) \in Seq(S) /\ Len(SubSeq(s, 1, n)) = n
                    /\ SubSeq(s, n + 1, Len(s)) \in Seq(S)
                    /\ Len(SubSeq(s, n + 1, Len(s))) = Len(s) - n
                    /\ \A i \in 1..n : SubSeq(s, 1, n)[i] = s[i]
                    /\ \A i \in 1..(Len(s) - n) : SubSeq(s, n + 1, Len(s))[i] = s[n + i]
<1>1. 1 \in 1..Len(s) + 1 /\ n + 1 \in 1..Len(s) + 1 /\ Len(s) \in n..Len(s)
  OBVIOUS
<1>2. /\ SubSeq(s, 1, n) \in Seq(S)
      /\ Len(SubSeq(s, 1, n)) = IF 1 <= n THEN n - 1 + 1 ELSE 0
      /\ \A i \in 1..(n - 1 + 1) : SubSeq(s, 1, n)[i] = s[1 + i - 1]
  BY <1>1
<1>3. /\ SubSeq(s, n + 1, Len(s)) \in Seq(S)
      /\ Len(SubSeq(s, n + 1, Len(s))) = IF n + 1 <= Len(s) THEN Len(s) - (n + 1) + 1 ELSE 0
      /\ \A i \in 1..(Len(s) - (n + 1) + 1) : SubSeq(s, n + 1, Len(s))[i] = s[n + 1 + i - 1]
  BY <1>1
<1> QED
  BY <1>2, <1>3

\* The stream a task reads.
LEMMA FedProperties ==
  ASSUME TaskInv, StreamTypes, NEW t \in Tasks, NEW n \in Nat, Reading(t, n)
  PROVE  /\ conn \in Conn /\ n \in 0..Len(down[conn])
         /\ Fed(n) \in Seq(ServerCell)
         /\ Complete(Fed(n)) => /\ Drained(Fed(n)) \in Seq(ServerCell)
                                /\ First(Fed(n)) \in ServerFrame
         /\ SubSeq(down[conn], n + 1, Len(down[conn])) \in Seq(ServerCell)
         /\ Len(SubSeq(down[conn], n + 1, Len(down[conn]))) <= WireCap
<1>1. conn \in Conn
  BY Names, Bounds DEF TaskInv, TaskTypes, Control, Reading, Critical, Conn
<1>2. n \in 0..Len(down[conn])
  <2>1. n <= Len(down[conn])
    BY Zenon DEF Reading, Feed
  <2>2. Len(down[conn]) \in Nat
    BY <1>1 DEF StreamTypes
  <2> QED
    BY <2>1, <2>2
<1>3. Fed(n) \in Seq(ServerCell)
  <2>1. SubSeq(down[conn], 1, n) \in Seq(ServerCell)
    BY <1>1, <1>2, CutAt DEF StreamTypes
  <2> QED
    BY <1>1, <2>1 DEF Fed, StreamTypes
<1>4. ASSUME Complete(Fed(n))
      PROVE  Drained(Fed(n)) \in Seq(ServerCell) /\ First(Fed(n)) \in ServerFrame
  <2>1. 2 \in 0..Len(Fed(n)) /\ Fed(n)[1] \in ServerCell
    BY <1>3, <1>4 DEF Complete
  <2>2. Drained(Fed(n)) \in Seq(ServerCell)
    BY <1>3, <2>1, CutAt DEF Drained
  <2> QED
    BY <2>1, <2>2 DEF First, ServerCell
<1>5. /\ SubSeq(down[conn], n + 1, Len(down[conn])) \in Seq(ServerCell)
      /\ Len(SubSeq(down[conn], n + 1, Len(down[conn]))) <= WireCap
  BY <1>1, <1>2, CutAt, Bounds DEF StreamTypes
<1> QED
  BY <1>1, <1>2, <1>3, <1>4, <1>5

\* What the handler answers.
LEMMA AnswerTypes ==
  ASSUME NEW f \in ClientFrame
  PROVE  /\ Answers(f) \subseteq ServerFrame
         /\ \A a \in Answers(f) : a.type = "DATA" =>
              f.type = "DATA" /\ a.data \in {f.data, 0}
<1>1. f.type \in {"HELLO", "DATA", "PING", "CLOSE"} /\ f.data \in Nat
      /\ f.key \in {"none", "client", "lz4"}
  BY DEF ClientFrame
<1>2. Decoded(f) \subseteq {f.data, 0}
  BY <1>1, Zenon DEF Decoded
<1>3. CASE f.type = "HELLO"
  <2>1. Answers(f) = {Frame("HELLO_ACK", 0, "none")}
    BY <1>3, Zenon DEF Answers
  <2> QED
    BY <2>1 DEF Frame, ServerFrame
<1>4. CASE f.type = "DATA"
  <2>1. Answers(f) = {Frame("DATA", d, "none") : d \in Decoded(f)}
    BY <1>4, Zenon DEF Answers
  <2> QED
    BY <1>1, <1>2, <1>4, <2>1 DEF Frame, ServerFrame
<1>5. CASE f.type = "PING"
  <2>1. Answers(f) = {Frame("PONG", 0, "none")}
    BY <1>5, Zenon DEF Answers
  <2> QED
    BY <2>1 DEF Frame, ServerFrame
<1>6. CASE f.type = "CLOSE"
  <2>1. Answers(f) = {}
    BY <1>6, Zenon DEF Answers
  <2> QED
    BY <2>1
<1> QED
  BY <1>1, <1>3, <1>4, <1>5, <1>6

\* The first frame in the handler's buffer.
LEMMA HandledProperties ==
  ASSUME TaskInv, StreamTypes, NEW g \in Conn, HandleFrame(g)
  PROVE  /\ sbuf[g] \in Seq(ClientCell) /\ Len(sbuf[g]) >= 2
         /\ First(sbuf[g]) \in ClientFrame
         /\ Drained(sbuf[g]) \in Seq(ClientCell)
         /\ reply[g] = <<>>
         /\ \/ reply' = reply
            \/ \E a \in Answers(First(sbuf[g])) : reply' = [reply EXCEPT ![g] = Cells(a)]
         /\ \A a \in Answers(First(sbuf[g])) : Cells(a) \in Seq(ServerCell)
<1>1. sbuf[g] \in Seq(ClientCell) /\ Len(sbuf[g]) >= 2 /\ reply[g] = <<>>
  BY DEF HandleFrame, StreamTypes, Complete
<1>2. First(sbuf[g]) \in ClientFrame
  <2>1. sbuf[g][1] \in ClientCell
    BY <1>1
  <2> QED
    BY <2>1 DEF First, ClientCell
<1>3. Drained(sbuf[g]) \in Seq(ClientCell)
  <2>1. 2 \in 0..Len(sbuf[g])
    BY <1>1
  <2> QED
    BY <1>1, <2>1, CutAt DEF Drained
<1>4. \/ reply' = reply
      \/ \E a \in Answers(First(sbuf[g])) : reply' = [reply EXCEPT ![g] = Cells(a)]
  BY Zenon DEF HandleFrame
<1>5. ASSUME NEW a \in Answers(First(sbuf[g])) PROVE Cells(a) \in Seq(ServerCell)
  <2>1. a \in ServerFrame
    BY <1>2, AnswerTypes
  <2> QED
    BY <2>1 DEF Cells, ServerCell
<1> QED
  BY <1>1, <1>2, <1>3, <1>4, <1>5

LEMMA SocketInvInit == Init => SocketInv
<1> SUFFICES ASSUME Init PROVE SocketInv
  OBVIOUS
<1>1. Unused /\ NoLeakedConnection
  BY Bounds DEF Init, Unused, NoLeakedConnection, Conn
<1>2. StreamTypes
  BY Bounds DEF Init, StreamTypes
<1> QED
  BY <1>1, <1>2 DEF SocketInv

LEMMA SocketInvQuiet == ASSUME TaskInv, SocketInv, Quiet PROVE SocketInv'
<1>1. Unused'
  BY DEF SocketInv, Quiet, Unused, sockets, streams
<1>2. StreamTypes'
  BY Zenon DEF SocketInv, Quiet, StreamTypes, sockets, streams
<1>3. NoLeakedConnection'
  BY Zenon DEF SocketInv, Quiet, NoLeakedConnection, sockets, streams
<1> QED
  BY <1>1, <1>2, <1>3 DEF SocketInv

\* The steps that open, install and lose connections.
LEMMA SocketInvOpen ==
  ASSUME TaskInv, SocketInv, NEW t \in Tasks, NEW g,
         Dial(t) \/ Publish(t) \/ Drop(t) \/ Lose(g)
  PROVE  SocketInv'
<1>a. TaskTypes /\ Flags /\ Unused /\ StreamTypes /\ NoLeakedConnection
  BY DEF TaskInv, SocketInv
<1>b. UNCHANGED streams
  BY Zenon DEF Dial, Publish, Drop, Lose, Install, streams, client, net, server, history
<1>c. UNCHANGED <<rbuf, up, down, sbuf, reply, written, got>>
  BY <1>b DEF streams
<1>1. StreamTypes'
  BY <1>a, <1>c DEF StreamTypes
<1>2. CASE Dial(t)
  <2>1. /\ opened < MaxConns /\ opened' = opened + 1 /\ conn' = conn
        /\ mine' = [mine EXCEPT ![t] = opened + 1]
        /\ pc[t] = "dial" /\ pc' = [pc EXCEPT ![t] = "publish"]
    BY <1>2, Zenon DEF Dial, client, To
  <2>2. ASSUME NEW h \in Conn, h # opened + 1
        PROVE  alive'[h] = alive[h] /\ serving'[h] = serving[h]
    BY <1>2, <1>a, <2>2, Zenon DEF Dial, Flags
  <2>3. Unused'
    <3>1. conn' <= opened' /\ \A u \in Tasks : mine'[u] <= opened'
      BY <1>a, <2>1, Bounds DEF Unused, TaskTypes
    <3>2. ASSUME NEW h \in Conn, h > opened' PROVE h > opened /\ h # opened + 1
      BY <1>a, <2>1, <3>2 DEF TaskTypes, Conn
    <3> QED
      BY <1>a, <1>c, <2>2, <3>1, <3>2, Zenon DEF Unused
  <2>4. NoLeakedConnection'
    <3> SUFFICES ASSUME NEW h \in Conn, alive'[h]
                 PROVE  conn' = h \/ \E u \in Tasks : mine'[u] = h /\ pc'[u] = "publish"
      BY Zenon DEF NoLeakedConnection
    <3>1. CASE h = opened + 1
      BY <1>a, <2>1, <3>1 DEF TaskTypes
    <3>2. CASE h # opened + 1
      BY <1>a, <2>1, <2>2, <3>2, Zenon DEF TaskTypes, NoLeakedConnection
    <3> QED
      BY <3>1, <3>2, Zenon
  <2> QED
    BY <1>1, <2>3, <2>4 DEF SocketInv
<1>3. CASE Publish(t)
  <2>1. /\ conn' = mine[t] /\ UNCHANGED <<mine, opened, serving>>
        /\ pc' = [pc EXCEPT ![t] = "reset"] /\ pc[t] = "publish"
        /\ alive' = [h \in Conn |-> alive[h] /\ h # conn]
    BY <1>3, Zenon DEF Publish, Install, To, server
  <2>2. Unused'
    BY <1>a, <1>c, <2>1, Zenon DEF Unused, TaskTypes
  <2>3. NoLeakedConnection'
    BY <1>a, <2>1, Zenon DEF TaskTypes, NoLeakedConnection
  <2> QED
    BY <1>1, <2>2, <2>3 DEF SocketInv
<1>4. CASE Drop(t)
  <2>1. /\ conn' = 0 /\ UNCHANGED <<mine, opened, serving>>
        /\ pc' = [pc EXCEPT ![t] = "idle"] /\ pc[t] = "drop"
        /\ alive' = [h \in Conn |-> alive[h] /\ h # conn]
    BY <1>4, Zenon DEF Drop, Install, To, server
  <2>2. Unused'
    <3>1. conn' <= opened' /\ \A u \in Tasks : mine'[u] <= opened'
      BY <1>a, <2>1, Handle, Zenon DEF Unused, TaskTypes
    <3>2. \A h \in Conn : alive'[h] => alive[h]
      BY <2>1, Zenon
    <3> QED
      BY <1>a, <1>c, <2>1, <3>1, <3>2, Zenon DEF Unused
  <2>3. NoLeakedConnection'
    BY <1>a, <2>1, Zenon DEF TaskTypes, NoLeakedConnection
  <2> QED
    BY <1>1, <2>2, <2>3 DEF SocketInv
<1>5. CASE Lose(g)
  <2>1. /\ UNCHANGED <<conn, mine, opened, serving, pc>>
        /\ alive' = [alive EXCEPT ![g] = FALSE]
    BY <1>5, Zenon DEF Lose, client, task, server
  <2>2. \A h \in Conn : alive'[h] => alive[h]
    BY <1>a, <2>1, Zenon DEF Flags
  <2>3. Unused'
    BY <1>a, <1>c, <2>1, <2>2, Zenon DEF Unused
  <2>4. NoLeakedConnection'
    BY <1>a, <2>1, <2>2, Zenon DEF NoLeakedConnection
  <2> QED
    BY <1>1, <2>3, <2>4 DEF SocketInv
<1> QED
  BY <1>2, <1>3, <1>4, <1>5

\* A step that only moves bytes of a connection that was made.
LEMMA SocketInvMove ==
  ASSUME TaskInv, SocketInv, NEW g \in Conn, g <= opened, StreamTypes', UNCHANGED <<sockets, serving>>,
         \A h \in Conn \ {g} :
           /\ rbuf'[h] = rbuf[h] /\ up'[h] = up[h] /\ down'[h] = down[h]
           /\ sbuf'[h] = sbuf[h] /\ reply'[h] = reply[h]
           /\ written'[h] = written[h] /\ got'[h] = got[h],
         \A u \in Tasks : pc'[u] = "publish" <=> pc[u] = "publish"
  PROVE  SocketInv'
<1>1. UNCHANGED <<conn, alive, opened, mine, serving>>
  BY Zenon DEF sockets
<1>2. Unused'
  <2>1. ASSUME NEW h \in Conn, h > opened PROVE h # g
    <3>1. opened \in 0..MaxConns
      BY Zenon DEF TaskInv, TaskTypes
    <3> QED
      BY <2>1, <3>1, NotAbove, Zenon
  <2> QED
    BY <1>1, <2>1, Zenon DEF SocketInv, Unused
<1>3. NoLeakedConnection'
  BY <1>1, Zenon DEF SocketInv, NoLeakedConnection
<1> QED
  BY <1>2, <1>3, Zenon DEF SocketInv

\* The bytes a task reads and writes.
LEMMA SocketInvTask ==
  ASSUME TaskInv, SocketInv, NEW t \in Tasks, NEW n \in Nat,
         Write1(t) \/ Write2(t) \/ Reading(t, n)
  PROVE  SocketInv'
<1>a. TaskTypes /\ Control /\ Work /\ Unused /\ StreamTypes
  BY DEF TaskInv, SocketInv
<1>b. conn \in Conn /\ conn <= opened
  <2>1. pc[t] \in Critical
    BY Zenon DEF Write1, Write2, Reading, Critical
  <2>2. conn # 0
    BY <1>a, <2>1, Names, Zenon DEF Control
  <2>3. conn \in 0..MaxConns /\ conn <= opened
    BY <1>a, Zenon DEF TaskTypes, Unused
  <2> QED
    BY <2>2, <2>3, Handle, Zenon
<1>1. CASE Write1(t) \/ Write2(t)
  <2>1. out[t] \in ClientFrame /\ Cells(out[t])[1] \in ClientCell /\ Cells(out[t])[2] \in ClientCell
        /\ (out[t] \in ClientFrame => out[t].data \in Nat)
    <3>1. out[t] \in ClientFrame
      BY <1>1, <1>a, Zenon DEF Write1, Write2, Control, Writing
    <3> QED
      BY <3>1 DEF Cells, ClientCell, ClientFrame
  <2>2. PICK c \in ClientCell : up' = [up EXCEPT ![conn] = Append(@, c)]
    BY <1>1, <2>1, Zenon DEF Write1, Write2
  <2>3. \/ written' = written
        \/ \E d \in Nat : written' = [written EXCEPT ![conn] = Append(@, d)]
    BY <1>1, <2>1, Zenon DEF Write1, Write2, history
  <2>4. UNCHANGED <<sockets, serving, rbuf, down, sbuf, reply, got>> /\ Len(up[conn]) < WireCap
    BY <1>1, Zenon DEF Write1, Write2, sockets, client, server, history
  <2>5. StreamTypes'
    <3>1. up' \in [Conn -> Seq(ClientCell)] /\ \A h \in Conn : Len(up'[h]) <= WireCap
      BY <1>a, <1>b, <2>2, <2>4, Bounds DEF StreamTypes
    <3>2. written' \in [Conn -> Seq(Nat)]
      <4>1. ASSUME NEW d \in Nat, written' = [written EXCEPT ![conn] = Append(@, d)]
            PROVE  written' \in [Conn -> Seq(Nat)]
        BY <1>a, <1>b, <4>1 DEF StreamTypes
      <4> QED
        BY <1>a, <2>3, <4>1, Zenon DEF StreamTypes
    <3> QED
      BY <1>a, <2>4, <3>1, <3>2 DEF StreamTypes
  <2>6. \A u \in Tasks : pc'[u] = "publish" <=> pc[u] = "publish"
    <3>1. pc[t] \in {"write1", "write2"}
      BY <1>1, Zenon DEF Write1, Write2
    <3>2. Sent(t) \in {"idle", "ack", "recv", "drop"}
      <4>1. out[t].type \in {"HELLO", "DATA", "PING", "CLOSE"}
        BY <2>1, Zenon DEF ClientFrame
      <4> QED
        BY <2>1, <4>1, SentTo
    <3>3. \E l \in {"write2", "idle", "ack", "recv", "drop"} : pc' = [pc EXCEPT ![t] = l]
      BY <1>1, <3>2, Zenon DEF Write1, Write2, To
    <3> QED
      BY <1>a, <3>1, <3>3 DEF TaskTypes
  <2>7. \A h \in Conn \ {conn} : up'[h] = up[h] /\ written'[h] = written[h]
    BY <1>a, <2>2, <2>3 DEF StreamTypes
  <2> QED
    BY <1>b, <2>4, <2>5, <2>6, <2>7, SocketInvMove, Zenon
<1>2. CASE Reading(t, n)
  <2>1. /\ UNCHANGED <<sockets, up, sbuf, reply, serving, written>>
        /\ down' = [down EXCEPT ![conn] = SubSeq(@, n + 1, Len(@))]
        /\ \A u \in Tasks : pc'[u] = "publish" <=> pc[u] = "publish"
    BY <1>2, Zenon DEF Reading, Feed
  <2>2. \E s \in Seq(ServerCell) : rbuf' = [rbuf EXCEPT ![conn] = s]
    BY <1>2, <1>a, FedProperties, Zenon DEF Reading
  <2>3. \/ got' = got
        \/ \E d \in Nat : got' = [got EXCEPT ![conn] = Append(@, d)]
    <3>1. Complete(Fed(n)) => First(Fed(n)).data \in Nat
      BY <1>2, <1>a, FedProperties DEF ServerFrame
    <3> QED
      BY <1>2, <3>1, Zenon DEF Reading
  <2>4. StreamTypes'
    <3>1. down' \in [Conn -> Seq(ServerCell)] /\ \A h \in Conn : Len(down'[h]) <= WireCap
      BY <1>2, <1>a, <1>b, <2>1, FedProperties, Zenon DEF StreamTypes
    <3>2. rbuf' \in [Conn -> Seq(ServerCell)]
      BY <1>a, <1>b, <2>2 DEF StreamTypes
    <3>3. got' \in [Conn -> Seq(Nat)]
      <4>1. ASSUME NEW d \in Nat, got' = [got EXCEPT ![conn] = Append(@, d)]
            PROVE  got' \in [Conn -> Seq(Nat)]
        BY <1>a, <1>b, <4>1 DEF StreamTypes
      <4> QED
        BY <1>a, <2>3, <4>1, Zenon DEF StreamTypes
    <3> QED
      BY <1>a, <2>1, <3>1, <3>2, <3>3, Zenon DEF StreamTypes
  <2>5. \A h \in Conn \ {conn} : rbuf'[h] = rbuf[h] /\ down'[h] = down[h] /\ got'[h] = got[h]
    BY <1>a, <2>1, <2>2, <2>3, Zenon DEF StreamTypes
  <2> QED
    BY <1>b, <2>1, <2>4, <2>5, SocketInvMove, Zenon
<1> QED
  BY <1>1, <1>2

\* The bytes the handler reads and writes.
LEMMA SocketInvHandler ==
  ASSUME TaskInv, SocketInv, NEW g \in Conn, NEW n \in Nat,
         ServerRead(g, n) \/ HandleFrame(g) \/ ServerWrite(g)
  PROVE  SocketInv'
<1>a. StreamTypes /\ g <= opened
  <2>1. serving[g]
    BY Zenon DEF ServerRead, HandleFrame, ServerWrite
  <2>2. Unused /\ StreamTypes /\ g \in Nat /\ opened \in Nat
    BY Bounds DEF SocketInv, TaskInv, TaskTypes, Conn
  <2>3. ~(g > opened)
    BY <2>1, <2>2, Zenon DEF Unused
  <2> QED
    BY <2>2, <2>3
<1>b. UNCHANGED <<sockets, serving, pc, rbuf, written, got>>
  BY Zenon DEF ServerRead, HandleFrame, ServerWrite, sockets, client, task, net, history
<1>c. ASSUME StreamTypes',
             \A h \in Conn \ {g} : /\ up'[h] = up[h] /\ down'[h] = down[h]
                                   /\ sbuf'[h] = sbuf[h] /\ reply'[h] = reply[h]
      PROVE  SocketInv'
  BY <1>a, <1>b, <1>c, SocketInvMove
<1>1. CASE ServerRead(g, n)
  <2>1. /\ UNCHANGED <<down, reply>> /\ n \in 0..Len(up[g])
        /\ sbuf' = [sbuf EXCEPT ![g] = @ \o SubSeq(up[g], 1, n)]
        /\ up' = [up EXCEPT ![g] = SubSeq(@, n + 1, Len(@))]
    BY <1>1, <1>a DEF ServerRead, StreamTypes
  <2>2. /\ SubSeq(up[g], 1, n) \in Seq(ClientCell)
        /\ SubSeq(up[g], n + 1, Len(up[g])) \in Seq(ClientCell)
        /\ Len(SubSeq(up[g], n + 1, Len(up[g]))) <= WireCap
    <3>1. PICK p \in Seq(ClientCell) : p = up[g]
      BY <1>a, Zenon DEF StreamTypes
    <3>2. Len(p) \in Nat /\ Len(p) <= WireCap /\ n \in 0..Len(p) /\ WireCap \in Nat
      BY <1>a, <2>1, <3>1, Bounds DEF StreamTypes
    <3>3. /\ SubSeq(p, 1, n) \in Seq(ClientCell) /\ SubSeq(p, n + 1, Len(p)) \in Seq(ClientCell)
          /\ Len(SubSeq(p, n + 1, Len(p))) = Len(p) - n
      BY <3>2, CutAt, Zenon
    <3> QED
      BY <3>1, <3>2, <3>3
  <2>3. sbuf[g] \o SubSeq(up[g], 1, n) \in Seq(ClientCell)
    BY <1>a, <2>2 DEF StreamTypes
  <2>4. StreamTypes'
    BY <1>a, <1>b, <2>1, <2>2, <2>3 DEF StreamTypes
  <2> QED
    BY <1>a, <1>c, <2>1, <2>4 DEF StreamTypes
<1>2. CASE HandleFrame(g)
  <2>1. UNCHANGED <<up, down>> /\ sbuf' = [sbuf EXCEPT ![g] = Drained(@)]
    BY <1>2, Zenon DEF HandleFrame, net
  <2>2. reply' = reply \/ \E s \in Seq(ServerCell) : reply' = [reply EXCEPT ![g] = s]
    BY <1>2, <1>a, HandledProperties, Zenon
  <2>3. Drained(sbuf[g]) \in Seq(ClientCell)
    BY <1>2, <1>a, HandledProperties, Zenon
  <2>4. StreamTypes'
    BY <1>a, <1>b, <2>1, <2>2, <2>3, Zenon DEF StreamTypes
  <2>5. \A h \in Conn \ {g} : sbuf'[h] = sbuf[h] /\ reply'[h] = reply[h]
    BY <1>a, <2>1, <2>2, Zenon DEF StreamTypes
  <2> QED
    BY <1>c, <2>1, <2>4, <2>5, Zenon
<1>3. CASE ServerWrite(g)
  <2>1. UNCHANGED <<up, sbuf>> /\ reply[g] # <<>>
    BY <1>3, Zenon DEF ServerWrite
  <2>2. CASE /\ Len(down[g]) < WireCap
             /\ down' = [down EXCEPT ![g] = Append(@, Head(reply[g]))]
             /\ reply' = [reply EXCEPT ![g] = Tail(@)]
    <3>1. Head(reply[g]) \in ServerCell /\ Tail(reply[g]) \in Seq(ServerCell)
      BY <1>a, <2>1 DEF StreamTypes
    <3>2. StreamTypes'
      BY <1>a, <1>b, <2>1, <2>2, <3>1, Bounds DEF StreamTypes
    <3> QED
      BY <1>a, <1>c, <2>1, <2>2, <3>2 DEF StreamTypes
  <2>3. CASE reply' = [reply EXCEPT ![g] = <<>>] /\ down' = down
    <3>1. StreamTypes'
      BY <1>a, <1>b, <2>1, <2>3 DEF StreamTypes
    <3> QED
      BY <1>a, <1>c, <2>1, <2>3, <3>1 DEF StreamTypes
  <2> QED
    BY <1>3, <2>2, <2>3, Zenon DEF ServerWrite
<1> QED
  BY <1>1, <1>2, <1>3

\* connect_internal, close and reconnect account for every socket they open.
THEOREM SocketInvariant == Spec => []SocketInv
<1>1. TaskInv /\ SocketInv /\ [Next]_vars => SocketInv'
  <2> SUFFICES ASSUME TaskInv, SocketInv, [Next]_vars PROVE SocketInv'
    OBVIOUS
  <2>1. ASSUME NEW t \in Tasks, NEW n \in Nat,
               Dial(t) \/ Publish(t) \/ Drop(t) \/ Write1(t) \/ Write2(t) \/ Reading(t, n)
        PROVE  SocketInv'
    BY <2>1, SocketInvOpen, SocketInvTask, Zenon
  <2>2. ASSUME NEW g \in Conn, NEW n \in Nat,
               ServerRead(g, n) \/ HandleFrame(g) \/ ServerWrite(g) \/ Lose(g)
        PROVE  SocketInv'
    BY <2>2, Names, SocketInvOpen, SocketInvHandler, Zenon
  <2>3. 0 \in Nat
    OBVIOUS
  <2> QED
    BY <2>1, <2>2, <2>3, NextSteps, SocketInvQuiet, Zenon
<1> QED
  BY SocketInvInit, TaskInvariant, <1>1, PTL DEF Spec

\* The types, the holder of the lock on the connection, and the bounds of the
\* socket buffers.
THEOREM Typed == Spec => []TypeOK
<1>1. TaskInv /\ SocketInv => TypeOK
  BY DEF TaskInv, TaskTypes, Flags, Control, Critical, SocketInv, StreamTypes, TypeOK
<1> QED
  BY TaskInvariant, SocketInvariant, <1>1, PTL

\* No connect or reconnect that overlaps another leaves its socket open: an open
\* connection is the client's own or about to be installed by connect_internal.
THEOREM NoLeak == Spec => []NoLeakedConnection
<1>1. SocketInv => NoLeakedConnection
  BY DEF SocketInv
<1> QED
  BY SocketInvariant, <1>1, PTL

=============================================================================
