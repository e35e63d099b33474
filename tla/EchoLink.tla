------------------------------ MODULE EchoLink -------------------------------
(***************************************************************************)
(* The client of client/src/webbou/client.rs talking to the echo handler   *)
(* of server/webbou/server.go over TCP connections.                        *)
(*                                                                         *)
(* Tasks share one WebBouClient.  Each runs a list of its methods; the     *)
(* heartbeat task runs the "beat"s of heartbeat.rs.  A step ends where the *)
(* method awaits a lock or the socket, or gives up a lock.  The RwLocks on *)
(* connection and reconnect_strategy are only ever taken for writing.  The *)
(* locks on stats, health and last_activity are innermost and are left out.*)
(***************************************************************************)
EXTENDS Integers, Sequences, EchoFrames

CONSTANTS
  Apps,         \* application tasks that share the client
  hb,           \* the heartbeat task
  free,         \* a lock nobody holds
  Workloads,    \* the lists of methods the tasks may be given, [Tasks -> Seq]
  MaxConns,     \* bound on the connections ever established
  MaxRetries,   \* ReconnectStrategy::new(max_retries)
  WireCap,      \* cells that fit in the socket buffers of one direction
  IPTokens      \* frames the rate limiter admits from one remote address

Tasks == Apps \cup {hb}
Conn == 1..MaxConns

\* The methods of WebBouClient an application calls.
Sends == {"send", "sealedSend", "packedSend", "retrySend"}
Methods == {"connect", "recv", "timedRecv", "ping", "close", "reconnect"} \cup Sends

ASSUME LinkAssumption ==
  /\ hb \notin Apps /\ free \notin Tasks
  /\ MaxConns \in Nat /\ MaxRetries \in Nat /\ WireCap \in Nat /\ IPTokens \in Nat
  /\ \A w \in Workloads :
       /\ DOMAIN w = Tasks
       /\ w[hb] \in Seq({"beat"})
       /\ \A t \in Apps : w[t] \in Seq(Methods)

VARIABLES
  \* WebBouClient
  conn,       \* the connection, 0 for None
  lock,       \* holder of the lock on it
  strategy,   \* holder of the lock on reconnect_strategy
  retries,    \* current_retry
  rbuf,       \* buffer of each connection's FrameReader
  beating,    \* heartbeat.is_running
  \* The tasks
  todo, op, arg, pc, out, mine, tries,
  \* TCP connections: how many so far, open or not, bytes in flight
  opened, alive, up, down,
  \* Handler of each connection on the server
  serving, sbuf, reply, tokens,
  \* History: payloads numbered, those written on and returned from each
  \* connection, whether HELLO was written
  payloads, written, got, hello

client == <<conn, lock, strategy, retries, rbuf, beating>>
task == <<todo, op, arg, pc, out, mine, tries>>
net == <<opened, alive, up, down>>
server == <<serving, sbuf, reply, tokens>>
history == <<payloads, written, got, hello>>
vars == <<client, task, net, server, history>>

Init ==
  /\ conn = 0 /\ lock = free /\ strategy = free /\ retries = 0
  /\ rbuf = [g \in Conn |-> <<>>] /\ beating = FALSE
  /\ todo \in Workloads
  /\ op = [t \in Tasks |-> "none"] /\ arg = [t \in Tasks |-> 0]
  /\ pc = [t \in Tasks |-> "idle"]
  /\ out = [t \in Tasks |-> NoFrame]
  /\ mine = [t \in Tasks |-> 0] /\ tries = [t \in Tasks |-> 0]
  /\ opened = 0 /\ alive = [g \in Conn |-> FALSE]
  /\ up = [g \in Conn |-> <<>>] /\ down = [g \in Conn |-> <<>>]
  /\ serving = [g \in Conn |-> FALSE]
  /\ sbuf = [g \in Conn |-> <<>>] /\ reply = [g \in Conn |-> <<>>]
  /\ tokens = [g \in Conn |-> IPTokens]
  /\ payloads = 0
  /\ written = [g \in Conn |-> <<>>] /\ got = [g \in Conn |-> <<>>]
  /\ hello = [g \in Conn |-> FALSE]

-----------------------------------------------------------------------------
(* Where a method continues *)

To(t, label) == pc' = [pc EXCEPT ![t] = label]

\* connect_internal failed: connect returns, reconnect tries again.
ConnectFailed(t) == IF op[t] = "connect" THEN "idle" ELSE "retry"

\* send failed: send returns, send_with_retry reconnects up to two times.
SendFailed(t) == IF op[t] = "retrySend" /\ tries[t] + 1 < 3 THEN "strategy" ELSE "idle"

\* send_frame returned Ok or Err.
Sent(t) == CASE out[t].type = "HELLO"  -> "ack"
             [] out[t].type = "DATA"   -> "idle"
             [] out[t].type = "PING"   -> IF t = hb THEN "idle" ELSE "recv"
             [] out[t].type = "CLOSE"  -> "drop"
NotSent(t) == CASE out[t].type = "HELLO" -> ConnectFailed(t)
                [] out[t].type = "DATA"  -> SendFailed(t)
                [] out[t].type = "PING"  -> "idle"
                [] out[t].type = "CLOSE" -> "drop"

\* send_with_retry counts the sends that failed, not the handshakes.
CountFailure(t) == tries' = [tries EXCEPT ![t] = IF out[t].type = "DATA" THEN @ + 1 ELSE @]

\* recv returned Ok(empty) or anything else: ping loops until the former.
Received(t, empty) == IF op[t] = "ping" /\ ~empty THEN "recv" ELSE "idle"

Entry(m) == CASE m = "connect" -> "dial"
              [] m \in Sends -> "alloc"
              [] m \in {"recv", "timedRecv"} -> "recv"
              [] m \in {"ping", "beat"} -> "frame"
              [] m = "close" -> "stop"
              [] m = "reconnect" -> "strategy"

\* A task calls its next method; each send has a payload of its own.
Call(t) == LET m == Head(todo[t]) IN
  /\ pc[t] = "idle" /\ todo[t] # <<>>
  /\ t = hb => beating
  /\ op' = [op EXCEPT ![t] = m]
  /\ To(t, Entry(m))
  /\ out' = [out EXCEPT ![t] = Frame("PING", 0, "none")]
  /\ payloads' = IF m \in Sends THEN payloads + 1 ELSE payloads
  /\ arg' = [arg EXCEPT ![t] = IF m \in Sends THEN payloads + 1 ELSE 0]
  /\ todo' = [todo EXCEPT ![t] = Tail(@)]
  /\ tries' = [tries EXCEPT ![t] = 0]
  /\ UNCHANGED <<client, mine, net, server, written, got, hello>>

-----------------------------------------------------------------------------
(* connect_internal *)

\* TcpStream::connect and the TLS handshake; the server's handler starts.
Dial(t) ==
  /\ pc[t] = "dial"
  /\ opened < MaxConns
  /\ opened' = opened + 1
  /\ mine' = [mine EXCEPT ![t] = opened + 1]
  /\ alive' = [alive EXCEPT ![opened + 1] = TRUE]
  /\ serving' = [serving EXCEPT ![opened + 1] = TRUE]
  /\ To(t, "publish")
  /\ UNCHANGED <<client, todo, op, arg, out, tries, up, down, sbuf, reply, tokens, history>>

DialFails(t) ==
  /\ pc[t] = "dial"
  /\ To(t, ConnectFailed(t))
  /\ UNCHANGED <<client, todo, op, arg, out, mine, tries, net, server, history>>

Keeping_Install(g) == lock = free /\ conn' = g /\ alive' = alive

\* Replacing or dropping the connection closes the old one.
Install(g) ==
  /\ lock = free
  /\ conn' = g
  /\ alive' = [h \in Conn |-> alive[h] /\ h # conn]

\* self.connection is set before the handshake.
Publish(t) ==
  /\ pc[t] = "publish"
  /\ Install(mine[t])
  /\ To(t, "reset")
  /\ UNCHANGED <<lock, strategy, retries, rbuf, beating, todo, op, arg, out, mine, tries,
                 opened, up, down, server, history>>

\* ReconnectStrategy; the delay of wait is left out.
reset == retries' = 0
should_retry == retries < MaxRetries
wait == retries' = retries + 1

Unshaken_Reset(t) ==
  /\ pc[t] = "reset" /\ strategy = free
  /\ reset
  /\ To(t, "beat")
  /\ UNCHANGED <<conn, lock, strategy, rbuf, beating, todo, op, arg, out, mine, tries, net, server, history>>

\* reconnect_strategy.write().await.reset()
Reset(t) ==
  /\ pc[t] = "reset" /\ strategy = free
  /\ reset
  /\ out' = [out EXCEPT ![t] = Frame("HELLO", 0, "none")]
  /\ To(t, "frame")
  /\ UNCHANGED <<conn, lock, strategy, rbuf, beating, todo, op, arg, mine, tries, net, server, history>>

\* The handshake is over: start_heartbeat.
StartHeartbeat(t) ==
  /\ pc[t] = "beat"
  /\ beating' = TRUE
  /\ strategy' = IF strategy = t THEN free ELSE strategy
  /\ To(t, IF op[t] = "retrySend" THEN "alloc" ELSE "idle")
  /\ UNCHANGED <<conn, lock, retries, rbuf, todo, op, arg, out, mine, tries, net, server, history>>

-----------------------------------------------------------------------------
(* send and send_frame *)

Key(m) == CASE m = "sealedSend" -> "client" [] m = "packedSend" -> "lz4" [] OTHER -> "none"

\* The first half of send: number the stream, then give up the lock.
AllocStream(t) ==
  /\ pc[t] = "alloc" /\ lock = free
  /\ \/ /\ conn = 0
        /\ To(t, SendFailed(t))
        /\ tries' = [tries EXCEPT ![t] = @ + 1]
        /\ UNCHANGED out
     \/ /\ conn # 0
        /\ To(t, "frame")
        /\ out' = [out EXCEPT ![t] = Frame("DATA", arg[t], Key(op[t]))]
        /\ UNCHANGED tries
  /\ UNCHANGED <<client, todo, op, arg, mine, net, server, history>>

\* send_frame, and the send_fn of the heartbeat: take the lock ...
SendFrame(t) ==
  /\ pc[t] = "frame" /\ lock = free
  /\ \/ /\ conn = 0
        /\ To(t, NotSent(t)) /\ CountFailure(t)
        /\ UNCHANGED lock
     \/ /\ conn # 0
        /\ lock' = t
        /\ To(t, "write1")
        /\ UNCHANGED tries
  /\ UNCHANGED <<conn, strategy, retries, rbuf, beating, todo, op, arg, out, mine, net, server, history>>

\* ... and write_all, which waits for room in the socket buffer.
Write1(t) ==
  /\ pc[t] = "write1" /\ alive[conn] /\ Len(up[conn]) < WireCap
  /\ up' = [up EXCEPT ![conn] = Append(@, Cells(out[t])[1])]
  /\ To(t, "write2")
  /\ UNCHANGED <<client, todo, op, arg, out, mine, tries, opened, alive, down, server, history>>

Write2(t) ==
  /\ pc[t] = "write2" /\ alive[conn] /\ Len(up[conn]) < WireCap
  /\ up' = [up EXCEPT ![conn] = Append(@, Cells(out[t])[2])]
  /\ lock' = free
  /\ To(t, Sent(t))
  /\ written' = IF out[t].type = "DATA"
                THEN [written EXCEPT ![conn] = Append(@, out[t].data)] ELSE written
  /\ hello' = IF out[t].type = "HELLO" THEN [hello EXCEPT ![conn] = TRUE] ELSE hello
  /\ UNCHANGED <<conn, strategy, retries, rbuf, beating, todo, op, arg, out, mine, tries,
                 opened, alive, down, server, payloads, got>>

\* The connection is gone; a heartbeat whose ping fails stops.
WriteFails(t) ==
  /\ pc[t] \in {"write1", "write2"} /\ ~alive[conn]
  /\ lock' = free
  /\ To(t, NotSent(t)) /\ CountFailure(t)
  /\ beating' = (beating /\ t # hb)
  /\ UNCHANGED <<conn, strategy, retries, rbuf, todo, op, arg, out, mine, net, server, history>>

-----------------------------------------------------------------------------
(* expect_handshake_ack, recv, and the recv loop of ping.  All hold the lock *)
(* while they wait for bytes, and wait before they look at the buffer.       *)

AwaitAck(t) ==
  /\ pc[t] = "ack" /\ lock = free
  /\ \/ conn = 0 /\ To(t, ConnectFailed(t)) /\ UNCHANGED lock
     \/ conn # 0 /\ To(t, "ackRead") /\ lock' = t
  /\ UNCHANGED <<conn, strategy, retries, rbuf, beating, todo, op, arg, out, mine, tries,
                 net, server, history>>

Recv(t) ==
  /\ pc[t] = "recv" /\ lock = free
  /\ \/ conn = 0 /\ op[t] # "ping" /\ To(t, "idle") /\ UNCHANGED lock
     \/ conn # 0 /\ To(t, "read") /\ lock' = t
  /\ UNCHANGED <<conn, strategy, retries, rbuf, beating, todo, op, arg, out, mine, tries,
                 net, server, history>>

\* stream.read and reader.feed, then one read_frame.
Feed(n) ==
  /\ n <= Len(down[conn])
  /\ down' = [down EXCEPT ![conn] = SubSeq(@, n + 1, Len(@))]

Forgetful_Fed(n) == SubSeq(down[conn], 1, n)

Fed(n) == rbuf[conn] \o SubSeq(down[conn], 1, n)

AckRead(t, n) ==
  /\ pc[t] = "ackRead"
  /\ Feed(n)
  /\ IF Complete(Fed(n))
     THEN /\ rbuf' = [rbuf EXCEPT ![conn] = Drained(Fed(n))]
          /\ lock' = free
          /\ To(t, IF First(Fed(n)).type = "HELLO_ACK" THEN "beat" ELSE ConnectFailed(t))
     ELSE /\ rbuf' = [rbuf EXCEPT ![conn] = Fed(n)]
          /\ UNCHANGED <<lock, pc>>
  /\ UNCHANGED <<conn, strategy, retries, beating, todo, op, arg, out, mine, tries,
                 opened, alive, up, server, history>>

Read(t, n) == LET f == First(Fed(n)) IN
  /\ pc[t] = "read"
  /\ Feed(n)
  /\ lock' = free
  /\ IF Complete(Fed(n))
     THEN /\ rbuf' = [rbuf EXCEPT ![conn] = Drained(Fed(n))]
          /\ got' = IF f.type = "DATA" THEN [got EXCEPT ![conn] = Append(@, f.data)] ELSE got
          /\ To(t, Received(t, f.type = "PONG"))
     ELSE /\ rbuf' = [rbuf EXCEPT ![conn] = Fed(n)]
          /\ To(t, Received(t, FALSE))
          /\ UNCHANGED got
  /\ UNCHANGED <<conn, strategy, retries, beating, todo, op, arg, out, mine, tries,
                 opened, alive, up, server, payloads, written, hello>>

\* read returns 0 or an error.
ReadFails(t) ==
  /\ pc[t] \in {"ackRead", "read"} /\ ~alive[conn] /\ down[conn] = <<>>
  /\ lock' = free
  /\ To(t, IF pc[t] = "ackRead" THEN ConnectFailed(t) ELSE Received(t, FALSE))
  /\ UNCHANGED <<conn, strategy, retries, rbuf, beating, todo, op, arg, out, mine, tries,
                 net, server, history>>

Leaky_TimeOut(t) ==
  /\ op[t] \in {"timedRecv", "ping"} /\ pc[t] \in {"recv", "read"}
  /\ To(t, "idle")
  /\ UNCHANGED <<client, todo, op, arg, out, mine, tries, net, server, history>>

\* recv_with_timeout, and the 5 seconds of ping, drop the pending recv.
TimeOut(t) ==
  /\ op[t] \in {"timedRecv", "ping"} /\ pc[t] \in {"recv", "read"}
  /\ lock' = IF lock = t THEN free ELSE lock
  /\ To(t, "idle")
  /\ UNCHANGED <<conn, strategy, retries, rbuf, beating, todo, op, arg, out, mine, tries,
                 net, server, history>>

\* The same timeout after read_frame, while recv waits for the lock on stats
\* that another task holds: the frame is gone.
TimeOutInRecv(t, n) ==
  /\ op[t] \in {"timedRecv", "ping"} /\ pc[t] = "read"
  /\ \E u \in Tasks \ {t} : pc[u] # "idle"
  /\ Feed(n) /\ Complete(Fed(n))
  /\ rbuf' = [rbuf EXCEPT ![conn] = Drained(Fed(n))]
  /\ lock' = free
  /\ To(t, "idle")
  /\ UNCHANGED <<conn, strategy, retries, beating, todo, op, arg, out, mine, tries,
                 opened, alive, up, server, history>>

-----------------------------------------------------------------------------
(* close and reconnect *)

Stop(t) ==
  /\ pc[t] = "stop"
  /\ beating' = FALSE
  /\ out' = [out EXCEPT ![t] = Frame("CLOSE", 0, "none")]
  /\ To(t, "frame")
  /\ UNCHANGED <<conn, lock, strategy, retries, rbuf, todo, op, arg, mine, tries, net, server, history>>

Drop(t) ==
  /\ pc[t] = "drop"
  /\ Install(0)
  /\ To(t, "idle")
  /\ UNCHANGED <<lock, strategy, retries, rbuf, beating, todo, op, arg, out, mine, tries,
                 opened, up, down, server, history>>

\* reconnect holds the strategy until it returns.
TakeStrategy(t) ==
  /\ pc[t] = "strategy" /\ strategy = free
  /\ strategy' = t
  /\ To(t, "retry")
  /\ UNCHANGED <<conn, lock, retries, rbuf, beating, todo, op, arg, out, mine, tries,
                 net, server, history>>

Retry(t) ==
  /\ pc[t] = "retry"
  /\ \/ /\ should_retry
        /\ wait
        /\ To(t, "dial")
        /\ UNCHANGED strategy
     \/ /\ ~should_retry
        /\ strategy' = free
        /\ To(t, "idle")
        /\ UNCHANGED retries
  /\ UNCHANGED <<conn, lock, rbuf, beating, todo, op, arg, out, mine, tries,
                 net, server, history>>

-----------------------------------------------------------------------------
(* handleTCPConnection on the server *)

\* conn.Read, once every complete frame was handled and answered.
ServerRead(g, n) ==
  /\ serving[g] /\ reply[g] = <<>> /\ ~Complete(sbuf[g])
  /\ n <= Len(up[g])
  /\ sbuf' = [sbuf EXCEPT ![g] = @ \o SubSeq(up[g], 1, n)]
  /\ up' = [up EXCEPT ![g] = SubSeq(@, n + 1, Len(@))]
  /\ UNCHANGED <<client, task, opened, alive, down, serving, reply, tokens, history>>

\* The payload of a DATA frame after Decrypt and Decompress, which may fail.
\* Both ends make up their own key.  The client's size-prefixed LZ4 is neither
\* zstd nor an LZ4 block: garbage (0) when it decodes at all.
Decoded(f) == CASE f.key = "none"   -> {f.data}
                [] f.key = "client" -> {}
                [] f.key = "lz4"    -> {0}

Silent_Answers(f) ==
  IF f.type = "HELLO" THEN {Frame("HELLO_ACK", 0, "none")} ELSE {}

Answers(f) == CASE f.type = "HELLO" -> {Frame("HELLO_ACK", 0, "none")}
                [] f.type = "DATA"  -> {Frame("DATA", d, "none") : d \in Decoded(f)}
                [] f.type = "PING"  -> {Frame("PONG", 0, "none")}
                [] f.type = "CLOSE" -> {}

\* A frame over the rate limit, or whose payload does not decode, is dropped.
HandleFrame(g) == LET f == First(sbuf[g]) IN
  /\ serving[g] /\ reply[g] = <<>> /\ Complete(sbuf[g])
  /\ sbuf' = [sbuf EXCEPT ![g] = Drained(@)]
  /\ tokens' = [tokens EXCEPT ![g] = IF @ > 0 THEN @ - 1 ELSE 0]
  /\ \/ tokens[g] > 0 /\ \E a \in Answers(f) : reply' = [reply EXCEPT ![g] = Cells(a)]
     \/ (tokens[g] = 0 \/ Answers(f) = {} \/ f.key = "lz4") /\ UNCHANGED reply
  /\ UNCHANGED <<client, task, net, serving, history>>

\* sendFrame: Write waits for room; a failed Write is only logged.
ServerWrite(g) ==
  /\ serving[g] /\ reply[g] # <<>>
  /\ \/ /\ alive[g] /\ Len(down[g]) < WireCap
        /\ down' = [down EXCEPT ![g] = Append(@, Head(reply[g]))]
        /\ reply' = [reply EXCEPT ![g] = Tail(@)]
     \/ /\ ~alive[g]
        /\ reply' = [reply EXCEPT ![g] = <<>>]
        /\ UNCHANGED down
  /\ UNCHANGED <<client, task, opened, alive, up, serving, sbuf, tokens, history>>

\* Read reports the end of the stream, or the deadline set at the start.  The
\* handler returns without closing the connection.
ServerStops(g) ==
  /\ serving[g] /\ reply[g] = <<>> /\ ~Complete(sbuf[g])
  /\ serving' = [serving EXCEPT ![g] = FALSE]
  /\ UNCHANGED <<client, task, net, sbuf, reply, tokens, history>>

\* The network loses a connection.
Lose(g) ==
  /\ alive[g]
  /\ alive' = [alive EXCEPT ![g] = FALSE]
  /\ UNCHANGED <<client, task, opened, up, down, server, history>>

\* The bucket of the address refills (module RateLimiter).
Refill(g) ==
  /\ tokens[g] < IPTokens
  /\ tokens' = [tokens EXCEPT ![g] = @ + 1]
  /\ UNCHANGED <<client, task, net, serving, sbuf, reply, history>>

-----------------------------------------------------------------------------
ClientStep(t) ==
  \/ Call(t) \/ Dial(t) \/ DialFails(t) \/ Publish(t) \/ Reset(t) \/ StartHeartbeat(t)
  \/ AllocStream(t) \/ SendFrame(t) \/ Write1(t) \/ Write2(t) \/ WriteFails(t)
  \/ AwaitAck(t) \/ Recv(t) \/ ReadFails(t) \/ TimeOut(t)
  \/ \E n \in 1..WireCap : AckRead(t, n) \/ Read(t, n) \/ TimeOutInRecv(t, n)
  \/ Stop(t) \/ Drop(t) \/ TakeStrategy(t) \/ Retry(t)

ServerStep(g) ==
  \/ \E n \in 1..WireCap : ServerRead(g, n)
  \/ HandleFrame(g) \/ ServerWrite(g)

Next ==
  \/ \E t \in Tasks : ClientStep(t)
  \/ \E g \in Conn : ServerStep(g) \/ ServerStops(g) \/ Lose(g) \/ Refill(g)

\* Runnable tasks run, timers fire and the server's handler runs.  No fairness for losing a
\* connection, the server's deadline, or the refill.
Fairness ==
  /\ \A t \in Tasks : WF_vars(ClientStep(t)) /\ WF_vars(TimeOut(t))
  /\ \A g \in Conn : WF_vars(ServerStep(g))

Spec == Init /\ [][Next]_vars
FairSpec == Spec /\ Fairness

-----------------------------------------------------------------------------
Labels == {"idle", "dial", "publish", "reset", "frame", "write1", "write2", "ack",
           "ackRead", "beat", "alloc", "recv", "read", "stop", "drop", "strategy", "retry"}

\* Types, and which task holds the lock on the connection.
TypeOK ==
  /\ conn \in 0..MaxConns /\ retries \in 0..MaxRetries /\ beating \in BOOLEAN
  /\ pc \in [Tasks -> Labels]
  /\ lock \in Tasks \cup {free} /\ strategy \in Apps \cup {free}
  /\ \A t \in Tasks : lock = t <=> pc[t] \in {"write1", "write2", "ackRead", "read"}
  /\ \A g \in Conn : Len(up[g]) <= WireCap /\ Len(down[g]) <= WireCap

\* Whatever tasks send, receive, time out or close at the same time, the bytes
\* of two frames never mix on the wire, and both FrameReaders stay at a frame
\* boundary.
StreamsFramed == \A g \in Conn :
  /\ Framed(sbuf[g] \o up[g])
  /\ Framed(rbuf[g] \o down[g] \o (IF alive[g] THEN reply[g] ELSE <<>>))

\* A payload is written in full at most once, whatever is retried on whichever
\* connection; so those that recv returns from a connection are payloads written
\* on that same connection, each at most once and in the order of writing.
\* Replies to an earlier connection are never taken for replies to this one.
WrittenOnce == \A g, h \in Conn : \A i \in 1..Len(written[g]), j \in 1..Len(written[h]) :
  written[g][i] = written[h][j] => g = h /\ i = j
EchoInOrder == WrittenOnce /\ \A g \in Conn : Echoes(got[g], written[g])

\* No socket is left open by connects and reconnects that overlap: an open
\* connection is the client's current one or about to be installed.
NoLeakedConnection == \A g \in Conn :
  alive[g] => conn = g \/ \E t \in Tasks : mine[t] = g /\ pc[t] = "publish"

\* In send_frame, or in the send_fn of the heartbeat.
Writing == {"frame", "write1", "write2"}

\* A task that is on its way to write HELLO to connection g.
Greeting(t, g) ==
  \/ pc[t] = "publish" /\ mine[t] = g
  \/ conn = g /\ (pc[t] = "reset" \/ (pc[t] \in Writing /\ out[t].type = "HELLO"))

\* connect_internal shares a connection with every other task before the
\* handshake.  However connects, reconnects and closes overlap and fail, no
\* open connection is left without HELLO: some task is about to write it there.
HelloPending == \A g \in Conn : alive[g] /\ ~hello[g] => \E t \in Apps : Greeting(t, g)

\* protocol/SPEC.md: "`HELLO` is required before application data."
HelloBeforeData == \A g \in Conn : written[g] # <<>> => hello[g]

\* Every call of the application returns, unless the server stopped reading.
Done == \A t \in Apps : todo[t] = <<>> /\ pc[t] = "idle"
Cut == \E g \in 1..opened : ~serving[g]
CallsReturn == <>(Done \/ Cut)

\* A connect that succeeded resets the reconnect strategy and goes on, also
\* when reconnect made it.
StrategyIsReset == \A t \in Apps : pc[t] = "reset" ~> pc[t] # "reset"

=============================================================================
