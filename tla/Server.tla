------------------------------- MODULE Server --------------------------------
(***************************************************************************)
(* Life cycle of the server of server/webbou/server.go: the accept loops,  *)
(* one handler goroutine per connection, the per-address connection        *)
(* limiter (ratelimit.go), the session table, the wait group and Shutdown. *)
(* What a handler does with the frames it reads is in EchoLink.            *)
(***************************************************************************)
EXTENDS Integers, FiniteSets

CONSTANTS
  Transports,  \* the configured listeners, a subset of {"tcp", "quic"}
  TCPConns,    \* connections that clients may open over TCP
  QUICConns,   \* and over QUIC
  RemoteAddr,  \* conn.RemoteAddr().String() of each TCP connection: ip:port
  Addrs,
  MaxPerIP,    \* limit given to NewConnectionRateLimiter
  MaxStreams   \* bound on the QUIC streams open at a time

Conns == TCPConns \cup QUICConns

ASSUME ServerAssumption ==
  /\ Transports \subseteq {"tcp", "quic"}
  /\ IsFiniteSet(TCPConns) /\ IsFiniteSet(QUICConns)
  /\ TCPConns \cap QUICConns = {}
  /\ RemoteAddr \in [TCPConns -> Addrs]
  /\ MaxPerIP \in Nat /\ MaxStreams \in Nat

VARIABLES
  acceptor,     \* program counter of startTCP / startQUIC
  listener,     \* the socket of each transport
  field,        \* is s.tcpListener / s.quicListener non-nil?
  taken,        \* connection returned by Accept, its goroutine not started yet
  pc,           \* program counter of each connection's handler goroutine
  peer,         \* has the client end gone?
  expired,      \* has the read deadline of the connection passed?
  connections,  \* connLimiter.connections
  sessions,     \* keys of s.sessions, one per connection
  streams,      \* live handleStream goroutines of a QUIC connection
  wg,           \* s.wg
  shutdown      \* program counter of Shutdown

accepting == <<acceptor, listener, field, taken>>
vars == <<accepting, pc, peer, expired, connections, sessions, streams, wg, shutdown>>

transport(c) == IF c \in TCPConns THEN "tcp" ELSE "quic"

\* NewServer and Start: wg.Add(1) for every configured listener.
Init ==
  /\ acceptor = [t \in Transports |-> "start"]
  /\ listener = [t \in Transports |-> "none"]
  /\ field = [t \in Transports |-> FALSE]
  /\ taken = [t \in Transports |-> {}]
  /\ pc = [c \in Conns |-> "none"]
  /\ peer = [c \in Conns |-> "open"]
  /\ expired = [c \in Conns |-> FALSE]
  /\ connections = [a \in Addrs |-> 0]
  /\ sessions = {}
  /\ streams = [c \in Conns |-> 0]
  /\ wg = Cardinality(Transports)
  /\ shutdown = "no"

-----------------------------------------------------------------------------
(* startTCP and startQUIC *)

Listen(t) ==
  /\ acceptor[t] = "start"
  /\ acceptor' = [acceptor EXCEPT ![t] = "bound"]
  /\ listener' = [listener EXCEPT ![t] = "open"]
  /\ UNCHANGED <<field, taken, pc, peer, expired, connections, sessions, streams, wg, shutdown>>

ListenFails(t) ==
  /\ acceptor[t] = "start"
  /\ acceptor' = [acceptor EXCEPT ![t] = "done"]
  /\ wg' = wg - 1
  /\ UNCHANGED <<listener, field, taken, pc, peer, expired, connections, sessions, streams, shutdown>>

Early_StoreListener(t) ==
  /\ acceptor[t] = "bound"
  /\ acceptor' = [acceptor EXCEPT ![t] = "accept"]
  /\ field' = [field EXCEPT ![t] = TRUE]
  /\ wg' = wg - 1
  /\ UNCHANGED <<listener, taken, pc, peer, expired, connections, sessions, streams, shutdown>>

\* s.tcpListener = listener, not synchronised with Shutdown's read of it.
StoreListener(t) ==
  /\ acceptor[t] = "bound"
  /\ acceptor' = [acceptor EXCEPT ![t] = "accept"]
  /\ field' = [field EXCEPT ![t] = TRUE]
  /\ UNCHANGED <<listener, taken, pc, peer, expired, connections, sessions, streams, wg, shutdown>>

Accept(c) == LET t == transport(c) IN
  /\ t \in Transports
  /\ acceptor[t] = "accept" /\ listener[t] = "open"
  /\ pc[c] = "none" /\ peer[c] = "open"
  /\ acceptor' = [acceptor EXCEPT ![t] = "spawn"]
  /\ taken' = [taken EXCEPT ![t] = {c}]
  /\ pc' = [pc EXCEPT ![c] = "taken"]
  /\ UNCHANGED <<listener, field, peer, expired, connections, sessions, streams, wg, shutdown>>

\* wg.Add(1); go handle...Connection
Spawn(c) == LET t == transport(c) IN
  /\ t \in Transports
  /\ acceptor[t] = "spawn" /\ c \in taken[t]
  /\ acceptor' = [acceptor EXCEPT ![t] = "accept"]
  /\ taken' = [taken EXCEPT ![t] = {}]
  /\ pc' = [pc EXCEPT ![c] = "start"]
  /\ wg' = wg + 1
  /\ UNCHANGED <<listener, field, peer, expired, connections, sessions, streams, shutdown>>

\* Accept reports net.ErrClosed; any other error is logged and retried.
AcceptClosed(t) ==
  /\ acceptor[t] = "accept" /\ listener[t] = "closed"
  /\ acceptor' = [acceptor EXCEPT ![t] = "done"]
  /\ wg' = wg - 1
  /\ UNCHANGED <<listener, field, taken, pc, peer, expired, connections, sessions, streams, shutdown>>

-----------------------------------------------------------------------------
(* handleTCPConnection and handleQUICConnection *)

Goto(c, from, to) == pc[c] = from /\ pc' = [pc EXCEPT ![c] = to]

AllowConnection(c) == LET a == RemoteAddr[c] IN
  /\ c \in TCPConns
  /\ \/ /\ connections[a] < MaxPerIP
        /\ Goto(c, "start", "admitted")
        /\ connections' = [connections EXCEPT ![a] = @ + 1]
        /\ UNCHANGED peer
     \/ /\ connections[a] >= MaxPerIP
        /\ Goto(c, "start", "exit")
        /\ peer' = [peer EXCEPT ![c] = "closed"]
        /\ UNCHANGED connections
  /\ UNCHANGED <<accepting, expired, sessions, streams, wg, shutdown>>

\* Also sets the read deadline of a TCP connection, once.
createSession(c) ==
  /\ Goto(c, IF c \in TCPConns THEN "admitted" ELSE "start", "serve")
  /\ sessions' = sessions \cup {c}
  /\ UNCHANGED <<accepting, peer, expired, connections, streams, wg, shutdown>>

\* conn.Read delivers a frame; it is answered, or needs no answer, or is
\* dropped by the rate limiter, or has no writer (datagrams).
ReadFrame(c) ==
  /\ peer[c] = "open" /\ ~expired[c]
  /\ \/ Goto(c, "serve", "serve")
     \/ c \in TCPConns /\ Goto(c, "serve", "write")
  /\ UNCHANGED <<accepting, peer, expired, connections, sessions, streams, wg, shutdown>>

\* conn.Write has no deadline: it returns when the peer has made room, or with
\* an error, which is only logged, when the peer has gone.
WriteReturns(c) ==
  /\ Goto(c, "write", "serve")
  /\ UNCHANGED <<accepting, peer, expired, connections, sessions, streams, wg, shutdown>>

\* conn.Read fails (peer gone, deadline passed), or FrameReader rejects the
\* bytes of a TCP connection.
Broken(c) == peer[c] = "closed" \/ expired[c]

ReadStops(c) ==
  /\ Broken(c) \/ c \in TCPConns
  /\ Goto(c, "serve", "close")
  /\ UNCHANGED <<accepting, peer, expired, connections, sessions, streams, wg, shutdown>>

\* The deferred calls run in reverse order: closeSession, ReleaseConnection,
\* wg.Done.
Leaky_closeSession(c) ==
  /\ Goto(c, "close", IF c \in TCPConns THEN "release" ELSE "exit")
  /\ UNCHANGED <<accepting, peer, expired, connections, sessions, streams, wg, shutdown>>

closeSession(c) ==
  /\ Goto(c, "close", IF c \in TCPConns THEN "release" ELSE "exit")
  /\ sessions' = sessions \ {c}
  /\ UNCHANGED <<accepting, peer, expired, connections, streams, wg, shutdown>>

Leaky_ReleaseConnection(c) ==
  /\ Goto(c, "release", "exit")
  /\ UNCHANGED <<accepting, peer, expired, connections, sessions, streams, wg, shutdown>>

ReleaseConnection(c) == LET a == RemoteAddr[c] IN
  /\ Goto(c, "release", "exit")
  /\ connections' = [connections EXCEPT ![a] = IF @ > 0 THEN @ - 1 ELSE @]
  /\ UNCHANGED <<accepting, peer, expired, sessions, streams, wg, shutdown>>

HandlerDone(c) ==
  /\ Goto(c, "exit", "done")
  /\ wg' = wg - 1
  /\ UNCHANGED <<accepting, peer, expired, connections, sessions, streams, shutdown>>

-----------------------------------------------------------------------------
(* The goroutines of a QUIC connection that s.wg does not count: AcceptStream *)
(* and one handleStream per stream.                                           *)

AcceptStream(c) ==
  /\ c \in QUICConns /\ peer[c] = "open" /\ c \in sessions
  /\ streams[c] < MaxStreams
  /\ streams' = [streams EXCEPT ![c] = @ + 1]
  /\ UNCHANGED <<accepting, pc, peer, expired, connections, sessions, wg, shutdown>>

StreamEnds(c) ==
  /\ streams[c] > 0
  /\ streams' = [streams EXCEPT ![c] = @ - 1]
  /\ UNCHANGED <<accepting, pc, peer, expired, connections, sessions, wg, shutdown>>

-----------------------------------------------------------------------------
(* The clients and the clock *)

PeerCloses(c) ==
  /\ pc[c] \notin {"none", "done"} /\ peer[c] = "open"
  /\ peer' = [peer EXCEPT ![c] = "closed"]
  /\ UNCHANGED <<accepting, pc, expired, connections, sessions, streams, wg, shutdown>>

Missing_DeadlineExpires(c) == FALSE /\ UNCHANGED vars

DeadlineExpires(c) ==
  /\ c \in TCPConns /\ pc[c] \in {"serve", "write"} /\ ~expired[c]
  /\ expired' = [expired EXCEPT ![c] = TRUE]
  /\ UNCHANGED <<accepting, pc, peer, connections, sessions, streams, wg, shutdown>>

-----------------------------------------------------------------------------
(* Shutdown(ctx), called once by main on a signal *)

CloseShutdownCh ==
  /\ shutdown = "no"
  /\ shutdown' = "tcp"
  /\ UNCHANGED <<accepting, pc, peer, expired, connections, sessions, streams, wg>>

CloseListener(t, to) ==
  /\ shutdown = t
  /\ shutdown' = to
  /\ listener' = IF t \in Transports /\ field[t]
                 THEN [listener EXCEPT ![t] = "closed"] ELSE listener
  /\ UNCHANGED <<acceptor, field, taken, pc, peer, expired, connections, sessions, streams, wg>>

WaitReturns ==
  /\ shutdown = "wait" /\ wg = 0
  /\ shutdown' = "clean"
  /\ UNCHANGED <<accepting, pc, peer, expired, connections, sessions, streams, wg>>

ContextDone ==
  /\ shutdown = "wait"
  /\ shutdown' = "timeout"
  /\ UNCHANGED <<accepting, pc, peer, expired, connections, sessions, streams, wg>>

Shutdown ==
  \/ CloseShutdownCh
  \/ CloseListener("tcp", "quic")
  \/ CloseListener("quic", "wait")
  \/ WaitReturns
  \/ ContextDone

-----------------------------------------------------------------------------
AcceptorStep(t) ==
  Listen(t) \/ ListenFails(t) \/ StoreListener(t) \/ AcceptClosed(t)

HandlerStep(c) ==
  \/ AllowConnection(c) \/ createSession(c)
  \/ closeSession(c) \/ ReleaseConnection(c) \/ HandlerDone(c)

Next ==
  \/ \E t \in Transports : AcceptorStep(t)
  \/ \E c \in Conns :
       \/ Accept(c) \/ Spawn(c)
       \/ HandlerStep(c) \/ ReadFrame(c) \/ WriteReturns(c) \/ ReadStops(c)
       \/ AcceptStream(c) \/ StreamEnds(c)
       \/ PeerCloses(c) \/ DeadlineExpires(c)
  \/ Shutdown

\* What a handler does without waiting for its client.
HandlerRuns(c) ==
  HandlerStep(c) \/ (Broken(c) /\ ReadStops(c)) \/ (peer[c] = "closed" /\ WriteReturns(c))

\* The goroutines of TCP that can run do run, and time passes.  Nothing is
\* assumed of the clients: they need not connect, send, read or leave.
Fairness ==
  /\ \A t \in Transports \cap {"tcp"} :
       WF_vars(AcceptorStep(t) \/ \E c \in TCPConns : Spawn(c))
  /\ \A c \in TCPConns : WF_vars(HandlerRuns(c)) /\ WF_vars(DeadlineExpires(c))

Spec == Init /\ [][Next]_vars
FairSpec == Spec /\ Fairness

-----------------------------------------------------------------------------
\* Types of the server's fields and of the program counters; a negative wg
\* would be a panic.
TypeOK ==
  /\ acceptor \in [Transports -> {"start", "bound", "accept", "spawn", "done"}]
  /\ listener \in [Transports -> {"none", "open", "closed"}]
  /\ field \in [Transports -> BOOLEAN]
  /\ taken \in [Transports -> SUBSET Conns]
  /\ pc \in [Conns -> {"none", "taken", "start", "admitted", "serve", "write",
                       "close", "release", "exit", "done"}]
  /\ peer \in [Conns -> {"open", "closed"}]
  /\ expired \in [Conns -> BOOLEAN]
  /\ connections \in [Addrs -> Nat]
  /\ sessions \subseteq Conns
  /\ streams \in [Conns -> Nat]
  /\ wg \in Nat
  /\ shutdown \in {"no", "tcp", "quic", "wait", "clean", "timeout"}

\* The goroutines that s.wg counts.
LiveAcceptors == {t \in Transports : acceptor[t] # "done"}
LiveHandlers == {c \in Conns : pc[c] \notin {"none", "taken", "done"}}

\* The handlers between AllowConnection and ReleaseConnection for address a.
Holders(a) == {c \in TCPConns : RemoteAddr[c] = a
                 /\ pc[c] \in {"admitted", "serve", "write", "close", "release"}}

\* Shutdown reports "stopped cleanly" only when no accept loop and no handler
\* runs any more, no session is left in the table and every connection slot
\* was given back, whatever was being accepted while it closed the listeners.
CleanMeansStopped ==
  shutdown = "clean" =>
    /\ LiveAcceptors = {} /\ LiveHandlers = {}
    /\ \A t \in Transports : taken[t] = {}
    /\ sessions = {}
    /\ connections = [a \in Addrs |-> 0]

\* An accept loop never calls wg.Add while the counter may be zero, which
\* would race with the wg.Wait of Shutdown.
NoAddFromZero == \A t \in Transports : acceptor[t] = "spawn" => wg > 0

\* The limiter's count for an address is the number of handlers that hold a
\* slot for it, and never exceeds the limit: no path through the handler
\* leaks or returns a slot twice.
SlotsExact == \A a \in Addrs :
  connections[a] = Cardinality(Holders(a)) /\ connections[a] <= MaxPerIP

\* Once Shutdown has closed the TCP listener, its accept loop ends and every
\* TCP handler ends too, thanks to the read deadline, except a handler that is
\* blocked for ever writing to a client that neither reads nor closes.
TCPDrains == "tcp" \in Transports =>
  (<>[](listener["tcp"] = "closed") =>
     <>[](acceptor["tcp"] = "done" /\ \A c \in TCPConns : pc[c] \in {"none", "done", "write"}))

=============================================================================
