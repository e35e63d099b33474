----------------------------- MODULE ServerProofs ----------------------------
(***************************************************************************)
(* The wait group, the session table and the connection limiter of the     *)
(* server agree with the goroutines that run, for any number of            *)
(* connections, addresses and streams; hence a clean shutdown really is    *)
(* one.                                                                    *)
(***************************************************************************)
EXTENDS Server, ServerStateMachine, FiniteSetTheorems, TLAPS

\* A connection that an accept loop holds has no goroutine yet.
TakenInv == \A t \in Transports :
  /\ acceptor[t] # "spawn" => taken[t] = {}
  /\ \A c \in taken[t] : pc[c] = "taken" /\ transport(c) = t

\* The session table lists the handlers between createSession and closeSession.
SessionInv == \A c \in Conns : c \in sessions <=> pc[c] \in {"serve", "write", "close"}

\* Only handlers of TCP connections pass through the connection limiter.
LimiterInv == \A c \in Conns : pc[c] \in {"admitted", "release"} => c \in TCPConns

\* s.wg counts the accept loops and handlers that run.
CountInv == wg = Cardinality(LiveAcceptors) + Cardinality(LiveHandlers)

\* wg.Wait has returned and the counter has stayed at zero.
CleanInv == shutdown = "clean" => wg = 0

IInv == TypeOK /\ TakenInv /\ SessionInv /\ LimiterInv /\ CountInv /\ SlotsExact /\ CleanInv

LEMMA FiniteParts ==
  /\ IsFiniteSet(Transports) /\ IsFiniteSet(Conns)
  /\ IsFiniteSet(LiveAcceptors) /\ IsFiniteSet(LiveHandlers)
  /\ \A a \in Addrs : IsFiniteSet(Holders(a))
<1>1. IsFiniteSet({"tcp", "quic"})
  <2>1. IsFiniteSet({"tcp"} \cup {"quic"})
    BY FS_Singleton, FS_AddElement, Zenon
  <2>2. {"tcp"} \cup {"quic"} = {"tcp", "quic"}
    BY Zenon
  <2> QED
    BY <2>1, <2>2, Zenon
<1>2. IsFiniteSet(Transports)
  BY <1>1, FS_Subset, ServerAssumption, Zenon
<1>3. IsFiniteSet(Conns)
  BY FS_Union, ServerAssumption, Zenon DEF Conns
<1>4. LiveAcceptors \subseteq Transports /\ LiveHandlers \subseteq Conns
  BY Zenon DEF LiveAcceptors, LiveHandlers
<1>5. \A a \in Addrs : Holders(a) \subseteq TCPConns
  BY Zenon DEF Holders
<1> QED
  BY <1>2, <1>3, <1>4, <1>5, FS_Subset, ServerAssumption, Zenon

LEMMA InitIInv == Init => IInv
<1> SUFFICES ASSUME Init PROVE IInv
  BY Zenon
<1>1. LiveAcceptors = Transports /\ LiveHandlers = {}
  BY Zenon DEF Init, LiveAcceptors, LiveHandlers
<1>2. CountInv /\ wg \in Nat
  BY <1>1, FiniteParts, FS_EmptySet, FS_CardinalityType DEF Init, CountInv
<1>3. SlotsExact
  <2> SUFFICES ASSUME NEW a \in Addrs
               PROVE  connections[a] = Cardinality(Holders(a)) /\ connections[a] <= MaxPerIP
    BY Zenon DEF SlotsExact
  <2>1. Holders(a) = {}
    BY Zenon DEF Init, Holders, Conns
  <2> QED
    BY <2>1, FS_EmptySet, ServerAssumption DEF Init
<1>4. TypeOK
  <2>1. /\ field \in [Transports -> BOOLEAN]
        /\ expired \in [Conns -> BOOLEAN]
    BY Zenon DEF Init
  <2> QED
    BY <1>2, <2>1, Zenon DEF Init, TypeOK
<1>5. TakenInv /\ SessionInv /\ LimiterInv /\ CleanInv
  BY Zenon DEF Init, TakenInv, SessionInv, LimiterInv, CleanInv
<1> QED
  BY <1>2, <1>3, <1>4, <1>5, Zenon DEF IInv

-----------------------------------------------------------------------------
(* How one goroutine's move changes what is counted *)

Idle == {"none", "taken", "done"}
Holding == {"admitted", "serve", "write", "close", "release"}

OnlyAcceptor(t) == \A u \in Transports : u # t => acceptor'[u] = acceptor[u]
OnlyHandler(c) == \A d \in Conns : d # c => pc'[d] = pc[d]

LEMMA AcceptorMoves ==
  ASSUME NEW t \in Transports, OnlyAcceptor(t), acceptor[t] # "done"
  PROVE  /\ acceptor'[t] # "done" => LiveAcceptors' = LiveAcceptors
         /\ acceptor'[t] = "done" => Cardinality(LiveAcceptors') = Cardinality(LiveAcceptors) - 1
<1>1. ASSUME acceptor'[t] # "done" PROVE LiveAcceptors' = LiveAcceptors
  BY <1>1, Zenon DEF OnlyAcceptor, LiveAcceptors
<1>2. ASSUME acceptor'[t] = "done" PROVE LiveAcceptors' = LiveAcceptors \ {t}
  BY <1>2, Zenon DEF OnlyAcceptor, LiveAcceptors
<1>3. t \in LiveAcceptors
  BY Zenon DEF LiveAcceptors
<1> QED
  BY <1>1, <1>2, <1>3, FiniteParts, FS_RemoveElement, Zenon

LEMMA HandlerMoves ==
  ASSUME NEW c \in Conns, OnlyHandler(c)
  PROVE  /\ (pc[c] \in Idle <=> pc'[c] \in Idle) => LiveHandlers' = LiveHandlers
         /\ pc[c] \in Idle /\ pc'[c] \notin Idle =>
              Cardinality(LiveHandlers') = Cardinality(LiveHandlers) + 1
         /\ pc[c] \notin Idle /\ pc'[c] \in Idle =>
              Cardinality(LiveHandlers') = Cardinality(LiveHandlers) - 1
<1>1. ASSUME pc[c] \in Idle <=> pc'[c] \in Idle PROVE LiveHandlers' = LiveHandlers
  BY <1>1, Zenon DEF OnlyHandler, LiveHandlers, Idle
<1>2. ASSUME pc[c] \in Idle, pc'[c] \notin Idle
      PROVE  LiveHandlers' = LiveHandlers \cup {c} /\ c \notin LiveHandlers
  BY <1>2, Zenon DEF OnlyHandler, LiveHandlers, Idle
<1>3. ASSUME pc[c] \notin Idle, pc'[c] \in Idle
      PROVE  LiveHandlers' = LiveHandlers \ {c} /\ c \in LiveHandlers
  BY <1>3, Zenon DEF OnlyHandler, LiveHandlers, Idle
<1> QED
  BY <1>1, <1>2, <1>3, FiniteParts, FS_AddElement, FS_RemoveElement

LEMMA HolderMoves ==
  ASSUME NEW c \in Conns, OnlyHandler(c), NEW a \in Addrs
  PROVE  /\ (c \notin TCPConns \/ RemoteAddr[c] # a \/ (pc[c] \in Holding <=> pc'[c] \in Holding))
              => Holders(a)' = Holders(a)
         /\ c \in TCPConns /\ RemoteAddr[c] = a /\ pc[c] \notin Holding /\ pc'[c] \in Holding =>
              Cardinality(Holders(a)') = Cardinality(Holders(a)) + 1
         /\ c \in TCPConns /\ RemoteAddr[c] = a /\ pc[c] \in Holding /\ pc'[c] \notin Holding =>
              Cardinality(Holders(a)') = Cardinality(Holders(a)) - 1
<1>0. IsFiniteSet(Holders(a)) /\ TCPConns \subseteq Conns
  BY FiniteParts, Zenon DEF Conns
<1>1. ASSUME c \notin TCPConns \/ RemoteAddr[c] # a \/ (pc[c] \in Holding <=> pc'[c] \in Holding)
      PROVE  Holders(a)' = Holders(a)
  BY <1>0, <1>1, Zenon DEF OnlyHandler, Holders, Holding
<1>2. ASSUME c \in TCPConns, RemoteAddr[c] = a, pc[c] \notin Holding, pc'[c] \in Holding
      PROVE  Cardinality(Holders(a)') = Cardinality(Holders(a)) + 1
  <2>1. Holders(a)' = Holders(a) \cup {c} /\ c \notin Holders(a)
    BY <1>0, <1>2, Zenon DEF OnlyHandler, Holders, Holding
  <2> QED
    BY <1>0, <2>1, FS_AddElement, Zenon
<1>3. ASSUME c \in TCPConns, RemoteAddr[c] = a, pc[c] \in Holding, pc'[c] \notin Holding
      PROVE  Cardinality(Holders(a)') = Cardinality(Holders(a)) - 1
  <2>1. Holders(a)' = Holders(a) \ {c} /\ c \in Holders(a)
    BY <1>0, <1>3, Zenon DEF OnlyHandler, Holders, Holding
  <2> QED
    BY <1>0, <2>1, FS_RemoveElement, Zenon
<1> QED
  BY <1>1, <1>2, <1>3, Zenon

-----------------------------------------------------------------------------
(* The steps, grouped by the process that takes them *)

\* The handler moves between labels of which none starts or ends it.
ServeStep(c) == ReadFrame(c) \/ WriteReturns(c) \/ ReadStops(c)

Elsewhere(c) == AcceptStream(c) \/ StreamEnds(c) \/ PeerCloses(c) \/ DeadlineExpires(c)

LEMMA NextCases ==
  ASSUME [Next]_vars
  PROVE  \/ \E t \in Transports : AcceptorStep(t)
         \/ \E c \in Conns : Accept(c) \/ Spawn(c) \/ HandlerStep(c) \/ ServeStep(c) \/ Elsewhere(c)
         \/ Shutdown
         \/ UNCHANGED vars
  BY Zenon DEF Next, ServeStep, Elsewhere

\* What is counted is unchanged when the program counters are.
LEMMA StillCounted ==
  ASSUME acceptor' = acceptor, pc' = pc
  PROVE  /\ LiveAcceptors' = LiveAcceptors /\ LiveHandlers' = LiveHandlers
         /\ \A a \in Addrs : Holders(a)' = Holders(a)
  BY Zenon DEF LiveAcceptors, LiveHandlers, Holders

LEMMA CountStep == IInv /\ [Next]_vars => CountInv' /\ wg' \in Nat
<1> SUFFICES ASSUME IInv, [Next]_vars PROVE CountInv'
  <2>1. IsFiniteSet(LiveAcceptors') /\ IsFiniteSet(LiveHandlers')
    BY FiniteParts, FS_Subset, Zenon DEF LiveAcceptors, LiveHandlers
  <2> QED
    BY <2>1, FS_CardinalityType DEF CountInv
<1>0. /\ TypeOK /\ wg \in Nat
      /\ wg = Cardinality(LiveAcceptors) + Cardinality(LiveHandlers)
      /\ Cardinality(LiveAcceptors) \in Nat /\ Cardinality(LiveHandlers) \in Nat
  BY FiniteParts, FS_CardinalityType, Zenon DEF IInv, TypeOK, CountInv
<1>1. ASSUME NEW t \in Transports, AcceptorStep(t) PROVE CountInv'
  <2>0. LiveHandlers' = LiveHandlers
    BY <1>1, Zenon DEF AcceptorStep, Listen, ListenFails, StoreListener, AcceptClosed, LiveHandlers
  <2>1. CASE Listen(t) \/ StoreListener(t)
    <3>1. wg' = wg /\ LiveAcceptors' = LiveAcceptors
      <4>1. /\ wg' = wg /\ OnlyAcceptor(t)
            /\ acceptor[t] # "done" /\ acceptor'[t] # "done"
        BY <1>0, <2>1, Zenon DEF TypeOK, OnlyAcceptor, Listen, StoreListener
      <4> QED
        BY <4>1, AcceptorMoves, Zenon
    <3> QED
      BY <1>0, <2>0, <3>1, Zenon DEF CountInv
  <2>2. CASE ListenFails(t) \/ AcceptClosed(t)
    <3>1. wg' = wg - 1 /\ Cardinality(LiveAcceptors') = Cardinality(LiveAcceptors) - 1
      <4>1. /\ wg' = wg - 1 /\ OnlyAcceptor(t)
            /\ acceptor[t] # "done" /\ acceptor'[t] = "done"
        BY <1>0, <2>2, Zenon DEF TypeOK, OnlyAcceptor, ListenFails, AcceptClosed
      <4> QED
        BY <4>1, AcceptorMoves, Zenon
    <3> QED
      BY <1>0, <2>0, <3>1 DEF CountInv
  <2> QED
    BY <1>1, <2>1, <2>2, Zenon DEF AcceptorStep
<1>2. ASSUME NEW c \in Conns, Accept(c) PROVE CountInv'
  <2>1. /\ transport(c) \in Transports /\ OnlyAcceptor(transport(c))
        /\ acceptor[transport(c)] # "done" /\ acceptor'[transport(c)] # "done"
    BY <1>0, <1>2, Zenon DEF TypeOK, OnlyAcceptor, Accept
  <2>2. OnlyHandler(c) /\ pc[c] \in Idle /\ pc'[c] \in Idle
    BY <1>0, <1>2, Zenon DEF TypeOK, OnlyHandler, Accept, Idle
  <2>3. LiveAcceptors' = LiveAcceptors
    BY <2>1, AcceptorMoves, Zenon
  <2>4. LiveHandlers' = LiveHandlers
    BY <2>2, HandlerMoves, Zenon
  <2> QED
    BY <1>0, <1>2, <2>3, <2>4, Zenon DEF Accept, CountInv
<1>3. ASSUME NEW c \in Conns, Spawn(c) PROVE CountInv'
  <2>1. /\ transport(c) \in Transports /\ OnlyAcceptor(transport(c))
        /\ acceptor[transport(c)] # "done" /\ acceptor'[transport(c)] # "done"
    BY <1>0, <1>3, Zenon DEF TypeOK, OnlyAcceptor, Spawn
  <2>2. pc[c] = "taken"
    BY <1>3, Zenon DEF IInv, TakenInv, Spawn
  <2>3. OnlyHandler(c) /\ pc[c] \in Idle /\ pc'[c] \notin Idle
    BY <1>0, <1>3, <2>2, Zenon DEF TypeOK, OnlyHandler, Spawn, Idle
  <2>4. LiveAcceptors' = LiveAcceptors
    BY <2>1, AcceptorMoves, Zenon
  <2>5. Cardinality(LiveHandlers') = Cardinality(LiveHandlers) + 1
    BY <2>3, HandlerMoves, Zenon
  <2> QED
    BY <1>0, <1>3, <2>4, <2>5 DEF Spawn, CountInv
<1>4. ASSUME NEW c \in Conns, HandlerStep(c) PROVE CountInv'
  <2>0. LiveAcceptors' = LiveAcceptors
    BY <1>4, Zenon DEF HandlerStep, AllowConnection, createSession, closeSession, ReleaseConnection,
                HandlerDone, accepting, LiveAcceptors
  <2>1. CASE AllowConnection(c) \/ createSession(c) \/ closeSession(c) \/ ReleaseConnection(c)
    <3>1. LiveHandlers' = LiveHandlers
      <4>1. OnlyHandler(c) /\ pc[c] \notin Idle /\ pc'[c] \notin Idle
        <5>1. CASE AllowConnection(c)
          BY <1>0, <5>1 DEF TypeOK, OnlyHandler, AllowConnection, Goto, Idle
        <5>2. CASE createSession(c)
          BY <1>0, <5>2, Zenon DEF TypeOK, OnlyHandler, createSession, Goto, Idle
        <5>3. CASE closeSession(c)
          BY <1>0, <5>3, Zenon DEF TypeOK, OnlyHandler, closeSession, Goto, Idle
        <5>4. CASE ReleaseConnection(c)
          BY <1>0, <5>4, Zenon DEF TypeOK, OnlyHandler, ReleaseConnection, Goto, Idle
        <5> QED
          BY <2>1, <5>1, <5>2, <5>3, <5>4, Zenon
      <4> QED
        BY <4>1, HandlerMoves, Zenon
    <3>2. wg' = wg
      BY <2>1, Zenon DEF AllowConnection, createSession, closeSession, ReleaseConnection
    <3> QED
      BY <1>0, <2>0, <3>1, <3>2, Zenon DEF CountInv
  <2>2. CASE HandlerDone(c)
    <3>1. Cardinality(LiveHandlers') = Cardinality(LiveHandlers) - 1
      <4>1. OnlyHandler(c) /\ pc[c] \notin Idle /\ pc'[c] \in Idle
        BY <1>0, <2>2, Zenon DEF TypeOK, OnlyHandler, HandlerDone, Goto, Idle
      <4> QED
        BY <4>1, HandlerMoves, Zenon
    <3> QED
      BY <1>0, <2>0, <2>2, <3>1 DEF HandlerDone, CountInv
  <2> QED
    BY <1>4, <2>1, <2>2, Zenon DEF HandlerStep
<1>5. ASSUME NEW c \in Conns, ServeStep(c) PROVE CountInv'
  <2>1. LiveHandlers' = LiveHandlers
    <3>1. OnlyHandler(c) /\ pc[c] \notin Idle /\ pc'[c] \notin Idle
      BY <1>0, <1>5 DEF TypeOK, OnlyHandler, ServeStep, ReadFrame, WriteReturns, ReadStops, Goto, Idle
    <3> QED
      BY <3>1, HandlerMoves, Zenon
  <2>2. wg' = wg /\ LiveAcceptors' = LiveAcceptors
    BY <1>5, Zenon DEF ServeStep, ReadFrame, WriteReturns, ReadStops, accepting, LiveAcceptors
  <2> QED
    BY <1>0, <2>1, <2>2, Zenon DEF CountInv
<1>6. ASSUME acceptor' = acceptor, pc' = pc, wg' = wg PROVE CountInv'
  BY <1>0, <1>6, StillCounted, Zenon DEF CountInv
<1>7. ASSUME NEW c \in Conns, Elsewhere(c) PROVE CountInv'
  BY <1>6, <1>7, Zenon DEF Elsewhere, AcceptStream, StreamEnds, PeerCloses, DeadlineExpires, accepting
<1>8. CASE Shutdown
  BY <1>6, <1>8, Zenon DEF Shutdown, CloseShutdownCh, CloseListener, WaitReturns, ContextDone, accepting
<1>9. CASE UNCHANGED vars
  BY <1>6, <1>9, Zenon DEF vars, accepting
<1> QED
  BY <1>1, <1>2, <1>3, <1>4, <1>5, <1>7, <1>8, <1>9, NextCases, Zenon

LEMMA TypeStep == IInv /\ [Next]_vars => TypeOK'
<1> SUFFICES ASSUME IInv, [Next]_vars PROVE TypeOK'
  BY Zenon
<1>0. TypeOK /\ wg' \in Nat
  BY CountStep, Zenon DEF IInv
<1>1. ASSUME NEW t \in Transports, AcceptorStep(t) PROVE TypeOK'
  BY <1>0, <1>1, Zenon DEF TypeOK, AcceptorStep, Listen, ListenFails, StoreListener, AcceptClosed
<1>2. ASSUME NEW c \in Conns, Accept(c) PROVE TypeOK'
  BY <1>0, <1>2, Zenon DEF TypeOK, Accept
<1>3. ASSUME NEW c \in Conns, Spawn(c) PROVE TypeOK'
  BY <1>0, <1>3, Zenon DEF TypeOK, Spawn
<1>4. ASSUME NEW c \in Conns, HandlerStep(c) PROVE TypeOK'
  <2>1. CASE AllowConnection(c)
    <3>1. RemoteAddr[c] \in Addrs
      BY <2>1, ServerAssumption, Zenon DEF AllowConnection
    <3> QED
      BY <1>0, <2>1, <3>1 DEF TypeOK, AllowConnection, Goto, accepting
  <2>2. CASE createSession(c)
    BY <1>0, <2>2, Zenon DEF TypeOK, createSession, Goto, accepting
  <2>3. CASE closeSession(c)
    BY <1>0, <2>3, Zenon DEF TypeOK, closeSession, Goto, accepting
  <2>4. CASE ReleaseConnection(c)
    <3>1. c \in TCPConns
      BY <2>4, Zenon DEF ReleaseConnection, Goto, IInv, LimiterInv
    <3>2. RemoteAddr[c] \in Addrs
      BY <3>1, ServerAssumption, Zenon
    <3>3. connections' \in [Addrs -> Nat]
      BY <1>0, <2>4, <3>2 DEF TypeOK, ReleaseConnection
    <3> QED
      BY <1>0, <2>4, <3>3, Zenon DEF TypeOK, ReleaseConnection, Goto, accepting
  <2>5. CASE HandlerDone(c)
    BY <1>0, <2>5, Zenon DEF TypeOK, HandlerDone, Goto, accepting
  <2> QED
    BY <1>4, <2>1, <2>2, <2>3, <2>4, <2>5, Zenon DEF HandlerStep
<1>5. ASSUME NEW c \in Conns, ServeStep(c) PROVE TypeOK'
  <2>2. pc' \in [Conns -> {"none", "taken", "start", "admitted", "serve", "write",
                           "close", "release", "exit", "done"}]
    BY <1>0, <1>5 DEF TypeOK, ServeStep, ReadFrame, WriteReturns, ReadStops, Goto
  <2>3. UNCHANGED <<accepting, peer, expired, connections, sessions, streams, shutdown>>
    BY <1>5, Zenon DEF ServeStep, ReadFrame, WriteReturns, ReadStops
  <2> QED
    BY <1>0, <2>2, <2>3, Zenon DEF TypeOK, accepting
<1>6. ASSUME NEW c \in Conns, Elsewhere(c) PROVE TypeOK'
  <2>1. expired' \in [Conns -> BOOLEAN]
    <3>1. expired' = [expired EXCEPT ![c] = TRUE] \/ expired' = expired
      BY <1>6, Zenon DEF Elsewhere, AcceptStream, StreamEnds, PeerCloses, DeadlineExpires
    <3> QED
      BY <1>0, <3>1, Zenon DEF TypeOK
  <2>2. /\ streams' \in [Conns -> Nat]
        /\ peer' \in [Conns -> {"open", "closed"}]
    BY <1>0, <1>6 DEF TypeOK, Elsewhere, AcceptStream, StreamEnds, PeerCloses, DeadlineExpires
  <2>3. UNCHANGED <<accepting, pc, connections, sessions, shutdown>>
    BY <1>6, Zenon DEF Elsewhere, AcceptStream, StreamEnds, PeerCloses, DeadlineExpires
  <2> QED
    BY <1>0, <2>1, <2>2, <2>3, Zenon DEF TypeOK, accepting
<1>7. CASE Shutdown
  BY <1>0, <1>7, Zenon DEF TypeOK, Shutdown, CloseShutdownCh, CloseListener, WaitReturns, ContextDone,
                    accepting
<1>8. CASE UNCHANGED vars
  BY <1>0, <1>8, Zenon DEF TypeOK, vars, accepting
<1> QED
  BY <1>1, <1>2, <1>3, <1>4, <1>5, <1>6, <1>7, <1>8, NextCases, Zenon

\* The invariants that relate the labels of a handler to the accept loop, the
\* session table and the limiter.
LEMMA LabelStep == IInv /\ [Next]_vars => TakenInv' /\ SessionInv' /\ LimiterInv'
<1> SUFFICES ASSUME IInv, [Next]_vars PROVE TakenInv' /\ SessionInv' /\ LimiterInv'
  BY Zenon
<1>0. TypeOK /\ TakenInv /\ SessionInv /\ LimiterInv
  BY Zenon DEF IInv
<1> USE DEF TypeOK, TakenInv, SessionInv, LimiterInv
<1>1. ASSUME NEW t \in Transports, AcceptorStep(t) PROVE TakenInv' /\ SessionInv' /\ LimiterInv'
  BY <1>0, <1>1 DEF AcceptorStep, Listen, ListenFails, StoreListener, AcceptClosed
<1>2. ASSUME NEW c \in Conns, Accept(c) PROVE TakenInv' /\ SessionInv' /\ LimiterInv'
  <2>1. SessionInv' /\ LimiterInv'
    BY <1>0, <1>2, Zenon DEF Accept
  <2>2. TakenInv'
    BY <1>0, <1>2 DEF Accept
  <2> QED
    BY <2>1, <2>2, Zenon
<1>3. ASSUME NEW c \in Conns, Spawn(c) PROVE TakenInv' /\ SessionInv' /\ LimiterInv'
  <2>0. pc[c] = "taken" /\ transport(c) \in Transports
    BY <1>0, <1>3, Zenon DEF Spawn
  <2>1. SessionInv' /\ LimiterInv'
    BY <1>0, <1>3, <2>0 DEF Spawn
  <2>2. TakenInv'
    BY <1>0, <1>3, <2>0 DEF Spawn
  <2> QED
    BY <2>1, <2>2, Zenon
<1>4. ASSUME NEW c \in Conns, HandlerStep(c) PROVE TakenInv' /\ SessionInv' /\ LimiterInv'
  <2>1. CASE AllowConnection(c)
    BY <1>0, <2>1 DEF AllowConnection, Goto, accepting
  <2>2. CASE createSession(c)
    BY <1>0, <2>2 DEF createSession, Goto, accepting
  <2>3. CASE closeSession(c)
    BY <1>0, <2>3 DEF closeSession, Goto, accepting
  <2>4. CASE ReleaseConnection(c)
    BY <1>0, <2>4 DEF ReleaseConnection, Goto, accepting
  <2>5. CASE HandlerDone(c)
    BY <1>0, <2>5 DEF HandlerDone, Goto, accepting
  <2> QED
    BY <1>4, <2>1, <2>2, <2>3, <2>4, <2>5, Zenon DEF HandlerStep
<1>5. ASSUME NEW c \in Conns, ServeStep(c) PROVE TakenInv' /\ SessionInv' /\ LimiterInv'
  BY <1>0, <1>5 DEF ServeStep, ReadFrame, WriteReturns, ReadStops, Goto, accepting
<1>6. ASSUME NEW c \in Conns, Elsewhere(c) PROVE TakenInv' /\ SessionInv' /\ LimiterInv'
  BY <1>0, <1>6, Zenon DEF Elsewhere, AcceptStream, StreamEnds, PeerCloses, DeadlineExpires, accepting
<1>7. CASE Shutdown
  BY <1>0, <1>7 DEF Shutdown, CloseShutdownCh, CloseListener, WaitReturns, ContextDone, accepting
<1>8. CASE UNCHANGED vars
  BY <1>0, <1>8, Zenon DEF vars, accepting
<1> QED
  BY <1>1, <1>2, <1>3, <1>4, <1>5, <1>6, <1>7, <1>8, NextCases, Zenon

\* A step that touches neither a slot nor a handler that holds one.
LEMMA SlotsKept ==
  ASSUME SlotsExact, connections' = connections, \A a \in Addrs : Holders(a)' = Holders(a)
  PROVE  SlotsExact'
  BY Zenon DEF SlotsExact

LEMMA SlotsStep == IInv /\ [Next]_vars => SlotsExact'
<1> SUFFICES ASSUME IInv, [Next]_vars PROVE SlotsExact'
  BY Zenon
<1>0. TypeOK /\ SlotsExact
  BY Zenon DEF IInv
<1>1. ASSUME NEW c \in Conns, OnlyHandler(c), connections' = connections,
             pc[c] \in Holding <=> pc'[c] \in Holding
      PROVE  SlotsExact'
  BY <1>0, <1>1, HolderMoves, SlotsKept, Zenon
<1>2. ASSUME acceptor' = acceptor, pc' = pc, connections' = connections PROVE SlotsExact'
  BY <1>0, <1>2, StillCounted, SlotsKept, Zenon
<1>3. ASSUME NEW t \in Transports, AcceptorStep(t) PROVE SlotsExact'
  <2>1. connections' = connections /\ pc' = pc
    BY <1>3, Zenon DEF AcceptorStep, Listen, ListenFails, StoreListener, AcceptClosed
  <2>2. \A a \in Addrs : Holders(a)' = Holders(a)
    BY <2>1, Zenon DEF Holders
  <2> QED
    BY <1>0, <2>1, <2>2, SlotsKept, Zenon
<1>4. ASSUME NEW c \in Conns, Accept(c) PROVE SlotsExact'
  <2>1. /\ OnlyHandler(c) /\ connections' = connections
        /\ pc[c] \notin Holding /\ pc'[c] \notin Holding
    BY <1>0, <1>4, Zenon DEF TypeOK, OnlyHandler, Accept, Holding
  <2> QED
    BY <1>1, <2>1, Zenon
<1>5. ASSUME NEW c \in Conns, Spawn(c) PROVE SlotsExact'
  <2>0. pc[c] = "taken"
    BY <1>5, Zenon DEF IInv, TakenInv, Spawn
  <2>1. /\ OnlyHandler(c) /\ connections' = connections
        /\ pc[c] \notin Holding /\ pc'[c] \notin Holding
    BY <1>0, <1>5, <2>0, Zenon DEF TypeOK, OnlyHandler, Spawn, Holding
  <2> QED
    BY <1>1, <2>1, Zenon
<1>6. ASSUME NEW c \in Conns, AllowConnection(c) PROVE SlotsExact'
  <2>0. c \in TCPConns /\ RemoteAddr[c] \in Addrs /\ OnlyHandler(c) /\ pc[c] \notin Holding
    BY <1>0, <1>6, ServerAssumption, Zenon DEF TypeOK, OnlyHandler, AllowConnection, Goto, Holding
  <2>1. CASE pc'[c] = "exit" /\ connections' = connections
    BY <1>1, <2>0, <2>1, Zenon DEF Holding
  <2>2. CASE /\ pc'[c] = "admitted" /\ connections[RemoteAddr[c]] < MaxPerIP
             /\ connections' = [connections EXCEPT ![RemoteAddr[c]] = @ + 1]
    <3> SUFFICES ASSUME NEW a \in Addrs
                 PROVE  connections'[a] = Cardinality(Holders(a)') /\ connections'[a] <= MaxPerIP
      BY Zenon DEF SlotsExact
    <3>0. connections[a] = Cardinality(Holders(a)) /\ connections[a] <= MaxPerIP /\ connections[a] \in Nat
      BY <1>0, Zenon DEF SlotsExact, TypeOK
    <3>1. CASE a = RemoteAddr[c]
      <4>1. Cardinality(Holders(a)') = Cardinality(Holders(a)) + 1
        BY <2>0, <2>2, <3>1, HolderMoves, Zenon DEF Holding
      <4>2. connections'[a] = connections[a] + 1
        BY <1>0, <2>2, <3>1, Zenon DEF TypeOK
      <4> QED
        BY <2>2, <3>0, <3>1, <4>1, <4>2, ServerAssumption
    <3>2. CASE a # RemoteAddr[c]
      <4>1. Holders(a)' = Holders(a)
        BY <2>0, <3>2, HolderMoves, Zenon
      <4> QED
        BY <1>0, <2>2, <3>0, <3>2, <4>1, Zenon DEF TypeOK
    <3> QED
      BY <3>1, <3>2, Zenon
  <2>3. \/ pc'[c] = "exit" /\ connections' = connections
        \/ /\ pc'[c] = "admitted" /\ connections[RemoteAddr[c]] < MaxPerIP
           /\ connections' = [connections EXCEPT ![RemoteAddr[c]] = @ + 1]
    BY <1>0, <1>6, Zenon DEF TypeOK, AllowConnection, Goto
  <2> QED
    BY <2>1, <2>2, <2>3, Zenon
<1>7. ASSUME NEW c \in Conns, ReleaseConnection(c) PROVE SlotsExact'
  <2>0. /\ pc[c] = "release" /\ pc'[c] = "exit" /\ OnlyHandler(c)
        /\ connections' = [connections EXCEPT ![RemoteAddr[c]] = IF @ > 0 THEN @ - 1 ELSE @]
    BY <1>0, <1>7, Zenon DEF TypeOK, OnlyHandler, ReleaseConnection, Goto
  <2>1. c \in TCPConns
    BY <2>0, Zenon DEF IInv, LimiterInv
  <2>2. RemoteAddr[c] \in Addrs
    BY <2>1, ServerAssumption, Zenon
  <2> SUFFICES ASSUME NEW a \in Addrs
               PROVE  connections'[a] = Cardinality(Holders(a)') /\ connections'[a] <= MaxPerIP
    BY Zenon DEF SlotsExact
  <2>3. connections[a] = Cardinality(Holders(a)) /\ connections[a] <= MaxPerIP /\ connections[a] \in Nat
    BY <1>0, Zenon DEF SlotsExact, TypeOK
  <2>4. CASE a = RemoteAddr[c]
    <3>1. Cardinality(Holders(a)') = Cardinality(Holders(a)) - 1
      BY <2>0, <2>1, <2>4, HolderMoves, Zenon DEF Holding
    <3>2. connections[a] > 0
      <4>1. c \in Holders(a)
        BY <2>0, <2>1, <2>4, Zenon DEF Holders
      <4>2. Cardinality(Holders(a)) # 0
        BY <4>1, FiniteParts, FS_EmptySet, Zenon
      <4> QED
        BY <2>3, <4>2
    <3>3. connections'[a] = connections[a] - 1
      BY <1>0, <2>0, <2>4, <3>2, Zenon DEF TypeOK
    <3> QED
      BY <2>3, <3>1, <3>3, ServerAssumption
  <2>5. CASE a # RemoteAddr[c]
    <3>1. Holders(a)' = Holders(a)
      BY <2>0, <2>5, HolderMoves, Zenon
    <3> QED
      BY <1>0, <2>0, <2>3, <2>5, <3>1, Zenon DEF TypeOK
  <2> QED
    BY <2>4, <2>5, Zenon
<1>8. ASSUME NEW c \in Conns, createSession(c) PROVE SlotsExact'
  <2>1. CASE c \in TCPConns
    <3>1. /\ OnlyHandler(c) /\ connections' = connections
          /\ pc[c] \in Holding /\ pc'[c] \in Holding
      BY <1>0, <1>8, <2>1, Zenon DEF TypeOK, OnlyHandler, createSession, Goto, Holding
    <3> QED
      BY <1>1, <3>1, Zenon
  <2>2. CASE c \notin TCPConns
    <3>1. OnlyHandler(c) /\ connections' = connections
      BY <1>0, <1>8, Zenon DEF TypeOK, OnlyHandler, createSession, Goto
    <3> QED
      BY <1>0, <2>2, <3>1, HolderMoves, SlotsKept, Zenon
  <2> QED
    BY <2>1, <2>2, Zenon
<1>9. ASSUME NEW c \in Conns, closeSession(c) PROVE SlotsExact'
  <2>1. CASE c \in TCPConns
    <3>1. /\ OnlyHandler(c) /\ connections' = connections
          /\ pc[c] \in Holding /\ pc'[c] \in Holding
      BY <1>0, <1>9, <2>1, Zenon DEF TypeOK, OnlyHandler, closeSession, Goto, Holding
    <3> QED
      BY <1>1, <3>1, Zenon
  <2>2. CASE c \notin TCPConns
    <3>1. OnlyHandler(c) /\ connections' = connections
      BY <1>0, <1>9, Zenon DEF TypeOK, OnlyHandler, closeSession, Goto
    <3> QED
      BY <1>0, <2>2, <3>1, HolderMoves, SlotsKept, Zenon
  <2> QED
    BY <2>1, <2>2, Zenon
<1>10. ASSUME NEW c \in Conns, HandlerDone(c) PROVE SlotsExact'
  <2>1. /\ OnlyHandler(c) /\ connections' = connections
        /\ pc[c] \notin Holding /\ pc'[c] \notin Holding
    BY <1>0, <1>10, Zenon DEF TypeOK, OnlyHandler, HandlerDone, Goto, Holding
  <2> QED
    BY <1>1, <2>1, Zenon
<1>11. ASSUME NEW c \in Conns, ServeStep(c) PROVE SlotsExact'
  <2>1. /\ OnlyHandler(c) /\ connections' = connections
        /\ pc[c] \in Holding /\ pc'[c] \in Holding
    BY <1>0, <1>11 DEF TypeOK, OnlyHandler, ServeStep, ReadFrame, WriteReturns, ReadStops, Goto, Holding
  <2> QED
    BY <1>1, <2>1, Zenon
<1>12. ASSUME NEW c \in Conns, Elsewhere(c) PROVE SlotsExact'
  BY <1>2, <1>12, Zenon DEF Elsewhere, AcceptStream, StreamEnds, PeerCloses, DeadlineExpires, accepting
<1>13. CASE Shutdown
  BY <1>2, <1>13, Zenon DEF Shutdown, CloseShutdownCh, CloseListener, WaitReturns, ContextDone, accepting
<1>14. CASE UNCHANGED vars
  BY <1>2, <1>14, Zenon DEF vars, accepting
<1> QED
  BY <1>3, <1>4, <1>5, <1>6, <1>7, <1>8, <1>9, <1>10, <1>11, <1>12, <1>13, <1>14, NextCases, Zenon
     DEF HandlerStep

-----------------------------------------------------------------------------
\* A goroutine that s.wg counts keeps the counter above zero.
LEMMA LiveCounts ==
  ASSUME IInv
  PROVE  /\ \A t \in Transports : acceptor[t] # "done" => wg > 0
         /\ \A c \in Conns : pc[c] \notin Idle => wg > 0
<1>1. /\ Cardinality(LiveAcceptors) \in Nat /\ Cardinality(LiveHandlers) \in Nat
      /\ LiveAcceptors # {} => Cardinality(LiveAcceptors) # 0
      /\ LiveHandlers # {} => Cardinality(LiveHandlers) # 0
  BY FiniteParts, FS_CardinalityType, FS_EmptySet, Zenon
<1>2. wg = Cardinality(LiveAcceptors) + Cardinality(LiveHandlers)
  BY Zenon DEF IInv, CountInv
<1>3. ASSUME NEW t \in Transports, acceptor[t] # "done" PROVE wg > 0
  <2>1. LiveAcceptors # {}
    BY <1>3, Zenon DEF LiveAcceptors
  <2> QED
    BY <1>1, <1>2, <2>1
<1>4. ASSUME NEW c \in Conns, pc[c] \notin Idle PROVE wg > 0
  <2>1. LiveHandlers # {}
    BY <1>4, Zenon DEF LiveHandlers, Idle
  <2> QED
    BY <1>1, <1>2, <2>1
<1> QED
  BY <1>3, <1>4, Zenon

\* Only a goroutine that is counted changes the counter, so it stays at zero.
LEMMA CleanStep == IInv /\ [Next]_vars => CleanInv'
<1> SUFFICES ASSUME IInv, [Next]_vars PROVE CleanInv'
  BY Zenon
<1>0. CleanInv
  BY Zenon DEF IInv, CleanInv
<1>1. ASSUME NEW t \in Transports, AcceptorStep(t) PROVE CleanInv'
  <2>1. acceptor[t] # "done" /\ shutdown' = shutdown
    BY <1>1, Zenon DEF AcceptorStep, Listen, ListenFails, StoreListener, AcceptClosed
  <2> QED
    BY <1>0, <2>1, LiveCounts DEF CleanInv
<1>2. ASSUME NEW c \in Conns, Accept(c) PROVE CleanInv'
  BY <1>0, <1>2, Zenon DEF Accept, CleanInv
<1>3. ASSUME NEW c \in Conns, Spawn(c) PROVE CleanInv'
  <2>1. transport(c) \in Transports /\ acceptor[transport(c)] # "done" /\ shutdown' = shutdown
    BY <1>3, Zenon DEF Spawn
  <2> QED
    BY <1>0, <2>1, LiveCounts DEF CleanInv
<1>4. ASSUME NEW c \in Conns, HandlerStep(c) PROVE CleanInv'
  <2>1. pc[c] \notin Idle /\ shutdown' = shutdown
    BY <1>4, Zenon DEF HandlerStep, AllowConnection, createSession, closeSession, ReleaseConnection,
                HandlerDone, Goto, Idle
  <2> QED
    BY <1>0, <2>1, LiveCounts DEF CleanInv
<1>5. ASSUME NEW c \in Conns, ServeStep(c) PROVE CleanInv'
  BY <1>0, <1>5, Zenon DEF ServeStep, ReadFrame, WriteReturns, ReadStops, CleanInv
<1>6. ASSUME NEW c \in Conns, Elsewhere(c) PROVE CleanInv'
  BY <1>0, <1>6, Zenon DEF Elsewhere, AcceptStream, StreamEnds, PeerCloses, DeadlineExpires, CleanInv
<1>7. CASE Shutdown
  BY <1>0, <1>7, Zenon DEF Shutdown, CloseShutdownCh, CloseListener, WaitReturns, ContextDone, CleanInv
<1>8. CASE UNCHANGED vars
  BY <1>0, <1>8, Zenon DEF vars, CleanInv
<1> QED
  BY <1>1, <1>2, <1>3, <1>4, <1>5, <1>6, <1>7, <1>8, NextCases, Zenon

LEMMA StepIInv == IInv /\ [Next]_vars => IInv'
  BY CountStep, TypeStep, LabelStep, SlotsStep, CleanStep, Zenon DEF IInv

\* In every reachable state the wait group counts exactly the accept loops and
\* handlers that run, the session table lists exactly the handlers between
\* createSession and closeSession, and the limiter counts the slots they hold.
THEOREM Inductive == Spec => []IInv
  BY InitIInv, StepIInv, PTL DEF Spec

\* The server's fields keep their types; in particular s.wg never goes negative.
THEOREM TypeCorrect == Spec => []TypeOK
<1>1. IInv => TypeOK
  BY Zenon DEF IInv
<1> QED
  BY <1>1, Inductive, PTL

\* connLimiter.connections is exact for every number of connections and limit.
THEOREM SlotsExactHolds == Spec => []SlotsExact
<1>1. IInv => SlotsExact
  BY Zenon DEF IInv
<1> QED
  BY <1>1, Inductive, PTL

\* The accept loop that is about to call s.wg.Add(1) is itself counted.
THEOREM NoAddFromZeroHolds == Spec => []NoAddFromZero
<1>1. IInv => NoAddFromZero
  BY LiveCounts, Zenon DEF NoAddFromZero
<1> QED
  BY <1>1, Inductive, PTL

\* After "stopped cleanly" nothing of the server runs and nothing is left over.
THEOREM CleanMeansStoppedHolds == Spec => []CleanMeansStopped
<1>1. ASSUME IInv PROVE CleanMeansStopped
  <2> SUFFICES ASSUME shutdown = "clean"
               PROVE  /\ LiveAcceptors = {} /\ LiveHandlers = {}
                      /\ \A t \in Transports : taken[t] = {}
                      /\ sessions = {}
                      /\ connections = [a \in Addrs |-> 0]
    BY Zenon DEF CleanMeansStopped
  <2>0. TypeOK /\ TakenInv /\ SessionInv /\ SlotsExact /\ wg = 0
    BY <1>1, Zenon DEF IInv, CleanInv
  <2>1. /\ \A t \in Transports : acceptor[t] = "done"
        /\ \A c \in Conns : pc[c] \in Idle
    BY <1>1, <2>0, LiveCounts
  <2>2. LiveAcceptors = {} /\ LiveHandlers = {}
    BY <2>1, Zenon DEF LiveAcceptors, LiveHandlers, Idle
  <2>3. \A t \in Transports : taken[t] = {}
    BY <2>0, <2>1, Zenon DEF TakenInv
  <2>4. sessions = {}
    BY <2>0, <2>1, Zenon DEF TypeOK, SessionInv, Idle
  <2>5. ASSUME NEW a \in Addrs PROVE connections[a] = 0
    <3>1. Holders(a) = {}
      BY <2>1, Zenon DEF Holders, Conns, Idle
    <3> QED
      BY <2>0, <3>1, FS_EmptySet, Zenon DEF SlotsExact
  <2> QED
    BY <2>0, <2>2, <2>3, <2>4, <2>5, Zenon DEF TypeOK
<1> QED
  BY <1>1, Inductive, PTL

-----------------------------------------------------------------------------
(* ServerStateMachine: the drain flag and what the methods reach *)

MachineInv == MachineTypeOK /\ DrainingExact /\ NeverReadyUnaided

LEMMA MachineInitInv == MachineInit => MachineInv
  BY Zenon DEF MachineInit, MachineInv, MachineTypeOK, States, DrainingExact, NeverReadyUnaided

LEMMA MachineStep == MachineInv /\ [MachineNext]_machine => MachineInv'
<1> SUFFICES ASSUME MachineInv, [MachineNext]_machine PROVE MachineInv'
  BY Zenon
<1> USE MovesAssumption DEF MachineInv, MachineTypeOK, States, DrainingExact,
        NeverReadyUnaided, SetState, OnChange, isValidTransition
<1>1. CASE Start \/ Ready
  BY <1>1, Zenon DEF Start, Ready
<1>2. CASE ForceClose
  BY <1>2, Zenon DEF ForceClose
<1>3. ASSUME NEW to \in Moves, Move(to) PROVE MachineInv'
  BY <1>3, Zenon DEF Move
<1>4. ASSUME NEW g \in Stoppers, BeginShutdown(g) PROVE MachineInv'
  BY <1>4, Zenon DEF BeginShutdown
<1>5. ASSUME NEW g \in Stoppers, FlagDraining(g) PROVE MachineInv'
  BY <1>5, Zenon DEF FlagDraining
<1>6. ASSUME NEW g \in Stoppers, EndShutdown(g) PROVE MachineInv'
  BY <1>6, Zenon DEF EndShutdown
<1>7. CASE UNCHANGED machine
  BY <1>7, Zenon DEF machine
<1> QED
  BY <1>1, <1>2, <1>3, <1>4, <1>5, <1>6, <1>7, Zenon DEF MachineNext

\* The flag draining, the state and the calls of GracefulShutdown agree as long
\* as no ForceClose cuts such a call short.
THEOREM DrainingExactHolds == MachineSpec => []DrainingExact
<1>1. MachineInv => DrainingExact
  BY Zenon DEF MachineInv
<1> QED
  BY MachineInitInv, MachineStep, <1>1, PTL DEF MachineSpec

\* With the methods of ServerStateMachine alone, Ready and GracefulShutdown
\* always fail.
THEOREM NeverReadyHolds == MachineSpec => []NeverReadyUnaided
<1>1. MachineInv => NeverReadyUnaided
  BY Zenon DEF MachineInv
<1> QED
  BY MachineInitInv, MachineStep, <1>1, PTL DEF MachineSpec

=============================================================================
