------------------------------- MODULE MCLink --------------------------------
(***************************************************************************)
(* The heartbeats of the client and the two readers of a stream of frames, *)
(* which share nothing, each run on its own: a behaviour picks one of them *)
(* at the start.                                                           *)
(***************************************************************************)
EXTENDS Heartbeat, FrameReader

\* Good frames with and without a payload, one that is too long, and one of
\* each kind of bad frame.
MCFrames == [kind : {"ok"}, len : 0..2] \cup [kind : Kinds, len : {1}]

VARIABLE part

all == <<part, vars, readerVars>>

MCInit == part \in {"heartbeat", "reader"} /\ Init /\ ReaderInit

HeartbeatPart(A) == part = "heartbeat" /\ A /\ UNCHANGED <<part, readerVars>>
ReaderPart(A) == part = "reader" /\ A /\ UNCHANGED <<part, vars>>

MCNext == HeartbeatPart(Next) \/ ReaderPart(ReaderNext)

\* The fairness of Spec and of ReaderSpec.
MCSpec ==
  /\ MCInit /\ [][MCNext]_all
  /\ WF_all(HeartbeatPart(Advance))
  /\ \A h \in Beats : WF_all(HeartbeatPart(Beat(h))) /\ SF_all(HeartbeatPart(Ping(h)))
  /\ WF_all(ReaderPart(Read)) /\ WF_all(ReaderPart(InnerLoop))

=============================================================================
