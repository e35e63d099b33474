------------------------------- MODULE MCAuth --------------------------------
(***************************************************************************)
(* The managers of auth.go, which share nothing, each run on its own: a    *)
(* behaviour picks one of them at the start.                               *)
(***************************************************************************)
EXTENDS SessionManager, ZeroRTTManager, FlowControlManager, MultiPathManager

VARIABLE part

all == <<part, sessionVars, pskVars, flow, multipath>>

MCInit ==
  /\ part \in {"sessions", "psks", "flow", "paths"}
  /\ SessionInit /\ PSKInit /\ FlowInit /\ PathInit
  \* The variables of the other parts stand still, in one state.
  /\ part # "sessions" => key = [g \in Getters |-> CHOOSE id \in IDs : TRUE]

SessionPart(A) == part = "sessions" /\ A /\ UNCHANGED <<part, pskVars, flow, multipath>>
PSKPart(A) == part = "psks" /\ A /\ UNCHANGED <<part, sessionVars, flow, multipath>>

MCNext ==
  \/ SessionPart(SessionNext)
  \/ PSKPart(PSKNext)
  \/ part = "flow" /\ FlowNext /\ UNCHANGED <<part, sessionVars, pskVars, multipath>>
  \/ part = "paths" /\ PathNext /\ UNCHANGED <<part, sessionVars, pskVars, flow>>

\* The fairness of SessionSpec and of PSKSpec.
MCSpec ==
  /\ MCInit /\ [][MCNext]_all
  /\ WF_all(SessionPart(cleanupExpired)) /\ WF_all(PSKPart(cleanupExpiredPSKs))

\* Neither an idle session nor an expired pre-shared key stays in its table:
\* the passes of the two cleanup goroutines drop it, unless it is refreshed or
\* replaced before.
LapsedDropped == IdleDropped /\ ExpiredDropped

=============================================================================
