------------------------- MODULE ServerStateMachine --------------------------
(***************************************************************************)
(* StateMachine and ServerStateMachine of server/webbou/state.go.  SetState *)
(* checks, calls the callback of the new state and moves under sm.mu, so   *)
(* it is one action; the callbacks of ServerStateMachine keep its flag     *)
(* draining.  GracefulShutdown takes three steps.  The log of transitions  *)
(* and the times, which no method reads, are left out.                     *)
(***************************************************************************)
EXTENDS Integers

CONSTANTS
  Stoppers,   \* goroutines that call GracefulShutdown
  Moves       \* states other code of the package may set through ssm.sm

States == {"CLOSED", "CONNECTING", "CONNECTED", "AUTH", "READY", "CLOSING", "DRAINING"}

\* Start, Ready and the shutdowns set the other states.
ASSUME MovesAssumption == Moves \subseteq {"CONNECTED", "AUTH", "DRAINING"}

VARIABLES
  aided,      \* is there other code that sets the states of Moves?
  smState,    \* sm.state
  draining,
  stopping,   \* where each call of GracefulShutdown is
  overtaken   \* history: has a ForceClose succeeded during such a call?

machine == <<aided, smState, draining, stopping, overtaken>>

MachineInit ==
  /\ aided \in BOOLEAN
  /\ smState = "CLOSED" /\ draining = FALSE
  /\ stopping = [g \in Stoppers |-> "idle"] /\ overtaken = FALSE

isValidTransition(from, to) ==
  \/ from = "CLOSED" /\ to = "CONNECTING"
  \/ from = "CONNECTING" /\ to \in {"CONNECTED", "CLOSED"}
  \/ from = "CONNECTED" /\ to \in {"AUTH", "CLOSED"}
  \/ from = "AUTH" /\ to \in {"READY", "CLOSED"}
  \/ from = "READY" /\ to \in {"CLOSING", "CLOSED"}
  \/ from = "CLOSING" /\ to \in {"DRAINING", "CLOSED"}
  \/ from = "DRAINING" /\ to = "CLOSED"

\* The callbacks of NewServerStateMachine.
OnChange(to) == CASE to = "CLOSING" -> TRUE
                  [] to = "CLOSED" -> FALSE
                  [] OTHER -> draining

\* An invalid transition is an error and changes nothing.
SetState(to) ==
  /\ isValidTransition(smState, to)
  /\ smState' = to
  /\ draining' = OnChange(to)
  /\ UNCHANGED aided

Start == SetState("CONNECTING") /\ UNCHANGED <<stopping, overtaken>>

Ready == SetState("READY") /\ UNCHANGED <<stopping, overtaken>>

Move(to) == aided /\ SetState(to) /\ UNCHANGED <<stopping, overtaken>>

ForceClose ==
  /\ SetState("CLOSED")
  /\ overtaken' = (overtaken \/ \E g \in Stoppers : stopping[g] # "idle")
  /\ UNCHANGED stopping

-----------------------------------------------------------------------------
(* GracefulShutdown *)

Lax_BeginShutdown(g) ==
  /\ stopping[g] = "idle"
  /\ smState' = "CLOSING" /\ draining' = TRUE
  /\ stopping' = [stopping EXCEPT ![g] = "flag"]
  /\ UNCHANGED <<aided, overtaken>>

BeginShutdown(g) ==
  /\ stopping[g] = "idle"
  /\ SetState("CLOSING")
  /\ stopping' = [stopping EXCEPT ![g] = "flag"]
  /\ UNCHANGED overtaken

FlagDraining(g) ==
  /\ stopping[g] = "flag"
  /\ draining' = TRUE
  /\ stopping' = [stopping EXCEPT ![g] = "wait"]
  /\ UNCHANGED <<aided, smState, overtaken>>

\* time.After fires; the server may have been closed, and even started again.
EndShutdown(g) ==
  /\ stopping[g] = "wait"
  /\ \/ SetState("CLOSED")
     \/ ~isValidTransition(smState, "CLOSED") /\ UNCHANGED <<aided, smState, draining>>
  /\ stopping' = [stopping EXCEPT ![g] = "idle"]
  /\ UNCHANGED overtaken

MachineNext ==
  \/ Start \/ Ready \/ ForceClose
  \/ \E to \in Moves : Move(to)
  \/ \E g \in Stoppers : BeginShutdown(g) \/ FlagDraining(g) \/ EndShutdown(g)

MachineSpec == MachineInit /\ [][MachineNext]_machine

-----------------------------------------------------------------------------
\* Types.
MachineTypeOK ==
  /\ aided \in BOOLEAN /\ smState \in States /\ draining \in BOOLEAN
  /\ stopping \in [Stoppers -> {"idle", "flag", "wait"}] /\ overtaken \in BOOLEAN

\* Unless ForceClose cut a GracefulShutdown short, the flag, the state and the
\* calls agree: the server is draining exactly while it is CLOSING or DRAINING,
\* exactly while one call of GracefulShutdown is in progress, and no second
\* one is; so no call's timer closes a server that was started again.
DrainingExact ==
  ~overtaken =>
    /\ draining <=> smState \in {"CLOSING", "DRAINING"}
    /\ draining <=> \E g \in Stoppers : stopping[g] # "idle"
    /\ \A g, h \in Stoppers : stopping[g] # "idle" /\ stopping[h] # "idle" => g = h

\* On its own methods the server never becomes ready, and so no call ever shuts
\* it down gracefully: Ready needs AUTH, which none of the methods enters.
NeverReadyUnaided ==
  ~aided => /\ smState \in {"CLOSED", "CONNECTING"} /\ ~draining
            /\ \A g \in Stoppers : stopping[g] = "idle"

=============================================================================
