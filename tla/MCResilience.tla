---------------------------- MODULE MCResilience -----------------------------
(***************************************************************************)
(* The parts of state.go, loadbalancer.go and the client's batch.rs and    *)
(* config.rs that share nothing, each run on its own: a behaviour picks    *)
(* one of them at the start.                                               *)
(***************************************************************************)
EXTENDS CircuitBreaker, LoadBalancer, ServerStateMachine, BackPressureController

VARIABLE part

vars == <<part, breaker, balancer, machine, pressure>>

Init ==
  /\ part \in {"breaker", "balancer", "machine", "pressure"}
  /\ BreakerInit /\ BalancerInit /\ MachineInit /\ PressureInit
  \* The variables of the other parts stand still, in one state.
  /\ part # "breaker" => build = "go"
  /\ part # "machine" => ~aided

BreakerPart(A) == part = "breaker" /\ A /\ UNCHANGED <<part, balancer, machine, pressure>>

Next ==
  \/ BreakerPart(BreakerNext)
  \/ part = "balancer" /\ BalancerNext /\ UNCHANGED <<part, breaker, machine, pressure>>
  \/ part = "machine" /\ MachineNext /\ UNCHANGED <<part, breaker, balancer, pressure>>
  \/ part = "pressure" /\ PressureNext /\ UNCHANGED <<part, breaker, balancer, machine>>

\* The fairness of BreakerSpec; the other parts have none.
Spec ==
  /\ Init /\ [][Next]_vars
  /\ WF_vars(BreakerPart(BreakerTick))
  /\ \A c \in Callers : WF_vars(BreakerPart(Finish(c)))

=============================================================================
