------------------------------ MODULE MCLimits -------------------------------
(***************************************************************************)
(* The rate limiter, the DDOSProtector, to which the answers of its rate   *)
(* limiter are arbitrary, and the ConfigManager, which share nothing, each *)
(* run on its own: a behaviour picks one of them at the start.             *)
(***************************************************************************)
EXTENDS RateLimiter, DDOSProtector, ConfigManager

\* The amounts the global bucket is asked for: more than half of it, and more than it holds.
MCRequests == {12 * Unit, 21 * Unit}

VARIABLE part

all == <<part, vars, protector, configVars>>

MCInit ==
  /\ part \in {"limiter", "protector", "config"}
  /\ Init /\ ProtectorInit /\ ConfigInit
  \* The variables of the other parts stand still, in one state.
  /\ part # "config" => config = Default /\ file.yaml = CHOOSE y \in Yaml : TRUE

ConfigPart(A) == part = "config" /\ A /\ UNCHANGED <<part, vars, protector>>

MCNext ==
  \/ part = "limiter" /\ Next /\ UNCHANGED <<part, protector, configVars>>
  \/ part = "protector" /\ ProtectorNext /\ UNCHANGED <<part, vars, configVars>>
  \/ ConfigPart(ConfigNext)

\* The fairness of ConfigSpec; the other parts have none.
MCSpec ==
  /\ MCInit /\ [][MCNext]_all
  /\ WF_all(ConfigPart(WatcherStep)) /\ SF_all(ConfigPart(Install(watcher)))
  /\ \A c \in Callers : WF_all(ConfigPart(Notify(c))) /\ SF_all(ConfigPart(Install(c)))

=============================================================================
