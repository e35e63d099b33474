--------------------------- MODULE SessionManager ----------------------------
(***************************************************************************)
(* SessionManager of server/webbou/auth.go: a table of sessions that time  *)
(* out.  GetSession looks a session up under the read lock and judges its  *)
(* age after giving the lock up, while others refresh or delete it.  Times *)
(* are kept as ages, which stop counting once they exceed the timeout.     *)
(* The token and the keys of a session are left out.                       *)
(***************************************************************************)
EXTENDS Integers

CONSTANTS
  IDs,        \* session identifiers; generateSecureToken never repeats one
  Getters,    \* goroutines that call GetSession
  Timeout     \* sm.timeout

ASSUME SessionAssumption == Timeout \in Nat

VARIABLES
  sessions,       \* keys of sm.sessions
  idle,           \* time since LastActivity of each session object
  authenticated,  \* sessions with Authenticated set
  stage, key,        \* of each GetSession: its step and the session it looked up
  created,        \* history: the sessions ever created, those that
  deleted,        \* DeleteSession was called for, and those that have been
  lapsed          \* idle for longer than Timeout at some time

table == <<sessions, idle, authenticated>>
getting == <<stage, key>>
history == <<created, deleted, lapsed>>
sessionVars == <<table, getting, history>>

Expired(id) == idle[id] > Timeout

SessionInit ==
  /\ sessions = {} /\ authenticated = {}
  /\ idle = [id \in IDs |-> 0]
  /\ stage = [g \in Getters |-> "idle"] /\ key \in [Getters -> IDs]
  /\ created = {} /\ deleted = {} /\ lapsed = {}

\* Fails, and changes nothing, when there are no random bytes to be had.
CreateSession(id) ==
  /\ id \notin created
  /\ sessions' = sessions \cup {id} /\ created' = created \cup {id}
  /\ idle' = [idle EXCEPT ![id] = 0]
  /\ UNCHANGED <<authenticated, getting, deleted, lapsed>>

\* Fails, and changes nothing, when the session is not there.
UpdateActivity(id) ==
  /\ id \in sessions
  /\ idle' = [idle EXCEPT ![id] = 0]
  /\ UNCHANGED <<sessions, authenticated, getting, history>>

AuthenticateSession(id) ==
  /\ id \in sessions
  /\ authenticated' = authenticated \cup {id}
  /\ idle' = [idle EXCEPT ![id] = 0]
  /\ UNCHANGED <<sessions, getting, history>>

DeleteSession(id) ==
  /\ sessions' = sessions \ {id}
  /\ deleted' = deleted \cup {id}
  /\ UNCHANGED <<idle, authenticated, getting, created, lapsed>>

-----------------------------------------------------------------------------
(* GetSession *)

Lookup(g, id) ==
  /\ stage[g] = "idle" /\ id \in sessions
  /\ stage' = [stage EXCEPT ![g] = "judge"]
  /\ key' = [key EXCEPT ![g] = id]
  /\ UNCHANGED <<table, history>>

Eager_Judge(g) ==
  /\ stage[g] = "judge"
  /\ stage' = [stage EXCEPT ![g] = IF idle[key[g]] >= Timeout THEN "delete" ELSE "idle"]
  /\ UNCHANGED <<table, key, history>>

\* time.Since(session.LastActivity), without the lock.
Judge(g) ==
  /\ stage[g] = "judge"
  /\ stage' = [stage EXCEPT ![g] = IF Expired(key[g]) THEN "delete" ELSE "idle"]
  /\ UNCHANGED <<table, key, history>>

\* DeleteSession of the session that was judged expired.
DeleteExpired(g) ==
  /\ stage[g] = "delete"
  /\ sessions' = sessions \ {key[g]}
  /\ stage' = [stage EXCEPT ![g] = "idle"]
  /\ UNCHANGED <<idle, authenticated, key, history>>

-----------------------------------------------------------------------------
Forgetful_cleanupExpired == FALSE /\ UNCHANGED sessionVars

\* One pass of the cleanup goroutine.
cleanupExpired ==
  /\ \E id \in sessions : Expired(id)
  /\ sessions' = {id \in sessions : ~Expired(id)}
  /\ UNCHANGED <<idle, authenticated, getting, history>>

SessionTick ==
  /\ idle' = [id \in IDs |-> IF id \in created /\ ~Expired(id)
                             THEN idle[id] + 1 ELSE idle[id]]
  /\ lapsed' = lapsed \cup {id \in created : idle'[id] > Timeout}
  /\ UNCHANGED <<sessions, authenticated, getting, created, deleted>>

SessionNext ==
  \/ \E id \in IDs : \/ CreateSession(id) \/ UpdateActivity(id)
                     \/ AuthenticateSession(id) \/ DeleteSession(id)
  \/ \E g \in Getters : \/ \E id \in IDs : Lookup(g, id)
                        \/ Judge(g) \/ DeleteExpired(g)
  \/ cleanupExpired
  \/ SessionTick

\* The ticker of the cleanup goroutine keeps ticking.
SessionSpec == SessionInit /\ [][SessionNext]_sessionVars /\ WF_sessionVars(cleanupExpired)

-----------------------------------------------------------------------------
\* Types; the table holds only sessions that CreateSession made.
SessionTypeOK ==
  /\ created \subseteq IDs /\ deleted \subseteq IDs /\ lapsed \subseteq created
  /\ sessions \subseteq created /\ authenticated \subseteq created
  /\ idle \in [IDs -> 0..Timeout + 1]
  /\ stage \in [Getters -> {"idle", "judge", "delete"}]
  /\ key \in [Getters -> IDs]

\* A session whose owner shows activity often enough and that nobody deletes
\* is never lost, however GetSession, refreshes and the cleanup interleave.
Kept == created \ (deleted \cup lapsed) \subseteq sessions

\* An idle session does not stay: it is dropped, unless it is refreshed.
IdleDropped == \A id \in IDs :
  (id \in sessions /\ Expired(id)) ~> (id \notin sessions \/ ~Expired(id))

=============================================================================
