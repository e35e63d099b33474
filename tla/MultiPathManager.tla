-------------------------- MODULE MultiPathManager ---------------------------
(***************************************************************************)
(* MultiPathManager of server/webbou/auth.go: numbered paths that are      *)
(* added, measured and removed under mp.mu; a removed path stays in the    *)
(* map.  GetBestPath holds mp.mu for reading while its loop visits the     *)
(* paths, in the order Go iterates a map, which may be any.  Addresses and *)
(* byte counts are left out.                                               *)
(***************************************************************************)
EXTENDS Integers, Sequences

CONSTANTS
  Latencies,
  MaxPaths       \* bound on the paths ever added, below 2^32

ASSUME PathAssumption == Latencies \subseteq Int /\ MaxPaths \in Nat

VARIABLES
  activeID,      \* the last ID given out; mp.paths has the keys 1..activeID
  active,        \* paths with Active set
  latency,       \* Latency of each path
  scanning,      \* is GetBestPath running, with mp.mu held for reading?
  unvisited,     \* what its loop has still to visit
  best           \* bestID and bestLatency

paths == <<activeID, active, latency>>
scan == <<scanning, unvisited, best>>
multipath == <<paths, scan>>

NoPath == [id |-> 0, latency |-> 0]

PathInit ==
  /\ activeID = 0 /\ active = {} /\ latency = <<>>
  /\ scanning = FALSE /\ unvisited = {} /\ best = NoPath

\* A path that was not measured has latency 0.
AddPath ==
  /\ ~scanning /\ activeID < MaxPaths
  /\ activeID' = activeID + 1
  /\ active' = active \cup {activeID'}
  /\ latency' = Append(latency, 0)
  /\ UNCHANGED scan

RemovePath(id) ==
  /\ ~scanning /\ id \in 1..activeID
  /\ active' = active \ {id}
  /\ UNCHANGED <<activeID, latency, scan>>

UpdateLatency(id, l) ==
  /\ ~scanning /\ id \in 1..activeID
  /\ latency' = [latency EXCEPT ![id] = l]
  /\ UNCHANGED <<activeID, active, scan>>

-----------------------------------------------------------------------------
GetBestPath ==
  /\ ~scanning
  /\ scanning' = TRUE /\ unvisited' = 1..activeID /\ best' = NoPath
  /\ UNCHANGED paths

Unmeasured_Better(id) ==
  IF id \in active /\ (best.latency = 0 \/ latency[id] < best.latency)
  THEN [id |-> id, latency |-> latency[id]] ELSE best

Better(id) ==
  IF id \in active /\ (best.id = 0 \/ latency[id] < best.latency)
  THEN [id |-> id, latency |-> latency[id]] ELSE best

\* One round of the loop.
Visit(id) ==
  /\ scanning /\ id \in unvisited
  /\ unvisited' = unvisited \ {id}
  /\ best' = Better(id)
  /\ UNCHANGED <<paths, scanning>>

ReturnBest ==
  /\ scanning /\ unvisited = {}
  /\ scanning' = FALSE /\ best' = NoPath
  /\ UNCHANGED <<paths, unvisited>>

PathNext ==
  \/ AddPath \/ GetBestPath \/ ReturnBest
  \/ \E id \in 1..MaxPaths : \/ RemovePath(id) \/ Visit(id)
                            \/ \E l \in Latencies : UpdateLatency(id, l)

PathSpec == PathInit /\ [][PathNext]_multipath

-----------------------------------------------------------------------------
\* GetBestPath returns an active path of least latency, and nothing only if no
\* path is active, in whatever order the map is iterated and whatever paths
\* were added, measured and removed before.
BestIsLeast ==
  scanning /\ unvisited = {} =>
    IF active = {} THEN best.id = 0
    ELSE best.id \in active /\ \A id \in active : latency[best.id] <= latency[id]

=============================================================================
