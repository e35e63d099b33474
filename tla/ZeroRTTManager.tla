--------------------------- MODULE ZeroRTTManager ----------------------------
(***************************************************************************)
(* ZeroRTTManager of server/webbou/auth.go: a table of about               *)
(* MaxZeroRTTSessions pre-shared keys.  CreatePSK reads the size of the    *)
(* table without the lock, evicts the oldest key in one critical section   *)
(* and inserts in another; ValidatePSK judges a key after giving the lock  *)
(* up, and deletes in another critical section.  Times are kept as ages,   *)
(* which stop counting once a key has expired.  The secrets and the flags  *)
(* Used and Resumed, which no operation here depends on, are left out.     *)
(***************************************************************************)
EXTENDS Integers, FiniteSets

CONSTANTS
  Creators,      \* goroutines that call CreatePSK
  Validators,    \* goroutines that call ValidatePSK
  Identities,
  unnamed,       \* the identity "", which cleanupOldest takes for nothing found
  MaxZeroRTTSessions,
  ZeroRTTLifetime,
  MaxWasted      \* bound on wasted

ASSUME ZeroRTTAssumption ==
  /\ IsFiniteSet(Creators) /\ Creators # {}
  /\ IsFiniteSet(Identities) /\ Identities # {}
  /\ MaxZeroRTTSessions \in Nat \ {0} /\ ZeroRTTLifetime \in Nat /\ MaxWasted \in Nat

VARIABLES
  psks,          \* keys of zrtt.sessions
  age,               \* time since CreatedAt of the key stored for an identity
  cpc, cid, cage,    \* of each CreatePSK: step, identity, age of the key it made
  vpc, vid, vage,    \* of each ValidatePSK: step, identity, age of the key it found
  wasted             \* History: evictions that found "" and removed nothing

creating == <<cpc, cid, cage>>
validating == <<vpc, vid, vage>>
pskVars == <<psks, age, creating, validating, wasted>>

PSKExpired(a) == a > ZeroRTTLifetime

\* What a call that is over leaves in cid or in vid.
Nobody == CHOOSE id \in Identities : TRUE

PSKInit ==
  /\ psks = {} /\ wasted = 0 /\ age = [id \in Identities |-> 0]
  /\ cpc = [c \in Creators |-> "idle"] /\ cage = [c \in Creators |-> 0]
  /\ vpc = [v \in Validators |-> "idle"] /\ vage = [v \in Validators |-> 0]
  /\ cid = [c \in Creators |-> Nobody] /\ vid = [v \in Validators |-> Nobody]

\* Only these keys stay in the table.
Keep(ids) ==
  /\ psks' = ids
  /\ age' = [id \in Identities |-> IF id \in ids THEN age[id] ELSE 0]

-----------------------------------------------------------------------------
(* CreatePSK *)

Lax_CheckSize(c, id) ==
  /\ cpc[c] = "idle"
  /\ cid' = [cid EXCEPT ![c] = id]
  /\ cpc' = [cpc EXCEPT ![c] = IF Cardinality(psks) > MaxZeroRTTSessions
                               THEN "evict" ELSE "make"]
  /\ UNCHANGED <<psks, age, cage, validating, wasted>>

\* len(zrtt.sessions), without the lock.
CheckSize(c, id) ==
  /\ cpc[c] = "idle"
  /\ cid' = [cid EXCEPT ![c] = id]
  /\ cpc' = [cpc EXCEPT ![c] = IF Cardinality(psks) >= MaxZeroRTTSessions
                               THEN "evict" ELSE "make"]
  /\ UNCHANGED <<psks, age, cage, validating, wasted>>

\* No other key is older; the order of iteration decides among equals.
Oldest(id) == id \in psks /\ \A other \in psks : age[other] <= age[id]

cleanupOldest(c) ==
  /\ cpc[c] = "evict"
  /\ \/ psks = {} /\ UNCHANGED <<psks, age, wasted>>
     \/ \E id \in Identities \ {unnamed} :
          Oldest(id) /\ Keep(psks \ {id}) /\ UNCHANGED wasted
     \/ /\ Oldest(unnamed) /\ wasted < MaxWasted
        /\ wasted' = wasted + 1
        /\ UNCHANGED <<psks, age>>
  /\ cpc' = [cpc EXCEPT ![c] = "make"]
  /\ UNCHANGED <<cid, cage, validating>>

\* The key is stamped now and inserted later, or rand.Read fails.
Make(c) ==
  /\ cpc[c] = "make"
  /\ \/ cpc' = [cpc EXCEPT ![c] = "insert"] /\ UNCHANGED cid
     \/ cpc' = [cpc EXCEPT ![c] = "idle"] /\ cid' = [cid EXCEPT ![c] = Nobody]
  /\ UNCHANGED <<psks, age, cage, validating, wasted>>

Insert(c) ==
  /\ cpc[c] = "insert"
  /\ psks' = psks \cup {cid[c]}
  /\ age' = [age EXCEPT ![cid[c]] = cage[c]]
  /\ cpc' = [cpc EXCEPT ![c] = "idle"]
  /\ cid' = [cid EXCEPT ![c] = Nobody] /\ cage' = [cage EXCEPT ![c] = 0]
  /\ UNCHANGED <<validating, wasted>>

-----------------------------------------------------------------------------
(* ValidatePSK *)

FindPSK(v, id) ==
  /\ vpc[v] = "idle" /\ id \in psks
  /\ vid' = [vid EXCEPT ![v] = id]
  /\ vage' = [vage EXCEPT ![v] = age[id]]
  /\ vpc' = [vpc EXCEPT ![v] = "judge"]
  /\ UNCHANGED <<psks, age, creating, wasted>>

\* Otherwise the keys are compared, which changes nothing here.
JudgePSK(v) ==
  /\ vpc[v] = "judge"
  /\ IF PSKExpired(vage[v])
     THEN vpc' = [vpc EXCEPT ![v] = "drop"] /\ UNCHANGED vid
     ELSE vpc' = [vpc EXCEPT ![v] = "idle"] /\ vid' = [vid EXCEPT ![v] = Nobody]
  /\ vage' = [vage EXCEPT ![v] = 0]
  /\ UNCHANGED <<psks, age, creating, wasted>>

\* Whatever is now stored under the identity goes.
DropPSK(v) ==
  /\ vpc[v] = "drop"
  /\ Keep(psks \ {vid[v]})
  /\ vpc' = [vpc EXCEPT ![v] = "idle"] /\ vid' = [vid EXCEPT ![v] = Nobody]
  /\ UNCHANGED <<creating, vage, wasted>>

-----------------------------------------------------------------------------
DeletePSK(id) ==
  /\ id \in psks
  /\ Keep(psks \ {id})
  /\ UNCHANGED <<creating, validating, wasted>>

Backwards_cleanupExpiredPSKs ==
  /\ \E id \in psks : PSKExpired(age[id])
  /\ Keep({id \in psks : PSKExpired(age[id])})
  /\ UNCHANGED <<creating, validating, wasted>>

\* One pass of the cleanup goroutine.
cleanupExpiredPSKs ==
  /\ \E id \in psks : PSKExpired(age[id])
  /\ Keep({id \in psks : ~PSKExpired(age[id])})
  /\ UNCHANGED <<creating, validating, wasted>>

Older(a) == IF PSKExpired(a) THEN a ELSE a + 1

\* Time passes for the keys in the table and for those in hand.
PSKTick ==
  /\ age' = [id \in Identities |-> IF id \in psks THEN Older(age[id]) ELSE 0]
  /\ cage' = [c \in Creators |-> IF cpc[c] = "insert" THEN Older(cage[c]) ELSE 0]
  /\ vage' = [v \in Validators |-> IF vpc[v] = "judge" THEN Older(vage[v]) ELSE 0]
  /\ UNCHANGED <<psks, cpc, cid, vpc, vid, wasted>>

PSKNext ==
  \/ \E c \in Creators : \/ \E id \in Identities : CheckSize(c, id)
                         \/ cleanupOldest(c) \/ Make(c) \/ Insert(c)
  \/ \E v \in Validators : \/ \E id \in Identities : FindPSK(v, id)
                           \/ JudgePSK(v) \/ DropPSK(v)
  \/ \E id \in Identities : DeletePSK(id)
  \/ cleanupExpiredPSKs
  \/ PSKTick

\* The ticker of the cleanup goroutine keeps ticking.
PSKSpec == PSKInit /\ [][PSKNext]_pskVars /\ WF_pskVars(cleanupExpiredPSKs)

-----------------------------------------------------------------------------
\* Types; an age never exceeds the first at which the key has expired.
PSKTypeOK ==
  /\ psks \subseteq Identities
  /\ age \in [Identities -> 0..ZeroRTTLifetime + 1]
  /\ cpc \in [Creators -> {"idle", "evict", "make", "insert"}]
  /\ cid \in [Creators -> Identities]
  /\ cage \in [Creators -> 0..ZeroRTTLifetime + 1]
  /\ vpc \in [Validators -> {"idle", "judge", "drop"}]
  /\ vid \in [Validators -> Identities]
  /\ vage \in [Validators -> 0..ZeroRTTLifetime + 1]
  /\ wasted \in Nat

\* The unlocked check lets the table outgrow its limit by as many entries as
\* there are other goroutines in CreatePSK, and every eviction that finds "",
\* which cleanupOldest does not remove, by one more.  Nothing else does, for
\* ever: evictions and insertions that interleave do not let it creep up.
Capacity ==
  Cardinality(psks) <= MaxZeroRTTSessions + Cardinality(Creators) - 1 + wasted

\* An expired key does not stay: it is dropped, or replaced by a newer one.
ExpiredDropped == \A id \in Identities :
  (id \in psks /\ PSKExpired(age[id])) ~> (id \notin psks \/ ~PSKExpired(age[id]))

=============================================================================
