---------------------------- MODULE TenantCache ----------------------------
(***************************************************************************)
(* CacheService: a cache-aside store in Redis.  The keys of a namespace    *)
(* hold the version of the namespace, and a write invalidates all of them  *)
(* by moving the version on: what was stored under the old one stays       *)
(* until its 30 seconds are over, and nobody asks for it any more.         *)
(*                                                                         *)
(* A value is the number of writes that were committed when it was loaded. *)
(* Each action is one Redis command or the loader; a command may fail,     *)
(* because the connection is gone or for a reason that passes, and then    *)
(* the call goes on without the cache.  Health and metrics are left out.   *)
(***************************************************************************)
EXTENDS Integers

CONSTANTS Job,
          User,      \* a user is the scope of a key: each has stats of their own
          MaxVersion, \* bound: invalidations
          MaxFaults  \* bound: commands and queries that fail

VARIABLES
    written,  \* how many writes of contacts are committed
    version,  \* the counter crm:<namespace>:version:<tenant>
    entry,    \* the stored values, each under a version and a scope
    covers,   \* history: the writes committed when a version began
    acked,    \* history: the writes whose calls have answered
    read,     \* the reads in progress
    faults

cacheVars == <<written, version, entry, covers, acked, read, faults>>

Entry == [version : Nat, scope : User, value : Nat]

\* since and blind are history: the writes answered when the read began, and
\* whether the version could not be read.
Read == [at : {"idle", "version", "lookup", "load", "store", "done"}, scope : User,
         version : Nat, value : Nat, stores : BOOLEAN, since : Nat, blind : BOOLEAN]

NoRead == [at |-> "idle", scope |-> CHOOSE u \in User : TRUE, version |-> 0, value |-> 0,
           stores |-> TRUE, since |-> 0, blind |-> FALSE]

CacheInit ==
    /\ written = 0 /\ version = 0
    /\ entry = {}
    /\ covers = [v \in {0} |-> 0]
    /\ acked = 0
    /\ read = [j \in Job |-> NoRead]
    /\ faults = 0

Failing == faults < MaxFaults /\ faults' = faults + 1

----------------------------------------------------------------------------
(* getOrSetTenantJson *)

StartRead(j, u) ==
    /\ read' = [read EXCEPT ![j] = [NoRead EXCEPT !.at = "version", !.scope = u,
                                                  !.since = acked]]
    /\ UNCHANGED <<written, version, entry, covers, acked, faults>>

ReadVersion(j) ==
    /\ read[j].at = "version"
    /\ read' = [read EXCEPT ![j].at = "lookup", ![j].version = version]
    /\ UNCHANGED <<written, version, entry, covers, acked, faults>>

\* A version that cannot be read counts as the first.
MissVersion(j) ==
    /\ read[j].at = "version" /\ Failing
    /\ read' = [read EXCEPT ![j].at = "lookup", ![j].blind = TRUE]
    /\ UNCHANGED <<written, version, entry, covers, acked>>

Stored(v, u) == {e \in entry : e.version = v /\ e.scope = u}

LookUp(j) ==
    /\ read[j].at = "lookup"
    /\ \/ /\ Stored(read[j].version, read[j].scope) = {}
          /\ read' = [read EXCEPT ![j].at = "load"]
       \/ \E e \in Stored(read[j].version, read[j].scope) :
              read' = [read EXCEPT ![j].at = "done", ![j].value = e.value]
    /\ UNCHANGED <<written, version, entry, covers, acked, faults>>

\* With no client the loader's answer is not stored; after a get that failed it is.
LookUpFails(j) ==
    /\ read[j].at = "lookup" /\ Failing
    /\ \E stores \in BOOLEAN :
           read' = [read EXCEPT ![j].at = "load", ![j].stores = stores]
    /\ UNCHANGED <<written, version, entry, covers, acked>>

Load(j) ==
    /\ read[j].at = "load"
    /\ read' = [read EXCEPT ![j].at = IF read[j].stores THEN "store" ELSE "done",
                            ![j].value = written]
    /\ UNCHANGED <<written, version, entry, covers, acked, faults>>

\* Mutant: the key is made when the value is stored.
KeyVersion_WhenStored(j) == version

KeyVersion(j) == read[j].version

Store(j) ==
    LET v == KeyVersion(j)
        u == read[j].scope
    IN
    /\ read[j].at = "store"
    /\ entry' = (entry \ Stored(v, u)) \cup {[version |-> v, scope |-> u, value |-> read[j].value]}
    /\ read' = [read EXCEPT ![j].at = "done"]
    /\ UNCHANGED <<written, version, covers, acked, faults>>

StoreFails(j) ==
    /\ read[j].at = "store" /\ Failing
    /\ read' = [read EXCEPT ![j].at = "done"]
    /\ UNCHANGED <<written, version, entry, covers, acked>>

\* The read answers; or its process stops, wherever it is.
EndRead(j) ==
    /\ read[j].at # "idle"
    /\ read[j].at # "done" => faults < MaxFaults
    /\ faults' = IF read[j].at = "done" THEN faults ELSE faults + 1
    /\ read' = [read EXCEPT ![j] = NoRead]
    /\ UNCHANGED <<written, version, entry, covers, acked>>

\* The time to live of a stored value is over.
Expire ==
    /\ \E e \in entry : entry' = entry \ {e}
    /\ UNCHANGED <<written, version, covers, acked, read, faults>>

ReadStep(j) ==
    \/ ReadVersion(j) \/ MissVersion(j) \/ LookUp(j) \/ LookUpFails(j)
    \/ Load(j) \/ Store(j) \/ StoreFails(j) \/ EndRead(j)

----------------------------------------------------------------------------
(* invalidateTenant *)

Bump ==
    /\ version < MaxVersion
    /\ version' = version + 1
    /\ covers' = [v \in 0..version + 1 |-> IF v = version + 1 THEN written ELSE covers[v]]

----------------------------------------------------------------------------
CacheTypeOK ==
    /\ written \in Nat /\ version \in Nat /\ acked \in Nat /\ faults \in Nat
    /\ entry \subseteq Entry
    /\ covers \in [0..version -> Nat]
    /\ read \in [Job -> Read]
=============================================================================
