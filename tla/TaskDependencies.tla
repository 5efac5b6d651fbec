------------------------- MODULE TaskDependencies -------------------------
(***************************************************************************)
(* TaskDependenciesService: concurrent addTaskDependency and               *)
(* removeTaskDependency calls of one tenant against Postgres.  An action is*)
(* what one call does between two awaits.  The cycle check and the insert  *)
(* run in a SERIALIZABLE transaction: it reads a snapshot, and Postgres    *)
(* lets it commit only if no other such transaction that it overlaps has   *)
(* inserted an edge, because each read every edge of the tenant and each   *)
(* wrote one (a read-write conflict in both directions).  Postgres may     *)
(* also abort it for no reason of its own.  A removal runs outside any     *)
(* transaction, in autocommit, and takes no part in that detection.        *)
(***************************************************************************)
EXTENDS DependencyGraph

CONSTANTS Request,  \* the calls; each one is made at most once
          Nothing   \* no argument

ASSUME NothingAssumption == Nothing \notin Edge \cup Request

VARIABLES
    rows,      \* the TaskDependency table; a row's id is the request that made it
    live,      \* the tasks not soft-deleted
    pc,        \* the next step of a call, or its answer
    edge,      \* the edge a call adds, or that of the row it removes
    target,    \* the id of the row a call removes
    snapshot,  \* the edges its transaction has read
    conflict,  \* its open transaction can no longer be serialized
    audit      \* the audit rows written

vars == <<rows, live, pc, edge, target, snapshot, conflict, audit>>

Row == [id : Request, edge : Edge]
Edges == {w.edge : w \in rows}

Steps == {"findBlocker", "open", "loaded", "auditAdd", "findRowTask", "delete", "auditRemove"}
Answers == {"notFound", "cycle", "tooLarge", "exists", "conflict", "done", "failed"}

Init ==
    /\ rows = {} /\ audit = {}
    /\ live = Task
    /\ pc = [r \in Request |-> "idle"]
    /\ edge = [r \in Request |-> Nothing]
    /\ target = [r \in Request |-> Nothing]
    /\ snapshot = [r \in Request |-> {}]
    /\ conflict = [r \in Request |-> FALSE]

Goto(r, step) ==
    /\ pc' = [pc EXCEPT ![r] = step]
    /\ UNCHANGED <<edge, target, snapshot, conflict>>

\* The call answers, and what it held is gone with it.
Answer(r, answer) ==
    /\ pc' = [pc EXCEPT ![r] = answer]
    /\ edge' = [edge EXCEPT ![r] = Nothing]
    /\ target' = [target EXCEPT ![r] = Nothing]
    /\ snapshot' = [snapshot EXCEPT ![r] = {}]
    /\ conflict' = [conflict EXCEPT ![r] = FALSE]

----------------------------------------------------------------------------
(* addTaskDependency *)

\* A self edge is refused at once.  TasksService.findOne then resolves each
\* of the two tasks: one that is deleted, or that the caller may not see, is
\* not found.
StartAdd(r, t, d) ==
    /\ pc[r] = "idle" /\ t # d /\ t \in live
    /\ pc' = [pc EXCEPT ![r] = "findBlocker"]
    /\ edge' = [edge EXCEPT ![r] = <<t, d>>]
    /\ UNCHANGED <<rows, live, target, snapshot, conflict, audit>>

FindBlocker(r) ==
    /\ pc[r] = "findBlocker"
    /\ \/ edge[r][2] \in live /\ Goto(r, "open")
       \/ Answer(r, "notFound")
    /\ UNCHANGED <<rows, live, audit>>

\* Mutant: edges of deleted tasks are filtered out.
LoadEdges_LiveOnly(r) ==
    /\ pc[r] = "open"
    /\ pc' = [pc EXCEPT ![r] = "loaded"]
    /\ snapshot' = [snapshot EXCEPT ![r] = {e \in Edges : e[1] \in live /\ e[2] \in live}]
    /\ UNCHANGED <<rows, live, edge, target, conflict, audit>>

LoadEdges(r) ==
    /\ pc[r] = "open"
    /\ pc' = [pc EXCEPT ![r] = "loaded"]
    /\ snapshot' = [snapshot EXCEPT ![r] = Edges]
    /\ UNCHANGED <<rows, live, edge, target, conflict, audit>>

\* Mutant: the check asks the question the wrong way round.
PassesCheck_Swapped(r) ==
    /\ ~Overflows(edge[r][1], snapshot[r])
    /\ ~WouldCreateCycle(edge[r][2], edge[r][1], snapshot[r])

PassesCheck(r) ==
    /\ ~Overflows(edge[r][2], snapshot[r])
    /\ ~WouldCreateCycle(edge[r][1], edge[r][2], snapshot[r])

\* Mutant: READ COMMITTED, which detects nothing.
Serializable_ReadCommitted(r) == TRUE

Serializable(r) == ~conflict[r]
UniqueKeyFree(r) == edge[r] \notin Edges

\* A transaction that throws or fails is rolled back: the graph is too large
\* to search, the edge would close a cycle, the row exists (P2002) or
\* Postgres aborts it (P2034).
RejectAdd(r) ==
    /\ pc[r] = "loaded"
    /\ \/ /\ Overflows(edge[r][2], snapshot[r])
          /\ Answer(r, "tooLarge")
       \/ /\ ~Overflows(edge[r][2], snapshot[r])
          /\ WouldCreateCycle(edge[r][1], edge[r][2], snapshot[r])
          /\ Answer(r, "cycle")
       \/ PassesCheck(r) /\ ~UniqueKeyFree(r) /\ Answer(r, "exists")
       \/ Answer(r, "conflict")
    /\ UNCHANGED <<rows, live, audit>>

CommitAdd(r) ==
    /\ pc[r] = "loaded"
    /\ PassesCheck(r) /\ UniqueKeyFree(r) /\ Serializable(r)
    /\ rows' = rows \cup {[id |-> r, edge |-> edge[r]]}
    /\ conflict' = [s \in Request |-> conflict[s] \/ (pc[s] = "loaded" /\ s # r)]
    /\ pc' = [pc EXCEPT ![r] = "auditAdd"]
    /\ UNCHANGED <<live, edge, target, snapshot, audit>>

AuditAdd(r) ==
    /\ pc[r] = "auditAdd"
    /\ audit' = audit \cup {[action |-> "CREATE", entity |-> edge[r], by |-> r]}
    /\ Answer(r, "done")
    /\ UNCHANGED <<rows, live>>

----------------------------------------------------------------------------
(* removeTaskDependency *)

\* Mutant: the id of the task is taken for that of the row.
StartRemove_TaskId(r, w) ==
    /\ pc[r] = "idle" /\ w \in rows
    /\ pc' = [pc EXCEPT ![r] = "findRowTask"]
    /\ edge' = [edge EXCEPT ![r] = w.edge]
    /\ target' = [target EXCEPT ![r] = w.edge[1]]
    /\ UNCHANGED <<rows, live, snapshot, conflict, audit>>

\* The row is read by its id, then its task resolved.  An id that names no
\* row is answered at once.
StartRemove(r, w) ==
    /\ pc[r] = "idle" /\ w \in rows
    /\ pc' = [pc EXCEPT ![r] = "findRowTask"]
    /\ edge' = [edge EXCEPT ![r] = w.edge]
    /\ target' = [target EXCEPT ![r] = w.id]
    /\ UNCHANGED <<rows, live, snapshot, conflict, audit>>

FindRowTask(r) ==
    /\ pc[r] = "findRowTask"
    /\ \/ edge[r][1] \in live /\ Goto(r, "delete")
       \/ Answer(r, "notFound")
    /\ UNCHANGED <<rows, live, audit>>

Doomed(r) == {w \in rows : w.id = target[r]}

DeleteRow(r) ==
    /\ pc[r] = "delete"
    /\ rows' = rows \ Doomed(r)
    /\ IF Doomed(r) = {} THEN Answer(r, "notFound") ELSE Goto(r, "auditRemove")
    /\ UNCHANGED <<live, audit>>

AuditRemove(r) ==
    /\ pc[r] = "auditRemove"
    /\ audit' = audit \cup {[action |-> "DELETE", entity |-> target[r], by |-> r]}
    /\ Answer(r, "done")
    /\ UNCHANGED <<rows, live>>

----------------------------------------------------------------------------
(* The environment *)

\* TasksService.delete marks the task and leaves the edges that name it.
DeleteTask(t) ==
    /\ t \in live
    /\ live' = live \ {t}
    /\ UNCHANGED <<rows, pc, edge, target, snapshot, conflict, audit>>

\* A query fails or the process stops: what is committed stays, an open
\* transaction is rolled back and the remaining steps never happen.
Fail(r) ==
    /\ pc[r] \in Steps
    /\ Answer(r, "failed")
    /\ UNCHANGED <<rows, live, audit>>

Step(r) ==
    \/ FindBlocker(r) \/ LoadEdges(r) \/ RejectAdd(r) \/ CommitAdd(r) \/ AuditAdd(r)
    \/ FindRowTask(r) \/ DeleteRow(r) \/ AuditRemove(r)

Next ==
    \/ \E r \in Request :
          \/ \E t, d \in Task : StartAdd(r, t, d)
          \/ \E w \in rows : StartRemove(r, w)
          \/ Step(r)
          \/ Fail(r)
    \/ \E t \in Task : DeleteTask(t)

Spec == Init /\ [][Next]_vars

----------------------------------------------------------------------------
(* Properties *)

TypeOK ==
    /\ rows \subseteq Row
    /\ live \subseteq Task
    /\ pc \in [Request -> {"idle"} \cup Steps \cup Answers]
    /\ edge \in [Request -> Edge \cup {Nothing}]
    /\ target \in [Request -> Request \cup {Nothing}]
    /\ snapshot \in [Request -> SUBSET Edge]
    /\ conflict \in [Request -> BOOLEAN]
    /\ audit \subseteq [action : {"CREATE", "DELETE"}, entity : Edge \cup Request, by : Request]

\* No interleaving of calls leaves a cycle of tasks that wait on each other,
\* though each call checks only the edges it read (AC 11, 16e).
EdgesAcyclic == Acyclic(Edges)

\* Two calls that add the same edge leave one row (the unique key, AC 16d).
UniqueEdges == \A v, w \in rows : v.edge = w.edge => v = w

\* What makes the check hold at the commit: a transaction still able to
\* commit has read every edge there is now, removals aside.
SnapshotCovers ==
    \A r \in Request : pc[r] = "loaded" /\ ~conflict[r] => Edges \subseteq snapshot[r]

\* Of several removals of one dependency, one succeeds: two DELETE audit rows
\* never name the same row, and a row that was audited as gone is gone.
RemovedOnce ==
    \A a \in audit : a.action = "DELETE" =>
        /\ \A w \in rows : w.id # a.entity
        /\ \A b \in audit : b.action = "DELETE" /\ b.entity = a.entity => b = a

\* The calls together behave as one atomic, always acyclic set of edges.
Order == INSTANCE DependencyOrder WITH edges <- Edges
ImplementsOrder == Order!OrderSpec
============================================================================
