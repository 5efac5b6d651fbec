------------------------------- MODULE Tasks -------------------------------
(***************************************************************************)
(* The life of a task under concurrent calls of TasksService: create,      *)
(* update, assign, complete and delete.  A call reads the task, checks,    *)
(* writes, reads the task again and then tells the world, each in a query  *)
(* of its own and outside any transaction: between two of them other calls *)
(* run.  The dependencies change as DependencyOrder says, which            *)
(* TaskDependencies implements.                                            *)
(*                                                                         *)
(* TODO and IN_PROGRESS are one status, "open": no handler here tells them *)
(* apart.  Titles, priorities, contacts and the recurrence fields are left *)
(* out, and so are the calendar hooks, the activity log and the pub/sub    *)
(* publication that end a handler: they write no task row.                 *)
(***************************************************************************)
EXTENDS DependencyOrder

CONSTANTS User,
          Sees,     \* <<u, v>>: user u may see the tasks assigned to user v
          Request,  \* the calls; each one is made at most once
          Inputs,   \* <<op, status, assignedTo>>: what may be asked for
          Same,     \* an input that is not given
          NoTask, NoCall

ASSUME SeesAssumption == Sees \subseteq User \X User
ASSUME SameAssumption == Same \notin User \cup {"open", "COMPLETED", "CANCELLED"}

Status == {"open", "COMPLETED", "CANCELLED"}

\* create sets both fields, updateTask at least one, assign the assignee.
ASSUME InputsAssumption ==
    \A i \in Inputs :
        \/ i[1] = "create" /\ i \in {"create"} \X Status \X User
        \/ /\ i \in {"update"} \X (Status \cup {Same}) \X (User \cup {Same})
           /\ i # <<"update", Same, Same>>
        \/ i \in {"assign"} \X {Same} \X User
        \/ i \in {"complete", "delete"} \X {Same} \X {Same}

VARIABLES
    row,       \* the Task table
    pc,        \* the next step of a call, or its answer
    call,      \* its arguments and the task as it first read it
    raced,     \* calls something was written under, since they first read
    audited,   \* calls that wrote their audit row
    notified,  \* <<task, user>>: notified since the task was last given to the user
    untold     \* history: <<task, user>>: given the task and known not to be notified

vars == <<row, edges, pc, call, raced, audited, notified, untold>>

\* stamped: completedAt is set.  assigner: who last changed assignedTo.
Row == [status : Status, stamped : BOOLEAN, assignedTo : User, assigner : User,
        deleted : BOOLEAN]

Op == {"create", "update", "assign", "complete", "delete"}
Call == [op : Op, by : User, task : Task, status : Status \cup {Same},
         assignedTo : User \cup {Same}, seen : Row \cup {NoTask}]

Steps == {"check", "write", "reread", "notify", "audit"}
Answers == {"done", "refused", "failed"}

Init ==
    /\ OrderInit
    /\ row = [t \in Task |-> NoTask]
    /\ pc = [r \in Request |-> "idle"]
    /\ call = [r \in Request |-> NoCall]
    /\ raced = {} /\ audited = {} /\ notified = {} /\ untold = {}

----------------------------------------------------------------------------
(* Reads *)

Live(t) == row[t] # NoTask /\ ~row[t].deleted

\* Mutant: the query is scoped to the tenant, the visibility is forgotten.
Visible_TenantOnly(u, t) == Live(t)

\* findOne: the task is live and assigned to somebody the user may see.
Visible(u, t) == Live(t) /\ <<u, row[t].assignedTo>> \in Sees

\* The open blockers: a cancelled or deleted one does not block.
OpenBlockers(t) == {d \in Direct(t, edges) : Live(d) /\ row[d].status = "open"}

InFlight == {r \in Request : pc[r] \in Steps}

\* The input or what is there.
Given(input, old) == IF input = Same THEN old ELSE input

\* Mutant: only completeTask is guarded, updateTask is the bypass.
Completes_CompleteOnly(c) == c.op = "complete"

\* The two completion paths.  Whether the task is completed already was read
\* at the start of the call.
Completes(c) ==
    \/ c.op = "complete"
    \/ c.op = "update" /\ c.status = "COMPLETED" /\ c.seen.status # "COMPLETED"

----------------------------------------------------------------------------
(* Writes *)

\* Mutant: a reopened task keeps its stamp.
Stamp_KeptOnReopen(c, old) == Completes(c) \/ old.stamped

\* completedAt is set, cleared or left alone by the status the call saw.
Stamp(c, old) ==
    IF Completes(c) THEN TRUE
    ELSE IF c.op = "update" /\ c.status \in {"open", "CANCELLED"}
              /\ c.seen.status = "COMPLETED" THEN FALSE
    ELSE old.stamped

\* Mutant: an input that is not given is written all the same.
NewRow_NotGiven(c, old) ==
    [old EXCEPT !.status = c.status, !.stamped = Stamp(c, old),
                !.deleted = @ \/ c.op = "delete"]

NewRow(c, old) ==
    [status     |-> IF c.op = "complete" THEN "COMPLETED" ELSE Given(c.status, old.status),
     stamped    |-> Stamp(c, old),
     assignedTo |-> Given(c.assignedTo, old.assignedTo),
     assigner   |-> IF Given(c.assignedTo, old.assignedTo) = old.assignedTo
                    THEN old.assigner ELSE c.by,
     deleted    |-> old.deleted \/ c.op = "delete"]

\* What is written under the calls in flight.
RaceOthers(r) == raced' = raced \cup (InFlight \ {r})

Goto(r, step) == pc' = [pc EXCEPT ![r] = step]

Answer(r, answer) ==
    /\ Goto(r, answer)
    /\ call' = [call EXCEPT ![r].seen = NoTask]

----------------------------------------------------------------------------
(* The handlers *)

\* create: nothing is read of the task, it is inserted.  Its status is the
\* caller's; completedAt is never set here.
Create(r, u, t, s, a) ==
    /\ pc[r] = "idle" /\ row[t] = NoTask /\ <<"create", s, a>> \in Inputs
    /\ row' = [row EXCEPT ![t] = [status |-> s, stamped |-> FALSE, assignedTo |-> a,
                                  assigner |-> u, deleted |-> FALSE]]
    /\ call' = [call EXCEPT ![r] = [op |-> "create", by |-> u, task |-> t, status |-> s,
                                    assignedTo |-> a, seen |-> NoTask]]
    /\ Goto(r, "reread")
    /\ RaceOthers(r)
    /\ UNCHANGED <<edges, audited, notified, untold>>

\* The other calls begin with findOne: a task the user cannot see is not
\* found.  Completing a completed task answers at once.
Start(r, op, u, t, s, a) ==
    /\ pc[r] = "idle"
    /\ <<op, s, a>> \in Inputs
    /\ Visible(u, t)
    /\ op = "complete" => row[t].status # "COMPLETED"
    /\ LET c == [op |-> op, by |-> u, task |-> t, status |-> s, assignedTo |-> a,
                 seen |-> row[t]]
       IN  /\ call' = [call EXCEPT ![r] = c]
           /\ Goto(r, IF Completes(c) THEN "check" ELSE "write")
    /\ UNCHANGED <<row, edges, raced, audited, notified, untold>>

\* assertDependenciesResolved
Check(r) ==
    /\ pc[r] = "check"
    /\ IF OpenBlockers(call[r].task) = {}
       THEN Goto(r, "write") /\ UNCHANGED call
       ELSE Answer(r, "refused")
    /\ UNCHANGED <<row, edges, raced, audited, notified, untold>>

\* updateMany where deletedAt is null: a count of 0 is not found.
Writable(t) == Live(t)

\* What a write means for who has been told: a new assignee has not been, and
\* will not be if it is the one that the call, raced, read as the assignee.
NewAssignee(c) ==
    LET given == {<<c.task, c.assignedTo>>} IN
    IF c.assignedTo \in {Same, row[c.task].assignedTo} THEN UNCHANGED <<notified, untold>>
    ELSE /\ notified' = notified \ given
         /\ untold' = IF c.assignedTo = c.seen.assignedTo THEN untold \cup given ELSE untold \ given

Write(r) ==
    LET c == call[r] IN
    /\ pc[r] = "write"
    /\ IF Writable(c.task)
       THEN /\ row' = [row EXCEPT ![c.task] = NewRow(c, row[c.task])]
            /\ Goto(r, IF c.op = "delete" THEN "audit" ELSE "reread")
            /\ RaceOthers(r) /\ NewAssignee(c)
            /\ UNCHANGED call
       ELSE Answer(r, "refused") /\ UNCHANGED <<row, raced, notified, untold>>
    /\ UNCHANGED <<edges, audited>>

\* Mutant: an update never notifies.
Reassigns_NotByUpdate(c) ==
    /\ c.op \in {"create", "assign"} /\ c.assignedTo # c.by
    /\ c.op # "create" => c.assignedTo # c.seen.assignedTo

\* The new assignee is told, unless it is the actor or was the assignee when
\* the call began.
Reassigns(c) ==
    /\ c.assignedTo \notin {Same, c.by}
    /\ c.op # "create" => c.assignedTo # c.seen.assignedTo

\* A call that has written goes on, or ends, without telling the assignee.
TellsNobody(r) ==
    /\ untold' = IF pc[r] \in {"reread", "notify"} /\ Reassigns(call[r])
                 THEN untold \cup {<<call[r].task, call[r].assignedTo>>} ELSE untold
    /\ UNCHANGED notified

\* findOne again: a caller who can no longer see the task is told that it is
\* not found, and everything below is skipped.
Reread(r) ==
    /\ pc[r] = "reread"
    /\ IF Visible(call[r].by, call[r].task)
       THEN Goto(r, "notify") /\ UNCHANGED <<call, notified, untold>>
       ELSE Answer(r, "refused") /\ TellsNobody(r)
    /\ UNCHANGED <<row, edges, raced, audited>>

\* notifySafe: an insert that fails is swallowed, and the handler goes on.
Notify(r) ==
    /\ pc[r] = "notify"
    /\ \/ TellsNobody(r)
       \/ /\ Reassigns(call[r])
          /\ notified' = notified \cup {<<call[r].task, call[r].assignedTo>>}
          /\ UNCHANGED untold
    /\ Goto(r, "audit")
    /\ UNCHANGED <<row, edges, call, raced, audited>>

Audit(r) ==
    /\ pc[r] = "audit"
    /\ audited' = audited \cup {r}
    /\ Answer(r, "done")
    /\ UNCHANGED <<row, edges, raced, notified, untold>>

\* A query fails, the audit's among them, or the process stops: what is written
\* stays.
Fail(r) ==
    /\ pc[r] \in Steps
    /\ Answer(r, "failed") /\ TellsNobody(r)
    /\ UNCHANGED <<row, edges, raced, audited>>

\* TaskDependenciesService, one call as one step.
ChangeEdges ==
    /\ \E e \in Edge : Live(e[1]) /\ Live(e[2]) /\ (AddEdge(e) \/ RemoveEdge(e))
    /\ raced' = raced \cup InFlight
    /\ UNCHANGED <<row, pc, call, audited, notified, untold>>

Next ==
    \/ \E r \in Request :
          \/ \E u \in User, t \in Task, s \in Status, a \in User : Create(r, u, t, s, a)
          \/ \E op \in Op \ {"create"}, u \in User, t \in Task,
                s \in Status \cup {Same}, a \in User \cup {Same} : Start(r, op, u, t, s, a)
          \/ Check(r) \/ Write(r) \/ Reread(r) \/ Notify(r) \/ Audit(r)
          \/ Fail(r)
    \/ ChangeEdges

Spec == Init /\ [][Next]_vars

----------------------------------------------------------------------------
(* Properties.  A call is raced when something was written between its     *)
(* first read and now.                                                     *)

TypeOK ==
    /\ row \in [Task -> Row \cup {NoTask}]
    /\ edges \subseteq Edge
    /\ pc \in [Request -> {"idle"} \cup Steps \cup Answers]
    /\ call \in [Request -> Call \cup {NoCall}]
    /\ raced \subseteq Request /\ audited \subseteq Request
    /\ notified \subseteq Task \X User /\ untold \subseteq Task \X User

\* The task a call writes in this step.
Writes(r, t) == /\ pc[r] = "write" /\ pc'[r] # "write" /\ call[r].task = t
                /\ row'[t] # row[t]

\* A deleted task is final: no call that read it before brings it back or
\* changes it, raced or not.
DeletedIsFinal ==
    [][\A t \in Task : row[t] # NoTask /\ row[t].deleted => row'[t] = row[t]]_vars

\* AC 21-22, as far as the code can keep it: neither completion path
\* completes a blocked task unless another call wrote under it.
UnracedCompletionUnblocked ==
    [][\A r \in Request, t \in Task :
          Writes(r, t) /\ r \notin raced /\ row'[t].status = "COMPLETED"
                       /\ row[t].status # "COMPLETED"
          => OpenBlockers(t) = {}]_vars

\* A call writes only a task its user may see as it is written, unless
\* another call took it out of the user's sight meanwhile.
UnracedWriteAuthorized ==
    [][\A r \in Request, t \in Task :
          Writes(r, t) /\ r \notin raced
          => Live(t) /\ <<call[r].by, row[t].assignedTo>> \in Sees]_vars

\* AC 33-34: an unraced call that finds the completion stamp and the status
\* in agreement leaves them so, on every path between the statuses.
Agree(w) == w.stamped <=> w.status = "COMPLETED"
UnracedStampAgrees ==
    [][\A r \in Request, t \in Task :
          Writes(r, t) /\ r \notin raced /\ Agree(row[t]) => Agree(row'[t])]_vars

\* Whoever holds a task that another gave him has been notified of it once no
\* call for it is under way, whatever calls raced: unless the insert failed, or
\* the call failed after its write, or its user had lost sight of the task, or
\* it had read this assignee and another call had changed it since.
AssigneeTold ==
    \A t \in Task : Live(t) /\ (\A r \in InFlight : call[r].task # t) =>
        \/ row[t].assignedTo = row[t].assigner
        \/ <<t, row[t].assignedTo>> \in notified \cup untold
============================================================================
