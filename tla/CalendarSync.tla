---------------------------- MODULE CalendarSync ----------------------------
(***************************************************************************)
(* One task, the calendars of its assignees and what keeps them together:  *)
(* the hooks that end the handlers of TasksService, the pull of            *)
(* CalendarSyncService and the connections of CalendarConnectionsService.  *)
(*                                                                         *)
(* The rules of each handler:                                              *)
(*  - a hook acts on the row its handler read again after the write, or    *)
(*    before it (assign and delete); a handler that stops early leaves it  *)
(*    out;                                                                 *)
(*  - a push needs a due date, an open task and an active connection of    *)
(*    the assignee; it finds or makes the link row, writes the remote      *)
(*    event and then the link row, by id;                                  *)
(*  - a removal deletes the remote events one by one, whatever comes of    *)
(*    it, and then all links of the task;                                  *)
(*  - a pull applies what changed since its token, one event at a time,    *)
(*    and stores the next token when all of it went well.                  *)
(*                                                                         *)
(* A due date stands for all that is mirrored (title and description move  *)
(* the same way), and a task that is not open is completed: the calendars  *)
(* do not tell a cancelled one from it.  A user has one connection:        *)
(* providers differ in nothing here.  Token refreshes are part of the call *)
(* they precede: they fail, or are rejected for good, as calls do.  A call *)
(* of the provider is one of OutboundCall: it is answered or not, carried  *)
(* out up to MaxAttempts times, and may be carried out late.               *)
(***************************************************************************)
EXTENDS Naturals, FiniteSets

CONSTANTS User, Job, Due, Event,
          MaxAttempts,   \* attempts of one call of the provider
          MaxEdits,      \* bound on what users do in their calendars
          MaxAtWork,     \* bound on jobs at work at a time
          MaxFaults,     \* bound on what goes wrong
          Ops,           \* <<op, due, status, assignee>>: what may be asked for
          Same, NoTask, NoDue, NoLink, NoEvent, NoUser

VARIABLES
    task,     \* the Task row
    conn,     \* the status of a user's CalendarConnection
    token,    \* its syncToken: what the calendar had seen, 0 for null
    link,     \* the TaskCalendarEvent of the task and a user's connection
    event,    \* the remote events
    late,     \* requests given up on: <<user, event, due>>
    pc, job,  \* the next step of a job, and its locals
    edits,    \* how often a user has touched his calendar
    faults,   \* how often something went wrong
    raced,    \* users two jobs worked for at a time
    left,     \* events nobody will remove: <<what a known fault left behind>>
    missed    \* some hook did not run, or found no active connection

store == <<task, conn, token, link>>
bounds == <<edits, faults>>
ghosts == <<raced, left, missed>>
vars == <<task, conn, token, link, event, late, pc, job, edits, faults, raced, left, missed>>

Row == [due : Due \cup {NoDue}, open : BOOLEAN, assignee : User, deleted : BOOLEAN]

\* id: the job that made the row.  seen: remoteUpdatedAt, 0 for null.
Link == [id : Job, event : Event \cup {NoEvent}, status : {"PENDING", "FAILED"}, seen : Nat]
        \cup [id : Job, event : Event, status : {"SYNCED"}, seen : Nat]

\* rev: the place of its last change among those of the calendar.
Remote == [owner : User, due : Due, rev : Nat, live : BOOLEAN]

\* What the operations may be asked: an assign names a user, a completion
\* closes the task, an update may change anything.
ASSUME OpsAreAsked ==
    Ops \subseteq ({"create"} \X (Due \cup {NoDue}) \X BOOLEAN \X User)
            \cup ({"update"} \X (Due \cup {NoDue, Same}) \X (BOOLEAN \cup {Same}) \X (User \cup {Same}))
            \cup ({"assign"} \X {Same} \X {Same} \X User)
            \cup ({"complete"} \X {Same} \X {FALSE} \X {Same})
            \cup ({"delete", "sync", "pull", "disconnect"} \X {Same} \X {Same} \X {Same})

ASSUME SomeUser == User # {}

\* The values that stand for none are no values.
ASSUME NoneIsOther ==
    /\ NoTask \notin Row /\ NoLink \notin Link
    /\ NoEvent \notin Event \cup Remote /\ NoDue \notin Due
    /\ Same \notin BOOLEAN \cup User

Idle == [op |-> "none", due |-> Same, open |-> Same, assignee |-> Same, old |-> NoTask,
         new |-> NoTask, user |-> NoUser, link |-> NoLink, todo |-> {}, upto |-> 0]

Init ==
    /\ task = NoTask
    /\ conn = [u \in User |-> "NONE"] /\ token = [u \in User |-> 0]
    /\ link = [u \in User |-> NoLink]
    /\ event = [e \in Event |-> NoEvent] /\ late = {}
    /\ pc = [j \in Job |-> "idle"] /\ job = [j \in Job |-> Idle]
    /\ edits = 0 /\ faults = 0
    /\ raced = {} /\ left = {} /\ missed = FALSE

----------------------------------------------------------------------------
(* The calendar *)

Used == {e \in Event : event[e] # NoEvent}
IsLive(e) == e \in Used /\ event[e].live
Events(u) == {e \in Used : event[e].owner = u}

\* The last change of a calendar.
Latest(u) ==
    IF Events(u) = {} THEN 0
    ELSE CHOOSE r \in {event[e].rev : e \in Events(u)} :
            \A e \in Events(u) : event[e].rev <= r

Created(u, d) == [owner |-> u, due |-> d, rev |-> Latest(u) + 1, live |-> TRUE]
Moved(e, d) == [event[e] EXCEPT !.due = d, !.rev = Latest(event[e].owner) + 1]
Cancelled(e) == [event[e] EXCEPT !.live = FALSE, !.rev = Latest(event[e].owner) + 1]

----------------------------------------------------------------------------
(* Jobs *)

InFlight == {j \in Job : pc[j] \notin {"idle", "ended"}}

CanStart(j) == pc[j] = "idle" /\ Cardinality(InFlight) < MaxAtWork

\* A handler of the task may work for any user, the others for one.
WorksFor(op, u) == IF op \in {"pull", "disconnect"} THEN {u} ELSE User
InWork == UNION {WorksFor(job[j].op, job[j].user) : j \in InFlight}

RaceOthers(U) == raced' = raced \cup (U \cap InWork)

Goto(j, step) == pc' = [pc EXCEPT ![j] = step]

End(j) ==
    /\ Goto(j, "ended")
    /\ job' = [job EXCEPT ![j] = Idle]

LiveTask == task # NoTask /\ ~task.deleted

Given(input, old) == IF input = Same THEN old ELSE input

----------------------------------------------------------------------------
(* The handlers of TasksService, up to their hooks *)

\* create reads nothing; the others find the task first, and complete is done
\* with one that is completed.  sync is the mutation syncTaskToCalendar: the
\* task found is pushed.
StartTask(j, o) ==
    /\ CanStart(j) /\ o[1] \notin {"pull", "disconnect"}
    /\ IF o[1] = "create" THEN task = NoTask ELSE LiveTask
    /\ o[1] = "complete" => task.open
    /\ job' = [job EXCEPT ![j] = [Idle EXCEPT
                  !.op = o[1], !.due = o[2], !.open = o[3], !.assignee = o[4],
                  !.old = task, !.new = IF o[1] = "sync" THEN task ELSE NoTask]]
    /\ Goto(j, IF o[1] = "sync" THEN "find" ELSE "write")
    /\ RaceOthers(User)
    /\ UNCHANGED <<store, event, late, bounds, left, missed>>

\* The write; a task deleted meanwhile is not found.
WriteTask(j) ==
    /\ pc[j] = "write"
    /\ LET c == job[j] IN
       \/ /\ c.op = "create" /\ task = NoTask
          /\ task' = [due |-> c.due, open |-> c.open, assignee |-> c.assignee, deleted |-> FALSE]
          /\ Goto(j, "reread")
          /\ UNCHANGED <<job, missed>>
       \/ /\ c.op # "create" /\ LiveTask
          /\ task' = [due      |-> Given(c.due, task.due),
                      open     |-> Given(c.open, task.open),
                      assignee |-> Given(c.assignee, task.assignee),
                      deleted  |-> c.op = "delete"]
          /\ missed' = (missed \/ (c.op = "update" /\ task'.assignee # task.assignee))
          /\ Goto(j, IF c.op = "delete" THEN "links" ELSE "reread")
          /\ UNCHANGED job
       \/ /\ IF c.op = "create" THEN task # NoTask ELSE ~LiveTask
          /\ End(j)
          /\ UNCHANGED <<task, missed>>
    /\ UNCHANGED <<conn, token, link, event, late, bounds, raced, left>>

\* Mutant: a due date that moves is not mirrored, only one that is new.
Hook_OnlyNew(c, now) ==
    IF c.op \in {"update", "complete"} /\ (~now.open \/ now.due = NoDue) THEN "links"
    ELSE IF c.op = "assign" /\ c.assignee # c.old.assignee THEN "links"
    ELSE IF c.op = "create" \/ (c.op = "update" /\ c.old.due = NoDue) THEN "find"
    ELSE "ended"

\* Which hook a handler ends with, from the row before and after: remove
\* ("links"), push ("find") or none.
Hook(c, now) ==
    CASE c.op = "create" -> IF now.due # NoDue THEN "find" ELSE "ended"
      [] c.op = "complete" -> "links"
      [] c.op = "assign" -> IF c.assignee # c.old.assignee THEN "links" ELSE "ended"
      [] c.op = "update" ->
            IF ~now.open \/ (c.old.due # NoDue /\ now.due = NoDue) THEN "links"
            ELSE IF now.due # c.old.due THEN "find" ELSE "ended"

\* The task is read again, and the hook is chosen; not found, the handler ends.
Reread(j) ==
    /\ pc[j] = "reread"
    /\ \/ /\ ~LiveTask
          /\ missed' = TRUE
          /\ End(j)
       \/ /\ LiveTask /\ Hook(job[j], task) = "ended"
          /\ End(j)
          /\ UNCHANGED missed
       \/ /\ LiveTask /\ Hook(job[j], task) # "ended"
          /\ Goto(j, Hook(job[j], task))
          /\ job' = [job EXCEPT ![j] = [Idle EXCEPT !.op = job[j].op, !.new = task]]
          /\ UNCHANGED missed
    /\ UNCHANGED <<store, event, late, bounds, raced, left>>

----------------------------------------------------------------------------
(* Calls of the provider *)

\* How a call ends that a job makes for user u: it may find out that the grant
\* is gone, which marks the connection.
Rejected(u) ==
    \/ UNCHANGED conn
    \/ conn[u] = "ACTIVE" /\ conn' = [conn EXCEPT ![u] = "REAUTH_REQUIRED"]

\* What goes wrong is counted.
Fault(wrong) == IF wrong THEN faults < MaxFaults /\ faults' = faults + 1 ELSE UNCHANGED faults

\* A request is given up on, and is carried out after all.
GiveUp(r) ==
    late' = late \cup {r}

ArriveLate ==
    \E r \in late :
        /\ late' = late \ {r}
        /\ \/ /\ r[2] = NoEvent
              /\ \E e \in Event \ Used :
                    event' = [event EXCEPT ![e] = Created(r[1], r[3])] /\ left' = left \cup {e}
           \/ /\ IsLive(r[2]) /\ r[3] # NoDue
              /\ event' = [event EXCEPT ![r[2]] = Moved(r[2], r[3])] /\ UNCHANGED left
           \/ /\ IsLive(r[2]) /\ r[3] = NoDue
              /\ event' = [event EXCEPT ![r[2]] = Cancelled(r[2])] /\ UNCHANGED left
           \/ /\ r[2] # NoEvent /\ ~IsLive(r[2])
              /\ UNCHANGED <<event, left>>
    /\ UNCHANGED <<store, pc, job, bounds, raced, missed>>

----------------------------------------------------------------------------
(* Push *)

\* Mutant: the status is not looked at.
Eligible_AnyStatus(t) == t.due # NoDue

Eligible(t) == t.due # NoDue /\ t.open

\* pushTaskToAssigneeCalendars: the connections of the assignee.
FindConnection(j) ==
    /\ pc[j] = "find"
    /\ LET t == job[j].new IN
       \/ /\ Eligible(t) /\ conn[t.assignee] = "ACTIVE"
          /\ job' = [job EXCEPT ![j].user = t.assignee]
          /\ Goto(j, "upsert")
          /\ UNCHANGED missed
       \/ /\ ~(Eligible(t) /\ conn[t.assignee] = "ACTIVE")
          /\ missed' = (missed \/ Eligible(t))
          /\ End(j)
    /\ UNCHANGED <<store, event, late, bounds, raced, left>>

\* The link row is found or made, and kept as it is now.
UpsertLink(j) ==
    /\ pc[j] = "upsert"
    /\ LET u == job[j].user IN
       /\ link' = IF link[u] # NoLink THEN link ELSE
             [link EXCEPT ![u] = [id |-> j, event |-> NoEvent, status |-> "PENDING", seen |-> 0]]
       /\ job' = [job EXCEPT ![j].link = link'[u]]
    /\ Goto(j, "push")
    /\ UNCHANGED <<task, conn, token, event, late, bounds, ghosts>>

\* Mutant: every push creates.
IsNew_Always(l) == TRUE

IsNew(l) == l.event = NoEvent

\* The remote event is created, perhaps more than once: an answer names one of
\* them, the others and those of an answer that was lost are left behind.
PushNew(j) ==
    /\ pc[j] = "push" /\ IsNew(job[j].link)
    /\ LET u == job[j].user
           d == job[j].new.due
       IN \E E \in SUBSET (Event \ Used) :
          /\ Cardinality(E) <= MaxAttempts
          /\ event' = [e \in Event |-> IF e \in E THEN Created(u, d) ELSE event[e]]
          /\ \/ \E e \in E :
                  /\ left' = left \cup (E \ {e})
                  /\ job' = [job EXCEPT ![j].link.event = e, ![j].upto = event'[e].rev]
                  /\ Goto(j, "save")
                  /\ UNCHANGED conn
             \/ /\ left' = left \cup E
                /\ Rejected(u)
                /\ Goto(j, "failed")
                /\ UNCHANGED job
          /\ \/ UNCHANGED late
             \/ Cardinality(E) < MaxAttempts /\ GiveUp(<<u, NoEvent, d>>)
    /\ Fault(pc'[j] = "failed" \/ Cardinality(Used') > Cardinality(Used) + 1 \/ late' # late)
    /\ UNCHANGED <<task, token, link, edits, raced, missed>>

\* The remote event is moved; one that is gone cannot be.
PushKnown(j) ==
    /\ pc[j] = "push" /\ ~IsNew(job[j].link)
    /\ LET u == job[j].user
           d == job[j].new.due
           e == job[j].link.event
       IN \/ /\ IsLive(e)
             /\ event' = [event EXCEPT ![e] = Moved(e, d)]
             /\ \/ /\ job' = [job EXCEPT ![j].upto = event'[e].rev]
                   /\ Goto(j, "save")
                \/ /\ Goto(j, "failed")
                   /\ UNCHANGED job
             /\ UNCHANGED conn
          \/ /\ Goto(j, "failed")
             /\ Rejected(u)
             /\ UNCHANGED <<event, job>>
    /\ UNCHANGED late \/ GiveUp(<<job[j].user, job[j].link.event, job[j].new.due>>)
    /\ Fault(late' # late \/ conn' # conn \/ (IsLive(job[j].link.event) /\ pc'[j] = "failed"))
    /\ UNCHANGED <<task, token, link, edits, ghosts>>

\* Rows are written by id: one that is gone makes the query fail.
IsThere(l, u) == link[u] # NoLink /\ link[u].id = l.id

\* Mutant: the event of the row as it was read is written back.
Saved_EventAsRead(c) == [c.link EXCEPT !.event = link[c.user].event, !.status = "SYNCED"]

Saved(c) == [c.link EXCEPT !.status = "SYNCED", !.seen = c.upto]

SaveLink(j) ==
    /\ pc[j] = "save"
    /\ LET u == job[j].user
           e == job[j].link.event
       IN \/ /\ IsThere(job[j].link, u)
             /\ link' = [link EXCEPT ![u] = Saved(job[j])]
             /\ End(j)
             /\ UNCHANGED left
          \/ \* the row is gone, or the database failed
             /\ left' = IF link[u] # NoLink /\ link[u].event = e THEN left ELSE left \cup {e}
             /\ Goto(j, "failed")
             /\ UNCHANGED <<link, job>>
    /\ Fault(IsThere(job[j].link, job[j].user) /\ pc'[j] = "failed")
    /\ UNCHANGED <<task, conn, token, event, late, edits, raced, missed>>

\* recordPushFailure: nothing will look at the row again by itself.
RecordPushFailure(j) ==
    /\ pc[j] = "failed"
    /\ LET u == job[j].user IN
       link' = IF IsThere(job[j].link, u) THEN [link EXCEPT ![u].status = "FAILED"] ELSE link
    /\ End(j)
    /\ UNCHANGED <<task, conn, token, event, late, bounds, ghosts>>

----------------------------------------------------------------------------
(* Removal *)

Linked == {u \in User : link[u] # NoLink}

\* After a removal an assign pushes what it read again.
AfterRemoval(j) ==
    IF job[j].op = "assign" /\ job[j].new.due # NoDue
    THEN Goto(j, "find") /\ job' = [job EXCEPT ![j].todo = {}]
    ELSE End(j)

\* The links of the task and the connections behind them: without a grant, an
\* event cannot be deleted and stays.
FindLinks(j) ==
    /\ pc[j] = "links"
    /\ LET known == {u \in Linked : link[u].event # NoEvent} IN
       \/ /\ Linked = {}
          /\ AfterRemoval(j)
          /\ UNCHANGED left
       \/ /\ Linked # {}
          /\ job' = [job EXCEPT ![j].todo =
                        {<<u, link[u].event>> : u \in {v \in known : conn[v] # "DISCONNECTED"}}]
          /\ left' = left \cup {link[u].event : u \in {v \in known : conn[v] = "DISCONNECTED"}}
          /\ Goto(j, "unlink")
    /\ UNCHANGED <<store, event, late, bounds, raced, missed>>

\* One remote event is deleted, or it is not: the error is logged.
DeleteEvent(j) ==
    /\ pc[j] = "unlink"
    /\ \E l \in job[j].todo :
       /\ job' = [job EXCEPT ![j].todo = @ \ {l}]
       /\ \/ /\ IsLive(l[2])
             /\ event' = [event EXCEPT ![l[2]] = Cancelled(l[2])]
             /\ UNCHANGED <<conn, late, left>>
          \/ /\ left' = left \cup {l[2]}
             /\ Rejected(l[1])
             /\ UNCHANGED late \/ GiveUp(<<l[1], l[2], NoDue>>)
             /\ UNCHANGED event
    /\ Fault(late' # late \/ conn' # conn \/ \E e \in left' \ left : IsLive(e))
    /\ UNCHANGED <<task, token, link, pc, edits, raced, missed>>

DropLinks(j) ==
    /\ pc[j] = "unlink" /\ job[j].todo = {}
    /\ link' = [u \in User |-> NoLink]
    /\ AfterRemoval(j)
    /\ UNCHANGED <<task, conn, token, event, late, bounds, ghosts>>

\* A query of a removal fails, which is logged: an assign goes on to its push.
FailRemoval(j) ==
    /\ pc[j] = "links" \/ (pc[j] = "unlink" /\ job[j].todo = {})
    /\ AfterRemoval(j)
    /\ missed' = TRUE
    /\ Fault(TRUE)
    /\ UNCHANGED <<store, event, late, edits, raced, left>>

----------------------------------------------------------------------------
(* Pull *)

StartPull(j, u) ==
    /\ CanStart(j) /\ conn[u] = "ACTIVE" /\ <<"pull", Same, Same, Same>> \in Ops
    /\ job' = [job EXCEPT ![j] = [Idle EXCEPT !.op = "pull", !.user = u, !.upto = token[u]]]
    /\ Goto(j, "list")
    /\ RaceOthers({u})
    /\ UNCHANGED <<store, event, late, bounds, left, missed>>

\* A full listing (no token) has no cancelled events.
Changes(u, since) ==
    {e \in Events(u) : event[e].rev > since /\ (since = 0 => event[e].live)}

\* listChanges: what changed, and the next token; an error ends the pull.
ListChanges(j) ==
    /\ pc[j] = "list"
    /\ LET u == job[j].user IN
       \/ /\ job' = [job EXCEPT
                ![j].todo = {<<e, event[e]>> : e \in Changes(u, job[j].upto)},
                ![j].upto = Latest(u)]
          /\ Goto(j, "apply")
          /\ UNCHANGED <<conn, token>>
       \/ \* 410: the token is no longer known, a full listing follows
          /\ job[j].upto # 0
          /\ token' = [token EXCEPT ![u] = 0]
          /\ job' = [job EXCEPT ![j].upto = 0]
          /\ UNCHANGED <<pc, conn>>
       \/ /\ Rejected(u)
          /\ End(j)
          /\ UNCHANGED token
    /\ Fault(pc'[j] # "apply")
    /\ UNCHANGED <<task, link, event, late, edits, ghosts>>

\* The loop guard: what the link has seen is not applied again.
Newer(r, l) == l.seen = 0 \/ r.rev > l.seen

\* One change is looked up by its event; without a link it is ignored.
LookUpChange(j) ==
    /\ pc[j] = "apply"
    /\ \E x \in job[j].todo :
       LET u == job[j].user
           applies == /\ link[u] # NoLink /\ link[u].event = x[1]
                      /\ x[2].live => Newer(x[2], link[u])
           rest == [job[j] EXCEPT !.todo = @ \ {x}]
       IN \/ /\ ~applies
             /\ job' = [job EXCEPT ![j] = rest]
             /\ UNCHANGED pc
          \/ /\ applies
             /\ job' = [job EXCEPT ![j] = [rest EXCEPT !.link = link[u], !.new = x[2]]]
             /\ Goto(j, IF x[2].live THEN "task" ELSE "drop")
    /\ UNCHANGED <<store, event, late, bounds, ghosts>>

\* A cancelled event takes its link with it, and the task stays.
DropLink(j) ==
    /\ pc[j] = "drop"
    /\ LET u == job[j].user IN
       \/ /\ IsThere(job[j].link, u)
          /\ link' = [link EXCEPT ![u] = NoLink]
          /\ left' = left \cup ({link[u].event} \ {NoEvent})
          /\ Goto(j, "apply")
          /\ UNCHANGED job
       \/ /\ ~IsThere(job[j].link, u)
          /\ End(j)
          /\ UNCHANGED <<link, left>>
    /\ UNCHANGED <<task, conn, token, event, late, bounds, raced, missed>>

\* The task is read; the link of a deleted one is stale.
ReadTask(j) ==
    /\ pc[j] = "task"
    /\ Goto(j, IF ~LiveTask THEN "drop"
               ELSE IF task.due # job[j].new.due THEN "move" ELSE "seen")
    /\ UNCHANGED <<store, event, late, job, bounds, ghosts>>

MoveTask(j) ==
    /\ pc[j] = "move"
    /\ task' = IF LiveTask THEN [task EXCEPT !.due = job[j].new.due] ELSE task
    /\ Goto(j, "seen")
    /\ UNCHANGED <<conn, token, link, event, late, job, bounds, ghosts>>

MarkSeen(j) ==
    /\ pc[j] = "seen"
    /\ LET u == job[j].user IN
       \/ /\ IsThere(job[j].link, u)
          /\ link' = [link EXCEPT ![u].seen = job[j].new.rev]
          /\ Goto(j, "apply")
          /\ UNCHANGED job
       \/ /\ ~IsThere(job[j].link, u)
          /\ End(j)
          /\ UNCHANGED link
    /\ UNCHANGED <<task, conn, token, event, late, bounds, ghosts>>

\* Mutant: the token is stored as soon as the first change is applied.
AllApplied_First(j) == TRUE

AllApplied(j) == job[j].todo = {}

StoreToken(j) ==
    /\ pc[j] = "apply" /\ AllApplied(j)
    /\ token' = [token EXCEPT ![job[j].user] = job[j].upto]
    /\ End(j)
    /\ UNCHANGED <<task, conn, link, event, late, bounds, ghosts>>

----------------------------------------------------------------------------
(* Connections, and the user in his calendar *)

\* connectCalendar, of a connection that is active too: one upsert, after calls
\* that change nothing here.
Connect(u) ==
    /\ conn' = [conn EXCEPT ![u] = "ACTIVE"]
    /\ token' = [token EXCEPT ![u] = 0]
    /\ RaceOthers({u})
    /\ UNCHANGED <<task, link, event, late, pc, job, bounds, left, missed>>

\* disconnectCalendar: the row first, then its links; events stay.
StartDisconnect(j, u) ==
    /\ CanStart(j) /\ conn[u] \in {"ACTIVE", "REAUTH_REQUIRED"}
    /\ <<"disconnect", Same, Same, Same>> \in Ops
    /\ conn' = [conn EXCEPT ![u] = "DISCONNECTED"]
    /\ job' = [job EXCEPT ![j] = [Idle EXCEPT !.op = "disconnect", !.user = u]]
    /\ Goto(j, "forget")
    /\ RaceOthers({u})
    /\ UNCHANGED <<task, token, link, event, late, bounds, left, missed>>

ForgetLinks(j) ==
    /\ pc[j] = "forget"
    /\ LET u == job[j].user IN
       /\ left' = IF link[u] = NoLink THEN left ELSE left \cup ({link[u].event} \ {NoEvent})
       /\ link' = [link EXCEPT ![u] = NoLink]
    /\ End(j)
    /\ UNCHANGED <<task, conn, token, event, late, bounds, raced, missed>>

\* The owner of the calendar moves an event, or deletes it.
EditRemote(e) ==
    /\ edits < MaxEdits /\ IsLive(e)
    /\ edits' = edits + 1
    /\ \/ \E d \in Due : event' = [event EXCEPT ![e] = Moved(e, d)]
       \/ event' = [event EXCEPT ![e] = Cancelled(e)]
    /\ UNCHANGED <<store, late, pc, job, faults, ghosts>>

\* A query fails or the process stops: the rest of the job is not done.
Fail(j) ==
    /\ j \in InFlight
    /\ missed' = (missed \/ job[j].op \notin {"pull", "disconnect"})
    /\ left' = IF pc[j] = "save" THEN left \cup ({job[j].link.event} \ {link[u].event : u \in Linked})
               ELSE left
    /\ End(j)
    /\ Fault(TRUE)
    /\ UNCHANGED <<store, event, late, edits, raced>>

Step(j) ==
    \/ WriteTask(j) \/ Reread(j)
    \/ FindConnection(j) \/ UpsertLink(j) \/ PushNew(j) \/ PushKnown(j)
    \/ SaveLink(j) \/ RecordPushFailure(j)
    \/ FindLinks(j) \/ DeleteEvent(j) \/ DropLinks(j)
    \/ ListChanges(j) \/ LookUpChange(j) \/ DropLink(j) \/ ReadTask(j)
    \/ MoveTask(j) \/ MarkSeen(j) \/ StoreToken(j)
    \/ ForgetLinks(j)

Next ==
    \/ \E j \in Job :
        \/ \E o \in Ops : StartTask(j, o)
        \/ \E u \in User : StartPull(j, u) \/ StartDisconnect(j, u)
        \/ Step(j) \/ FailRemoval(j) \/ Fail(j)
    \/ \E u \in User : Connect(u)
    \/ \E e \in Event : EditRemote(e)
    \/ ArriveLate

Spec == Init /\ [][Next]_vars

\* Every await of a job that runs comes back.  No job is ever sure to be
\* started: all pushes and pulls begin with somebody's request or a restart.
FairSpec == Spec /\ \A j \in Job : WF_vars(Step(j))

----------------------------------------------------------------------------
TypeOK ==
    /\ task \in Row \cup {NoTask}
    /\ conn \in [User -> {"NONE", "ACTIVE", "REAUTH_REQUIRED", "DISCONNECTED"}]
    /\ token \in [User -> Nat]
    /\ link \in [User -> Link \cup {NoLink}]
    /\ event \in [Event -> Remote \cup {NoEvent}]
    /\ late \subseteq User \X (Event \cup {NoEvent}) \X (Due \cup {NoDue})
    /\ DOMAIN pc = Job /\ DOMAIN job = Job
    /\ raced \subseteq User /\ left \subseteq Event /\ missed \in BOOLEAN

Quiet == InFlight = {}

\* No event of the task is left in a calendar unless a known fault put it
\* there: an answer that was lost, a link row that could not be written, a
\* deletion that failed, a disconnection, two jobs at a time.
EventsAccounted ==
    \A e \in Event : IsLive(e) /\ event[e].owner \notin raced =>
        \/ e \in left
        \/ link[event[e].owner] # NoLink /\ link[event[e].owner].event = e
        \/ \E j \in Job : pc[j] = "save" /\ job[j].link.event = e

\* A link that says SYNCED, of an event that nothing has touched since, says
\* the truth, unless jobs raced, a hook was missed or another assignee's
\* calendar still holds the task.
SyncedAgrees ==
    Quiet /\ raced = {} /\ ~missed /\ task # NoTask =>
        LET l == link[task.assignee] IN
        (Linked = {task.assignee} /\ l.status = "SYNCED"
         /\ IsLive(l.event) /\ event[l.event].rev = l.seen)
            => event[l.event].due = task.due

\* A pull that fails, stops or starts anew loses no change: what the token has
\* passed, the link has seen (cancellations excepted, which a full listing
\* does not report).
NoChangeLost ==
    \A u \in User \ raced :
        (\A j \in InFlight : job[j].op # "pull" \/ job[j].user # u) =>
            \A e \in Events(u) :
                (link[u] # NoLink /\ link[u].event = e /\ IsLive(e)
                 /\ event[e].rev <= token[u]) => event[e].rev <= link[u].seen

\* A task that was closed or deleted is in no calendar any more, whoever it was
\* assigned to over its life.
ClosedUnlinked ==
    Quiet /\ raced = {} /\ ~missed /\ task # NoTask /\ (task.deleted \/ ~task.open)
        => Linked = {}

\* The story: a failed push is retried from attemptCount and nextAttemptAt, "so
\* a retry survives a restart".
FailedIsRetried ==
    \A u \in User :
        (link[u] # NoLink /\ link[u].status = "FAILED" /\ Quiet)
            ~> (link[u] = NoLink \/ link[u].status # "FAILED")
============================================================================
