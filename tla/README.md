# CRMAssistant: a verification of its concurrent core

CRMAssistant is a multi-tenant CRM: a NestJS API (`src/apps/api`) over Postgres
through Prisma, a GraphQL edge, and a Next.js client. Nearly every operation is
an async handler made of single queries with awaits between them, many run at
once, few run in a transaction, and several consistency rules have no database
constraint behind them. The interleavings of those queries are what the modules
here are about.

The modules cover the task core (tasks, their dependencies, their recurrence and
the time booked on them), the synchronisation of tasks with calendars and the
reliability layer under it, the Facebook channel with its inbox, and contacts
with their sharing and the cache over them. All paths below are under
`src/apps/api/src` unless they say otherwise.

## 1. Inventory

| Component | State | Operations | What makes it correct |
|---|---|---|---|
| Task lifecycle, `tasks/tasks.service.ts` | Task rows | create, update, assign, complete, delete, createFromTemplate, createAutomatedTask | blocked tasks are not completed; the completion stamp agrees with the status; a deletion is final; nobody writes what he may not see; the new assignee is told; changes are audited |
| Task dependencies, `tasks/task-dependencies.service.ts`, `task-dependency-graph.ts` | TaskDependency rows | addTaskDependency, removeTaskDependency, getDependencyView | no cycle; one row per edge; bounded traversal |
| Task recurrence, `tasks/task-recurrence.service.ts`, `task-recurrence.ts` | occurrences (Task rows), `lastSweepDate` in memory | lazy sweep, ADMIN sweep | one occurrence per date; nothing is missed; once a day |
| Time tracking, `time-tracking/time-entries.service.ts` | TimeEntry rows | startTimer, stopTimer, create, update, delete | one running timer per user; start, end and duration agree; a stop counts once |
| Task templates, due status | TaskTemplate rows | CRUD; date arithmetic | dates in UTC |
| Outbound HTTP, `calendar/calendar-http.ts`, `facebook/facebook-graph.client.ts` | breaker, limiter, both in memory | a call with its attempts | an answer ok means done; every call is answered; breaker and count agree |
| Calendar, `calendar/` | connections, TaskCalendarEvent links, the remote calendar | push, remove, sync, connect, disconnect | no event left behind without a known cause; a SYNCED link says the truth; no change passed over |
| Facebook, `facebook/` | ChannelConnection, Messages | webhook, history sync, dispatch, connect | a message stored once; a page in one workspace |
| Inbox, `inbox/` | Conversations, Messages | find or create, send, read, resolve | one conversation per contact and channel; lastMessageAt never goes back |
| Notifications, activities | rows with a dedupe key, preferences | notify, read, log | one row per dedupe key |
| Teams, dashboards | Team.members, Dashboard.isDefault | membership, delete, default | no member of a deleted team; one default dashboard |
| Import/export | progress entries with a TTL | import, poll | progress and result of one tenant's import |
| Contacts and sharing, `contacts/`, `sharing/` | Contact rows, SharingRule rows | create, update, delete, assign, bulk assign, share, unshare, change of level | only who may write does; the first qualification is kept; what was unshared can be shared again |
| Cache, `cache/` | versions and values in Redis | cached read, invalidation | no answer older than what was acknowledged before the question |
| Auth, users, roles, permissions | users, tokens | sign-in, 2FA, revocation, CRUD | |
| Segments, tags, notes | rows | CRUD, search | |
| Audit, storage, observability, health, GraphQL, web client, infrastructure | | | |

`PROJECT.json` lists all of them with their status, and every hazard found so
far with the line where it bites.

How the parts interact. `TasksService.findOne` is the visibility oracle of
the task core: dependencies and time entries resolve their task through it. The
completion paths of tasks read the dependency table; a task list query fires the
recurrence sweep and does not await it (`tasks/tasks.graphql.ts:496-500`), and
the sweep writes Task rows directly. After its write and its re-read a task
handler calls notifications, audit, calendar, the activity log and pub/sub, in that
order and all but the audit swallowing their own errors. Calendar hooks and
pulls call a provider through `CalendarHttp`, replies and passes call the Graph
API through `FacebookGraphClient`; both keep a breaker and a limiter in memory.
A webhook, a pass and an agent store messages through the same
`MessagesService.sendMessage`. Sharing rules and owners decide who may write a
contact, and every contact write moves the version of the cached stats on.
Apart from Postgres and Redis each process keeps only a few in-memory fields
(`lastSweepDate`, breakers, handshake tokens, import progress).

What is hard: reads before an await used after it (all handlers);
check-then-write without a transaction (completion, visibility); SERIALIZABLE
transactions in place of unique keys (timers, occurrences, cycles), whose aborts
are handled in three different ways; failures after a committed write (the
re-read); in-memory state shared by tenants; user edits under a sweep; remote
calls whose answer is lost or whose request arrives late; rows written by id
that another call has deleted; watermarks and tokens that must not pass what was
not stored; a cache filled by slow reads.

## 2. Modules

| Module | Models | Builds on |
|---|---|---|
| `DependencyGraph` | the questions asked of the graph: transitive blockers, limits, cycle check | |
| `DependencyBfs` | `collectTransitiveBlockers`, one dequeued entry per step | `DependencyGraph` |
| `DependencyOrder` | abstract specification: an atomic set of edges that is always acyclic | `DependencyGraph` |
| `TaskDependencies` | concurrent additions and removals against Postgres; implements `DependencyOrder` | `DependencyGraph` |
| `Tasks` | concurrent create, update, assign, complete, delete | extends `DependencyOrder`: its dependencies change as that specification says |
| `TaskRecurrence` | overlapping sweeps, user edits, the clock, restarts | |
| `TimeEntries` | concurrent timer and entry calls, the clock | |
| `OutboundCall` | abstract specification: what a caller may conclude from an answer | |
| `OutboundHttp` | breaker, limiter, attempts, timeouts, late requests; implements `OutboundCall` | |
| `CalendarSync` | the task handlers with their calendar hooks, pulls, connections, remote edits | its calls of the provider are those of `OutboundCall` |
| `Messaging` | webhooks, echoes, passes, replies, status changes of one thread | its posts are calls of `OutboundCall` |
| `TenantCache` | one cached value per user behind a version, and the failures of Redis | |
| `Contacts` | contact and sharing calls of one tenant, and the reads of their stats | extends `TenantCache` |
| `*_proofs` | theorems of the module they are named after; `Dependencies_proofs` of the four above `Tasks` | |
| `MC*` | model values and symmetry for the runs | |

An action is what a call does between two awaits, and a call's `pc` is the query
it will run next or its answer. Every call is made at most once: a retry is
another call. `Fail` is enabled at every step and stands for a rejected query or
a process that stops: what is committed stays, an open transaction is rolled
back, the rest of the handler never runs.

**Postgres.** A SERIALIZABLE transaction reads at its first query and commits
at its last action. Two overlapping ones that read what the other writes cannot
both commit: the first to commit marks the others (`conflict`, `doomed`), and a
marked one can only abort (P2034). Postgres may also abort without a reason, so
aborting is always allowed. A unique key (`TaskDependency`) refuses a second row
(P2002). Everything else is READ COMMITTED, one query at a time.

**`DependencyGraph`.** `TransitiveBlockers` is the least closed set and
`Overflows` says for which graphs the search gives up, limits as the code tests
them (the direct blockers are not counted). `DependencyBfs` shows that the
queue with its visited set computes both. `visited` and `blockers` are equal at
every step of the code and one variable here; an adjacency list comes in the
database's order, so in any order.

**`TaskDependencies`.** `addTaskDependency` is StartAdd, FindBlocker (the two
`findOne`s), LoadEdges (the transaction's first query), then CommitAdd or
RejectAdd, then AuditAdd. `removeTaskDependency` is StartRemove, FindRowTask,
DeleteRow, AuditRemove. DeleteTask is `TasksService.delete`, which leaves the
edges.

**`Tasks`.** Start is the first `findOne` and the checks that follow it without an
await; Check is `assertDependenciesResolved`; Write is `updateMany`, with the
data computed from what was read; Reread, Notify and Audit follow. `notifySafe`
swallows an insert that fails, so Notify goes on to Audit whether somebody was
told or not. TODO and IN_PROGRESS are one status, "open". `raced` remembers the calls under which
something was written between their first read and now: the guarantees that the
code keeps except in a race are stated for the calls outside it. AssigneeTold is
not one of them: it holds for every task no call has in hand, and `untold`
records, for a task and a user, the ways in which the code does lose a
notification: the insert failed, the call failed or found the task out of its
caller's sight after its write, or the call compared the new assignee with one
it had read and another call had replaced. A race, or a
reassignment that takes the task out of its caller's sight, also loses the audit
row: it is written after the re-read.

**`TaskRecurrence`.** A tenant has one template. Start is either entry point,
ReadAnchor the anchor query and the first date, LookUp and Insert the two halves
of the transaction of a date, AbortInsert its P2034, Finish the write of
`lastSweepDate`. `Advance` is the parameter that stands for `advanceByPattern`: any function
that moves a date forward. With an occurrence whose due date was cleared the
anchor is null and every run starts again from the template's date; and as
`lastSweepDate` is one field of the process, one tenant's sweep makes the others'
skip that day. The runs keep to one tenant.

**`TimeEntries`.** A running timer has a null end. FindRunning and InsertTimer
are the halves of startTimer's transaction; Read and Write those of stopTimer,
updateTimeEntry and deleteTimeEntry. The other calls never create a running
entry, so SERIALIZABLE only has to protect timers from each other. Time is in
whole seconds (the code rounds the interval of a stop).

**`OutboundHttp`.** Start is the breaker's and the limiter's admission and the
first request, Reach the moment the other side carries a request out, ReachLate
the same for a request the caller has timed out on. Succeed, FailForGood (4xx),
FailForNow (timeout, network, 5xx, 429), Defer (a Retry-After beyond the limit, an
exception that bypasses the breaker) and Resume are the branches of the attempt
loop. Time is not measured: CoolDown, LeaveWindow and the end of a sleep happen
when they like. `OutboundCall` is the contract: "ok" means done at least once, an
error means nothing, and never is it done more than `MaxAttempts` times.

**`CalendarSync`.** One task, its assignees, one connection each. StartTask,
WriteTask and Reread are a handler of `TasksService` up to the hook it chooses
(`Hook`); FindConnection, UpsertLink, PushNew or PushKnown, SaveLink and
RecordPushFailure are a push; FindLinks, DeleteEvent and DropLinks a removal;
ListChanges to StoreToken a pull; StartDisconnect and ForgetLinks a
disconnection. A push or a removal that fails is logged and swallowed: for an
assign this means that a removal which fails at a query is followed by the push
for the new assignee (FailRemoval). Completing a completed task does nothing;
a task that is not open is a completed one here, as completed and cancelled mean the same to
the hooks. Connect is also the reconnection of a connection that is ACTIVE, which
resets its token. A remote calendar numbers its changes (`rev`), and a sync token is
the number it had reached. `left` records events that a fault left behind,
`missed` that a hook did not run, `raced` the users two jobs worked for at a time.
Each property says which of these excuses it.

**`Messaging`.** One customer's thread with one page. Find, Create and Reopen are
`findOrCreateConversation`; Dedupe the lookup of a webhook; Send and Commit the
transaction of `sendMessage`; Dispatch and Merge the post of a reply and the write of
its mid; List, NextMessage and Advance a pass. Stumble is a message of a pass that
could not be stored: the pass notes it and goes on. Webhooks come never, once or
often, in any order, and are acknowledged whatever becomes of them.
There are two clocks. A pass stamps its start with the server's, and a message
carries the time that Facebook gave it, a whole second of another clock: what is
posted at the server's time `now` may bear any time `now + 1 + s` with `s` in the
parameter `Skew`, as long as Facebook's times do not go back. So a message may be
posted at a time that a watermark has passed, or will when the pass at work is
done. `mistimed` records these messages one by one, and those that a pass cannot
read the time of (SkipUnreadable). WatermarkCovers is about all the others, and
NoneSkipped, which the code's own comment claims, about all: it is violated. The
default of `sentAt` and the time that `lastMessageAt` is compared with are two
readings of the clock a moment apart (`inbox/messages.service.ts:115-121`), and one here.

**`TenantCache` and `Contacts`.** A cached value is the number of contact writes
committed when it was loaded: that is all freshness needs. ReadVersion, LookUp,
Load and Store are `getOrSetTenantJson`; Bump is `invalidateTenant`. A contact
call is Start (its first read), Permit (the reads of `resolveAccessLevel` and
`canManageSharing`), WriteContact or WriteRule, Reread for an update, Invalidate.
A bulk assignment is a loop of these with one invalidation at its end. The two
namespaces that a write invalidates are one here.

## 3. Runs

| Run | Shows |
|---|---|
| `dependency_bfs` | over every simple graph on four tasks: the search ends, returns the blockers exactly, gives up exactly beyond the limits |
| `task_dependencies` | no cycle; a transaction that may commit has read every edge; refines `DependencyOrder` |
| `tasks` | the assignee is told, but for the known losses; unraced calls respect blockers, visibility and stamp |
| `task_recurrence` | one occurrence per date, skipped only when swept, each run continues |
| `time_entries` | one timer, only a stop stops it; columns agree unless raced |
| `outbound_http` | breaker and count agree; refines `OutboundCall`; every call is answered |
| `calendar_sync` | events are accounted for; a SYNCED link says the truth; no change is passed over; a closed task leaves the calendars |
| `calendar_retry` | violated: a failed push is retried by itself (nothing reads `nextAttemptAt`) |
| `messaging` | a message is stored once, in one conversation, and none whose time was readable and not yet passed is passed over; lastMessageAt is that of the newest; a pass opens a resolved conversation only for something new |
| `messaging_second` | violated: no message of the customer is left out by a pass that reaches the watermark (one that lands in the second an earlier pass began in is) |
| `contacts` | unraced calls respect owner, sharing level and role; the first qualifier stays; cached stats are never older than what was acknowledged before the question |
| `contacts_reshare` | violated: the refusal of a share names a rule that shares (it may be a deleted one) |

**Bounds and why they are enough.**
Four tasks hold every shape the search tells apart (chains beyond `MaxDepth` 2,
diamonds, cycles through and beside the start, more than `MaxNodes` blockers); 500
and 50 are scaled to 3 and 2. Direct blockers alone cannot exceed three on four
tasks: that they are not counted is left to the theorem `LimitsExact`. Three tasks and three calls make the 3-cycle, and
two calls that race while a third one removes; `MaxDepth` is 2 there so that a
3-cycle is found as a cycle. With three edges no graph is then too large, so that
answer of RejectAdd does not occur in this run: its effect is that of "cycle",
and the theorems hold for every limit. In `Tasks`, the races are between two
calls and a third one sets the scene; two tasks are a task and its blocker; the two
users are one who sees all and one who sees his own, so a task can leave a caller's
sight. `Inputs` has every operation, every status and both assignees, but not
every combination of them. In `TaskRecurrence` a cap of 2 dates per run
stands for 30, so that a run ends at its cap, and four days (`MaxDay`, which also
bounds due dates) let a second run go on from there; users set a date to day 1
or clear it; there is one tenant. In
`TimeEntries` the clock has three moments (`MaxTime` 2), so that a stop may come at the
start, after it, or after an edit; `MaxDuration` is the code's own 86400.

In `OutboundHttp` two attempts stand for three, a threshold of two for five and a
window of two for its limit, so that three calls can open the circuit, be refused by
it and come back after it. In `CalendarSync` three jobs are a create and two that
follow it, two of them at work at a time (`MaxAtWork`), with one touch of the
calendar by its owner (`MaxEdits`), two events and two faults (`MaxFaults`: a lost
answer, a late request, a query that fails, a revoked grant); two attempts make the
second event of one create. States in which the jobs of both users have raced
are not followed further (`Unraced`): beyond them no property says anything. In
`Messaging` three jobs, two at a time, meet a thread of three messages (`MaxThread`),
store three (`MaxRows`) and suffer one fault; the third message of the thread is
a reply or comes after one (`ShortThread`), since the case it is there for
is a reply that was posted twice or late. `Skew` is {-1, 0}: a message bears the time after the
server's present one or that one itself, which a pass may have stamped before it;
where it does, it is the second of two messages (`EarlySecond`). `messaging_second` needs no fault. In `Contacts` two calls
at a time are a race, and `MaxWritten`, `MaxShares`, `MaxVersion` and `MaxFaults` bound
what they write one after the other: three writes of contacts let one call
qualify, one disqualify and one qualify again; two of sharing rules share and
unshare, or share and change the level. There is one fault. A behaviour in which the
stats are read, or something failed, is followed through two writes that the
stats count (an insert, an update, a deletion or a bulk assignment) and not
into sharing and qualification, which the stats do not know (`SharedOrRead`); the
reader is bob (`Readers`). `Ops` holds every operation with the
arguments the properties tell apart, not their product.

No run checks deadlock: every call ends, and then the system has nothing to do. Symmetry is used for tasks, calls, sweeps and users
where they are interchangeable, and never in a run with a liveness property.

**Fairness.** `DependencyBfs` assumes weak fairness of its steps, because the loop
is synchronous code that nothing interrupts. `OutboundHttp` assumes it of the end
of an attempt or a sleep, call by call: a request is aborted after ten seconds
and a sleep is a timer. `calendar_retry` assumes it of every step of a job at work,
because each of its awaits has such a timeout, and of no start of one. The
handlers otherwise get none: a call may stop at any await, and a sweep, a pull, a
pass or a webhook is never sure to be fired.

## 4. Proofs

The proofs hold for any sets of tasks, users, contacts, conversations, events, jobs
and calls, any limits, any `Advance` and any clock, from the assumptions on the
constants that the modules state by name: a limit is a number, an operation asks
for what the code lets it ask (`OpsAreAsked`, `InputsAssumption`), a value that stands
for none is no value (`NoneIsOther`, `NoConvIsNoRow`), there is a user (`SomeUser`), and
for the search alone the tasks are finitely many (`TaskAssumption`).
The inductive invariants of `Messaging` and `CalendarSync`, the two largest,
were checked by TLC on the instances of their runs before they were proved.

- `Dependencies_proofs`, the graph: `CycleCheckExact`, by closed sets: the blockers are
  the least closed set, so an added edge closes a cycle exactly when its head is
  blocked by its tail.
- The search: `TraversalCorrect`. The invariant says that the blockers found are
  blockers, and that they are closed except at queued tasks; when the queue is empty
  they are closed, so they are all. `LimitsExact` needs two more. `Layered` says
  that the queue is in the order of its depths, which differ by one at most, and
  that the depth a task is queued with is the length of a walk to it and of no shorter
  one: that is what a breadth-first order is for. `Limited` says that nothing beyond a
  limit was added. So a search that gives up has met a blocker at a distance beyond
  the limit, or one too many, and one that returns has met none.
- `TaskDependencies`: `AlwaysAcyclic` is not inductive by itself. The
  strengthening is `SnapshotCovers`: a transaction not in conflict has read every edge
  there is, so the check it made on its snapshot, which can only hold more edges,
  holds of the table (`CheckMonotone`). `AlwaysUnique` comes with it.
  `AlwaysRemovedOnce` needs that row ids are those of the calls that made them.
  `Implements` maps a commit to AddEdge and a delete to RemoveEdge; every other
  step stutters.
- `Messaging_proofs`, one layer on the other. `Base`: what is stored fits together
  and a job refers only to what is there; `Replies`: a reply is dispatched by one
  job, for a row of its own. `Crossing` adds to LastIsNewest that a transaction which
  nobody crossed still knows the newest message. `Crowding` adds to
  OneConversation that a job which is about to make a conversation is the only
  one that looks for it. `Handling` gives StoredOnce and ResolvedStays:
  jobs that are not excused have no message in common (`Apart`), what was not found
  when it was looked up is still not there (`LookedUp`), and a reply that was posted has its mid in its
  row or is about to (`RepliesTold`). `Passing` gives WatermarkCovers: what was in the
  thread when a pass began is stored, or pending in it, or it has noted a failure, unless it is mistimed. Of `Skew` it is only
  assumed that it holds integers (`SkewIsInt`): the theorem is not about one clock.
- `CalendarSync_proofs`, again in layers. `Base` gives every job's locals a meaning at
  each step: what a pull holds of an event is how the event was at an earlier
  change, what a push has written is in the calendar unless someone changed it since.
  `Accounted` (EventsAccounted): jobs that do not race work for different users
  (`Alone`), so the link a job has read is still there (`ReadThere`), and a removal
  has every live event left to delete (`RemovesAll`). `Covering` (NoChangeLost): what
  a pull will move the token past is seen or in hand (`PullCovers`), and a push has
  noted its own change before a token passes it (`SaveCovers`). `Calmly` (SyncedAgrees
  and ClosedUnlinked): while nothing has raced and no hook was missed, what is owed to
  the links is done, or some job is at a step from which it will be done:
  `WillRemove` and `WillPush` name those steps. A handler that owes something is
  alone, holds the task as it is (`HoldsTask`), and ends only when it owes nothing; a
  change in the calendar makes the event newer than its link has seen, until the
  task follows. SyncedAgrees is proved without its hypothesis that only the
  assignee is linked: that is part of the invariant.
- `Tasks_proofs`: the invariant `Fresh` says that for a call nobody raced the row
  is as it read it, still visible to its user and, past the check, without open
  blockers. The three unraced guarantees follow from it; `DeletionIsFinal` from
  the guard of the write alone. `AssigneesAreTold` needs `Telling`:
  whoever holds a task, and was not told, gave it to himself, is recorded in `untold`, or
  will be told by the call that gave him the task and has yet to notify. Nothing is assumed
  about races: a call that overwrites the assignee of another one takes over what there is to tell.
- `TaskRecurrence_proofs`: `NoDoubles`. The strengthening says that a transaction
  that found nothing and is not doomed still finds nothing, and that an
  occurrence nobody moved is on the date it was made for. `SkipsAreEarned`: the day in the
  service's field is one that a sweep has ended on (`DaySwept`). `RunsContinue`, from
  `Continuing`: until it is made, the date after the latest one is the first of the run,
  and the run has its whole cap left; and what a transaction found is still there, since
  a deleted occurrence keeps its row.
- `TimeEntries_proofs`: `OneTimer` by the same argument on timers;
  `EditsSpareTimers` and `StopsOnce` by the columns each write touches: an edit
  that moves the end was allowed only on an entry that had stopped, and no
  stopped entry starts again. `ColumnsAgree` needs that the entry is as the call read it
  until another call writes it (`Seen`), and that a timer never starts after the moment
  of its stop (`Timed`), where the code would store a duration of 0.
- `OutboundHttp_proofs`: `BreakerFollowsCount`, inductive with the types, and
  `Implements`: an attempt sends one request, which is carried out, pending or late,
  so what was done and may still be done never exceeds the attempts (`Count`), and an
  answer "ok" follows a request that reached the other side. A restart fails
  all calls in flight in one step of the contract.
- `Contacts_proofs`: `StatsAreFresh`. A version covers the writes that were
  committed when it began. The invariant says that no value stored under a
  version is older than what it covers, that nothing is acknowledged before the
  current version covers it, and that a call which answers without an invalidation
  has written nothing. `WritesAuthorized`: the invariant `Rights` says that the row a
  call holds is the one in the table, and that what was permitted still is,
  unless another call wrote the contact or its sharing since; `QualifierStays`
  follows from it. `TypeCorrect` needs that a rule a call has found is
  marked deleted at most, and never gone.

The theorems AlwaysUnique, AlwaysRemovedOnce, DeletionIsFinal (of tasks and of time
entries) and StopsOnce state properties that no run repeats (UniqueEdges,
RemovedOnce, DeletedIsFinal, StoppedStays).

Every safety and action property of a passing run is stated by a theorem. Only
model-checked: the liveness properties Terminates and CallEnds, since liveness under
fairness and ENABLED are beyond the prover. FailedIsRetried, NoneSkipped and ConflictHasRule are
violated by the code and so have no proof.

## 5. Left out of the modules above

- The re-read and the audit row in `TimeEntries` and the audit row of
  `TaskRecurrence` (same transaction as the insert): they change nothing that a
  property reads.
- The activity-log and pub/sub calls after a task write; the
  TASK_CHANGED event and the `generated` count, which the sweep produces before the
  commit and does not take back when it aborts.
- Templates without a date or a pattern (skipped) and more than 200 templates per run.
- `createAutomatedTask` and its `automationKey`; recurrence fields of `update`,
  apart from the due date, `isRecurring` and their effect on sweeps.
- Changes of roles and teams: `Sees` is fixed.
- In `OutboundHttp` the counters of attempts in the logs, the length of delays.
  `FacebookGraphClient` differs within its actions (see the module's header).
- In `CalendarSync`: titles and descriptions (they move as due dates do), two
  providers for one user, the conflict query and the activity it logs, the attempt
  counter of a link (nothing reads it). A refresh of an access token is part of the call
  it precedes; the query for links and that for their connections are one read.
- In `Messaging`: delivery and read receipts, attachments, notes, assignment, the
  connection of a page, the cap on the pages of a listing (beyond it the watermark
  passes messages that were not listed), automation of other channels.
- In `Contacts`: teams and shares with teams, custom fields, audit and activity rows,
  imports and the contacts that webhooks create. Neither those nor sharing
  changes invalidate the stats in the code, so `FreshStats` speaks of the calls of
  `ContactsService`. The reads of visibility and of sharing in Permit are one. In
  `TenantCache`: loss of data and eviction in Redis, which would start the versions anew.
- What the properties exempt: where the code has a race and no defence, a property
  says that nothing less than this race does the damage, and names the exemption
  (`raced`, `crowded`, `crossed`, `lost`, `mistimed`, `blank`, `disturbed`, `blind`,
  `untold`). It does not catch the race itself. The hazards of `PROJECT.json` say in a note for which of
  them this is so.
- Everything listed as not modelled in `PROJECT.json`, with the reason.

## 6. Plan

In this order:

1. `RecurrenceDates`: `advanceByPattern` and `computeDueOccurrences` on the
   calendar, checked against a reference definition, and the assumption on `Advance` in
   `TaskRecurrence` discharged; the drift of a clamped month end.
2. The connection of a page against a second workspace, and receipts, in `Messaging`.
3. `Notifications` (dedupe keys, soft deletion, read state), `Teams` and
   `Dashboards` as small modules; import progress if room is left.
4. Proofs of the safety properties of these modules, and of what `TaskRecurrence`
   assumes of `Advance` for the patterns of item 1.

## 7. Not modelled

Authentication, users, roles, permissions, templates, segments, tags, notes,
audit, storage and deal collaboration are single-row CRUD, library calls or
inserts: a test reaches what can go wrong there. The GraphQL edge, the web client,
observability and infrastructure hold no state of the domain. Teams, dashboards,
notifications, activities and imports have interleavings worth modelling and are
in the plan; `PROJECT.json` gives the reason for each component.
