------------------------ MODULE CalendarSync_proofs ------------------------
(***************************************************************************)
(* CalendarSync, for every set of users, jobs and events and every bound.  *)
(* What is stored and what jobs hold fits together (Base).  On that stand: *)
(* no event is forgotten (Accounted), because a job that does not race     *)
(* finds the link it has read; no change is lost (Covering), because what  *)
(* a token passes is seen or in hand; and in calm states links agree with  *)
(* the task (Calmly), because a handler that owes them something is alone  *)
(* and has it as its next step.  What an action does is proved once, field *)
(* by field, and each invariant has one step per action after that.        *)
(***************************************************************************)
EXTENDS CalendarSync, TLAPS

\* The operations that write the task, and the mutation that pushes it.
Writes == {"create", "update", "assign", "complete", "delete"}

\* Those of a handler of the task.
Handlers == Writes \cup {"sync"}

\* The steps of a job.
Steps == {"idle", "ended", "write", "reread", "find", "upsert", "push", "save", "failed",
          "links", "unlink", "list", "apply", "task", "move", "seen", "drop", "forget"}

\* Those of a push that has found its connection.
Pushes == {"upsert", "push", "save", "failed"}

\* The steps of a removal.
Removes == {"links", "unlink"}

\* Those of a pull that has a live change in hand.
Applies == {"task", "move", "seen"}

\* The steps a job of op may be at.
StepsOf(op) ==
    CASE op = "none" -> {"idle", "ended"}
      [] op \in Handlers -> {"write", "reread", "find"} \cup Pushes \cup Removes
      [] op = "pull" -> {"list", "apply", "drop"} \cup Applies
      [] op = "disconnect" -> {"forget"}

\* A link whose event is to be deleted, or a change to apply.
Pair == (User \X Event) \cup (Event \X Remote)

\* The locals of a job.
JobRec == [op : Handlers \cup {"none", "pull", "disconnect"}, due : Due \cup {NoDue, Same},
           open : BOOLEAN \cup {Same}, assignee : User \cup {Same}, old : Row \cup {NoTask},
           new : Row \cup Remote \cup {NoTask}, user : User \cup {NoUser},
           link : Link \cup {NoLink}, todo : SUBSET Pair, upto : Nat]

\* What is stored, here and in the calendars, has its type.
StoreTypes ==
    /\ task \in Row \cup {NoTask}
    /\ conn \in [User -> {"NONE", "ACTIVE", "REAUTH_REQUIRED", "DISCONNECTED"}]
    /\ token \in [User -> Nat]
    /\ link \in [User -> Link \cup {NoLink}]
    /\ event \in [Event -> Remote \cup {NoEvent}]
    /\ late \subseteq User \X (Event \cup {NoEvent}) \X (Due \cup {NoDue})
    /\ \A r \in late : r[2] = NoEvent => r[3] \in Due
    /\ raced \subseteq User /\ left \subseteq Event /\ missed \in BOOLEAN

\* The changes of a calendar have a last one.
Topped ==
    \A u \in User : Events(u) # {} =>
        \E e \in Events(u) : \A f \in Events(u) : event[f].rev <= event[e].rev

\* The links are to events of their users' calendars; tokens and links know
\* nothing of the future.
InPast ==
    /\ \A e \in Used : event[e].rev # 0
    /\ \A u \in User :
        /\ token[u] <= Latest(u)
        /\ link[u] # NoLink =>
              link[u].seen <= Latest(u) /\ (link[u].event = NoEvent \/ link[u].event \in Events(u))

\* What is stored fits together.
Store == StoreTypes /\ Topped /\ InPast

\* What jobs hold has its type.
JobTypes == pc \in [Job -> Steps] /\ job \in [Job -> JobRec]

\* The last changes, and the calendar an event is in.
Last == [u \in User |-> Latest(u)]

\* e is an event of u's calendar.
Has(u, e) == e \in Used /\ event[e].owner = u

\* r is e of u's calendar as it was when it was read.
ReadAs(u, e, r) ==
    /\ Has(u, e) /\ r \in Remote
    /\ r.rev <= event[e].rev /\ (r.rev = event[e].rev => r = event[e])

\* What a handler holds at its steps.
HandlerFits(j) ==
    LET c == job[j] IN
    /\ \A x \in c.todo : x \in User \X Event /\ Has(x[1], x[2])
    /\ pc[j] \in {"write", "reread"} =>
          /\ <<c.op, c.due, c.open, c.assignee>> \in Ops /\ c.op \in Writes
          /\ c.op # "create" => c.old \in Row
    /\ pc[j] = "reread" => c.op # "delete"
    /\ pc[j] = "find" => c.new \in Row
    /\ pc[j] \in Removes /\ c.op = "assign" => c.new \in Row
    /\ pc[j] \in Pushes => c.new \in Row /\ Eligible(c.new) /\ c.user = c.new.assignee
    /\ pc[j] \in Pushes \ {"upsert"} =>
          c.link \in Link /\ (c.link.event = NoEvent \/ Has(c.user, c.link.event))
    /\ pc[j] = "save" =>
          /\ Has(c.user, c.link.event)
          /\ c.upto <= event[c.link.event].rev
          /\ c.upto = event[c.link.event].rev => event[c.link.event].due = c.new.due

\* What a pull holds at its steps.
PullFits(j) ==
    LET c == job[j] IN
    /\ c.user \in User /\ c.upto <= Last[c.user]
    /\ \A x \in c.todo : x \in Event \X Remote /\ ReadAs(c.user, x[1], x[2])
    /\ pc[j] \in Applies =>
          /\ c.link \in Link /\ ReadAs(c.user, c.link.event, c.new)
          /\ c.new.live /\ Newer(c.new, c.link)
    /\ pc[j] = "drop" => c.link \in Link

\* The locals of a job fit its step.
Fits(j) ==
    /\ pc[j] \in StepsOf(job[j].op)
    /\ job[j].op \in Handlers => HandlerFits(j)
    /\ job[j].op = "pull" => PullFits(j)
    /\ job[j].op = "disconnect" => job[j].user \in User

\* All that the rest of the argument takes for granted of a state.
Base == Store /\ JobTypes /\ \A j \in Job : Fits(j)

\* The users a job works for.
Work(j) == WorksFor(job[j].op, job[j].user)

\* Jobs that do not race work for different users.
Alone == \A j, k \in InFlight : j # k => Work(j) \cap Work(k) \subseteq raced

\* A link that a job has read, and nobody else works for, is still there.
ReadThere(j) ==
    LET c == job[j] IN
    /\ pc[j] \in {"push", "save", "failed"} /\ c.user \notin raced =>
          /\ link[c.user] # NoLink /\ link[c.user].id = c.link.id
          /\ link[c.user].event \in {NoEvent, c.link.event}
          /\ pc[j] = "push" => link[c.user] = c.link
    /\ pc[j] \in Applies \cup {"drop"} /\ c.user \notin raced => link[c.user] = c.link

\* A removal has left to delete what is linked and may still be there.
RemovesAll(j) ==
    pc[j] = "unlink" =>
        \A u \in User \ raced :
            link[u] # NoLink /\ IsLive(link[u].event) =>
                link[u].event \in left \/ <<u, link[u].event>> \in job[j].todo

\* EventsAccounted, with why the steps of a job keep it: nobody else touches
\* the link it has read.
Accounted == Alone /\ (\A j \in Job : ReadThere(j) /\ RemovesAll(j)) /\ EventsAccounted

\* The link of u would miss its event's last change if changes up to n were
\* taken for seen.
Misses(u, n) ==
    /\ link[u] # NoLink /\ IsLive(link[u].event)
    /\ event[link[u].event].rev <= n /\ event[link[u].event].rev > link[u].seen

\* A pull still has the last change of e in hand.
InHand(j, e) ==
    \/ <<e, event[e]>> \in job[j].todo
    \/ pc[j] \in Applies \cup {"drop"} /\ job[j].new = event[e]

\* What a pull will move the token past, the link has seen or the pull has in
\* hand.
PullCovers(j) ==
    LET c == job[j] IN
    c.op = "pull" /\ c.user \notin raced =>
        IF pc[j] = "list" THEN c.upto = token[c.user]
        ELSE Misses(c.user, c.upto) => InHand(j, link[c.user].event)

\* A push has noted its own change before a token passes it.
SaveCovers(j) ==
    LET c == job[j] IN
    pc[j] = "save" /\ c.user \notin raced =>
        (event[c.link.event].rev <= token[c.user] => event[c.link.event].rev <= c.upto)

\* Why no change is lost: what the token has passed is seen, and what a pull
\* will move the token past is seen or in hand.
Covering ==
    /\ \A u \in User \ raced : ~Misses(u, token[u])
    /\ \A j \in Job : PullCovers(j) /\ SaveCovers(j)

\* Nothing has raced and no hook was missed.
Calm == raced = {} /\ ~missed

\* The job is going to remove all links, or to write that of the assignee.
WillRemove(j) == pc[j] \in Removes \/ (pc[j] = "reread" /\ Hook(job[j], task) = "links")

\* The job is going to write the link of the assignee.
WillPush(j) ==
    \/ pc[j] \in Pushes
    \/ pc[j] = "find" /\ Eligible(job[j].new)
    \/ pc[j] = "reread" /\ Hook(job[j], task) = "find" /\ Eligible(task)

\* The task is one that no calendar should hold.
Closed == task # NoTask /\ (task.deleted \/ ~task.open)

\* What SyncedAgrees says of the assignee's link, in any state.
Agree ==
    task # NoTask =>
        LET l == link[task.assignee] IN
        l # NoLink /\ l.status = "SYNCED" /\ IsLive(l.event) /\ event[l.event].rev = l.seen
            => event[l.event].due = task.due

\* Jobs that do not race hold the task as it is.
HoldsTask(j) ==
    LET c == job[j] IN
    /\ pc[j] = "write" => c.old = task
    /\ pc[j] = "reread" => LiveTask
    /\ pc[j] \in Pushes \cup {"find"} \/ (pc[j] \in Removes /\ c.op = "assign") => c.new = task /\ LiveTask
    /\ pc[j] \in {"move", "seen"} => LiveTask
    /\ pc[j] = "seen" => task.due = c.new.due

\* What is owed to the links is done, or some job is going to do it: without a
\* removal under way only the assignee of an open task is linked, and his link
\* agrees unless a push is under way.
Settled ==
    /\ task = NoTask => Linked = {}
    /\ \A j \in Job : HoldsTask(j)
    /\ (\A j \in Job : ~WillRemove(j)) =>
          /\ Closed => Linked = {}
          /\ task # NoTask => Linked \subseteq {task.assignee}
          /\ Agree \/ \E j \in Job : WillPush(j)

\* Why SyncedAgrees and ClosedUnlinked hold.
Calmly == Calm => Settled

----------------------------------------------------------------------------
\* The step is not one of the job k.
Kept(k) == pc'[k] = pc[k] /\ job'[k] = job[k]

\* The step is one of j, or of no job.
OthersKept(j) == \A k \in Job : k # j => Kept(k)

\* What a step may do to the calendars: whatever changes gets a new place
\* behind all that was there.
EventsMove ==
    /\ \A e \in Used :
        /\ e \in Used' /\ event'[e].owner = event[e].owner
        /\ event[e].rev <= event'[e].rev
        /\ \/ event'[e] = event[e]
           \/ IsLive(e) /\ event'[e].rev > Latest(event[e].owner) /\ event'[e].rev # event[e].rev
    /\ \A e \in Used' \ Used : event'[e].rev > Latest(event'[e].owner)
    /\ \A u \in User : Latest(u) \in Nat /\ Latest(u)' \in Nat /\ Latest(u) <= Latest(u)'
    /\ \A u \in User : \A e \in Events(u) : event[e].rev <= Latest(u)
    /\ \A u \in User : \A e \in Events(u)' : event'[e].rev <= Latest(u)'

\* The last of a set of changes.
LEMMA LastChange ==
    ASSUME NEW R \in SUBSET Nat, NEW r \in R, \A q \in R : q <= r
    PROVE  (CHOOSE t \in R : \A q \in R : q <= t) = r
<1>. DEFINE top == CHOOSE t \in R : \A q \in R : q <= t
<1>1. top \in R /\ \A q \in R : q <= top
  OBVIOUS
<1>. HIDE DEF top
<1>2. top <= r /\ r <= top /\ top \in Nat /\ r \in Nat
  BY <1>1
<1>3. top = r
  BY <1>2
<1>. QED
  BY <1>3 DEF top

\* The record of an event that was made.
LEMMA UsedRecords ==
    ASSUME StoreTypes, NEW e \in Used
    PROVE  /\ e \in Event /\ event[e] \in Remote /\ event[e].rev \in Nat /\ event[e].owner \in User
           /\ event[e].due \in Due /\ event[e].live \in BOOLEAN /\ e \in Events(event[e].owner)
<1>1. e \in Event /\ event[e] \in Remote
  BY DEF StoreTypes, Used
<1>. QED
  BY <1>1 DEF Remote, Events

\* The last change of a calendar is that of one of its events.
LEMMA LatestIs ==
    ASSUME StoreTypes, Topped, NEW u \in User
    PROVE  /\ Latest(u) \in Nat
           /\ \A e \in Events(u) : event[e].rev <= Latest(u)
           /\ Events(u) # {} => \E e \in Events(u) : Latest(u) = event[e].rev
<1>1. CASE Events(u) = {}
  BY <1>1 DEF Latest
<1>2. CASE Events(u) # {}
  <2>. DEFINE R == {event[e].rev : e \in Events(u)}
  <2>1. PICK e \in Events(u) : \A f \in Events(u) : event[f].rev <= event[e].rev
    BY <1>2 DEF Topped
  <2>2. R \in SUBSET Nat
    BY UsedRecords DEF Events
  <2>3. event[e].rev \in R /\ \A q \in R : q <= event[e].rev
    BY <2>1
  <2>4. Latest(u) = CHOOSE r \in R : \A f \in Events(u) : event[f].rev <= r
    BY <1>2 DEF Latest
  <2>5. \A r \in R : (\A f \in Events(u) : event[f].rev <= r) <=> (\A q \in R : q <= r)
    OBVIOUS
  <2>6. Latest(u) = CHOOSE r \in R : \A q \in R : q <= r
    BY <2>4, <2>5
  <2>7. Latest(u) = event[e].rev
    <3>. HIDE DEF R
    <3>. QED
      BY <2>2, <2>3, <2>6, LastChange
  <2>. QED
    BY <2>1, <2>2, <2>3, <2>7
<1>. QED
  BY <1>1, <1>2

\* A new change is the last one of its calendar.
LEMMA NewLatest ==
    ASSUME NEW u \in User, NEW r \in Nat, NEW e \in Events(u)', event'[e].rev = r,
           \A f \in Events(u)' : event'[f].rev \in Nat /\ event'[f].rev <= r
    PROVE  Latest(u)' = r
<1>. DEFINE R == {event'[f].rev : f \in Events(u)'}
<1>1. R \in SUBSET Nat /\ r \in R /\ \A q \in R : q <= r
  OBVIOUS
<1>2. Latest(u)' = CHOOSE t \in R : \A f \in Events(u)' : event'[f].rev <= t
  BY DEF Latest
<1>3. \A t \in R : (\A f \in Events(u)' : event'[f].rev <= t) <=> (\A q \in R : q <= t)
  OBVIOUS
<1>4. Latest(u)' = CHOOSE t \in R : \A q \in R : q <= t
  BY <1>2, <1>3
<1>. HIDE DEF R
<1>. QED
  BY <1>1, <1>4, LastChange

\* A calendar without a change keeps its last one.
LEMMA SameLatest ==
    ASSUME NEW u, Events(u)' = Events(u), \A e \in Events(u) : event'[e].rev = event[e].rev
    PROVE  Latest(u)' = Latest(u)
<1>. DEFINE R == {event[e].rev : e \in Events(u)}
            R2 == {event'[e].rev : e \in Events(u)'}
            P(t) == \A e \in Events(u) : event[e].rev <= t
            P2(t) == \A e \in Events(u)' : event'[e].rev <= t
<1>1. R2 = R
  OBVIOUS
<1>2. \A t : P(t) <=> P2(t)
  OBVIOUS
<1>3. (CHOOSE t \in R : P(t)) = (CHOOSE t \in R2 : P2(t))
  <2>. HIDE DEF R, R2, P, P2
  <2>. QED
    BY <1>1, <1>2
<1>4. Latest(u) = IF Events(u) = {} THEN 0 ELSE CHOOSE t \in R : P(t)
  BY DEF Latest
<1>5. Latest(u)' = IF Events(u)' = {} THEN 0 ELSE CHOOSE t \in R2 : P2(t)
  BY DEF Latest
<1>. HIDE DEF R, R2, P, P2
<1>. QED
  BY <1>3, <1>4, <1>5

\* When no event changes, nothing that is defined by events does.
LEMMA EventsStay ==
    ASSUME StoreTypes, Topped, UNCHANGED event
    PROVE  EventsMove /\ Topped' /\ Used' = Used
           /\ \A u \in User : Events(u)' = Events(u) /\ Latest(u)' = Latest(u)
<1>1. Used' = Used
  BY DEF Used
<1>2. \A u : Events(u)' = Events(u)
  BY <1>1 DEF Events
<1>3. \A u : Latest(u)' = Latest(u)
  BY <1>2, SameLatest
<1>4. Topped'
  BY <1>2 DEF Topped
<1>5. \A e \in Used : event[e].rev \in Nat
  BY UsedRecords
<1>6. EventsMove
  BY <1>1, <1>2, <1>3, <1>5, LatestIs DEF EventsMove
<1>. QED
  BY <1>1, <1>2, <1>3, <1>4, <1>6

\* Some events of u's calendar, new ones or live ones, change at once.
LEMMA EventsChange ==
    ASSUME StoreTypes, Topped, NEW u \in User, NEW M \in SUBSET Event, M # {},
           event' \in [Event -> Remote \cup {NoEvent}],
           \A e \in Event \ M : event'[e] = event[e],
           \A e \in M : /\ event'[e] \in Remote /\ event'[e].owner = u
                        /\ event'[e].rev = Latest(u) + 1
                        /\ e \in Used => event[e].owner = u /\ IsLive(e)
    PROVE  EventsMove /\ Topped' /\ Used' = Used \cup M /\ Latest(u)' = Latest(u) + 1
<1>1. Used' = Used \cup M
  BY NoneIsOther DEF Used
<1>2. Latest(u) \in Nat /\ \A e \in Events(u) : event[e].rev <= Latest(u)
  BY LatestIs
<1>. DEFINE owned(v) == {e \in Used' : event'[e].owner = v}
<1>0. \A v : Events(v)' = owned(v)
  BY DEF Events
<1>a. \A e \in Used : e \in Event
  BY DEF Used
<1>b. \A e \in Used \ M : event'[e] = event[e]
  BY <1>a
<1>3. Events(u)' = Events(u) \cup M
  <2>1. owned(u) \subseteq Events(u) \cup M
    BY <1>1, <1>b DEF Events
  <2>2. Events(u) \cup M \subseteq owned(u)
    BY <1>1, <1>b DEF Events
  <2>. QED
    BY <1>0, <2>1, <2>2
<1>4. ASSUME NEW v \in User, v # u
      PROVE  Events(v)' = Events(v) /\ \A e \in Events(v) : event'[e] = event[e]
  <2>1. Events(v)' = Events(v)
    <3>1. owned(v) \subseteq Events(v)
      BY <1>1, <1>4, <1>b DEF Events
    <3>2. Events(v) \subseteq owned(v)
      BY <1>1, <1>4, <1>b DEF Events
    <3>. QED
      BY <1>0, <3>1, <3>2
  <2>2. \A e \in Events(v) : e \notin M /\ e \in Event
    BY <1>4 DEF Events, Used
  <2>. QED
    BY <2>1, <2>2
<1>5. \A e \in Events(u)' : event'[e].rev \in Nat /\ event'[e].rev <= Latest(u) + 1
  <2>. SUFFICES ASSUME NEW e \in Events(u)'
                PROVE  event'[e].rev \in Nat /\ event'[e].rev <= Latest(u) + 1
    OBVIOUS
  <2>1. CASE e \in M
    BY <1>2, <2>1
  <2>2. CASE e \notin M
    <3>1. e \in Events(u) /\ e \in Event /\ event'[e] = event[e] /\ e \in Used
      BY <1>3, <2>2 DEF Events, Used
    <3>2. event[e].rev \in Nat /\ event[e].rev <= Latest(u)
      BY <1>2, <3>1, UsedRecords
    <3>. QED
      BY <1>2, <3>1, <3>2
  <2>. QED
    BY <2>1, <2>2
<1>6. PICK m \in M : TRUE
  OBVIOUS
<1>7. m \in Events(u)' /\ event'[m].rev = Latest(u) + 1 /\ Latest(u) + 1 \in Nat
  BY <1>2, <1>3
<1>8. Latest(u)' = Latest(u) + 1
  BY <1>5, <1>7, NewLatest
<1>9. ASSUME NEW v \in User, v # u
      PROVE  Latest(v)' = Latest(v)
  BY <1>4, <1>9, SameLatest
<1>10. Topped'
  <2>. SUFFICES ASSUME NEW v \in User, Events(v)' # {}
                PROVE  \E e \in Events(v)' : \A f \in Events(v)' : event'[f].rev <= event'[e].rev
    BY DEF Topped
  <2>1. CASE v = u
    BY <1>5, <1>7, <2>1
  <2>2. CASE v # u
    <3>1. Events(v)' = Events(v) /\ \A e \in Events(v) : event'[e] = event[e]
      BY <1>4, <2>2
    <3>2. PICK e \in Events(v) : \A f \in Events(v) : event[f].rev <= event[e].rev
      BY <3>1 DEF Topped
    <3>. QED
      BY <3>1, <3>2
  <2>. QED
    BY <2>1, <2>2
<1>11. ASSUME NEW e \in Used
       PROVE  /\ e \in Used' /\ event'[e].owner = event[e].owner
              /\ event[e].rev <= event'[e].rev
              /\ \/ event'[e] = event[e]
                 \/ IsLive(e) /\ event'[e].rev > Latest(event[e].owner) /\ event'[e].rev # event[e].rev
  <2>1. e \in Event /\ event[e].rev \in Nat /\ e \in Events(event[e].owner)
    BY UsedRecords
  <2>2. CASE e \in M
    <3>1. event[e].owner = u /\ IsLive(e) /\ event[e].rev <= Latest(u)
      BY <1>2, <2>1, <2>2
    <3>. QED
      BY <1>1, <1>2, <2>1, <2>2, <3>1
  <2>3. CASE e \notin M
    BY <1>1, <2>1, <2>3
  <2>. QED
    BY <2>2, <2>3
<1>12. \A e \in Used' \ Used : event'[e].rev > Latest(event'[e].owner)
  BY <1>1, <1>2
<1>13. ASSUME NEW v \in User
       PROVE  /\ Latest(v) \in Nat /\ Latest(v)' \in Nat /\ Latest(v) <= Latest(v)'
              /\ \A e \in Events(v) : event[e].rev <= Latest(v)
              /\ \A e \in Events(v)' : event'[e].rev <= Latest(v)'
  <2>1. Latest(v) \in Nat /\ \A e \in Events(v) : event[e].rev <= Latest(v)
    BY LatestIs
  <2>2. CASE v = u
    BY <1>2, <1>5, <1>8, <2>1, <2>2
  <2>3. CASE v # u
    BY <1>4, <1>9, <2>1, <2>3
  <2>. QED
    BY <2>2, <2>3
<1>14. EventsMove
  BY <1>11, <1>12, <1>13 DEF EventsMove
<1>. QED
  BY <1>1, <1>8, <1>10, <1>14

----------------------------------------------------------------------------
(* Records *)

\* What an operation may ask for.
LEMMA OpsTyped ==
    ASSUME NEW o \in Ops
    PROVE  /\ o[1] \in Handlers \cup {"pull", "disconnect"}
           /\ o[2] \in Due \cup {NoDue, Same} /\ o[3] \in BOOLEAN \cup {Same} /\ o[4] \in User \cup {Same}
           /\ o = <<o[1], o[2], o[3], o[4]>>
           /\ o[1] = "create" => o[2] \in Due \cup {NoDue} /\ o[3] \in BOOLEAN /\ o[4] \in User
           /\ o[1] = "assign" => o[2] = Same /\ o[3] = Same /\ o[4] \in User
           /\ o[1] = "complete" => o[2] = Same /\ o[3] = FALSE /\ o[4] = Same
           /\ o[1] = "delete" => o[2] = Same /\ o[3] = Same /\ o[4] = Same
<1>1. CASE o \in {"create"} \X (Due \cup {NoDue}) \X BOOLEAN \X User
  BY <1>1 DEF Handlers, Writes
<1>2. CASE o \in {"update"} \X (Due \cup {NoDue, Same}) \X (BOOLEAN \cup {Same}) \X (User \cup {Same})
  BY <1>2 DEF Handlers, Writes
<1>3. CASE o \in {"assign"} \X {Same} \X {Same} \X User
  BY <1>3 DEF Handlers, Writes
<1>4. CASE o \in {"complete"} \X {Same} \X {FALSE} \X {Same}
  <2>1. o[1] = "complete" /\ o[2] = Same /\ o[3] = FALSE /\ o[4] = Same
    BY <1>4
  <2>2. o = <<o[1], o[2], o[3], o[4]>>
    BY <1>4
  <2>3. o[1] \in Handlers /\ o[1] \notin {"create", "assign", "delete"}
    BY <2>1 DEF Handlers, Writes
  <2>4. o[3] \in BOOLEAN
    BY <2>1
  <2>. QED
    BY <2>1, <2>2, <2>3, <2>4
<1>5. CASE o \in {"delete", "sync", "pull", "disconnect"} \X {Same} \X {Same} \X {Same}
  BY <1>5 DEF Handlers, Writes
<1>. QED
  BY OpsAreAsked, <1>1, <1>2, <1>3, <1>4, <1>5

\* The fields of a link.
LEMMA LinkFields ==
    ASSUME NEW l \in Link
    PROVE  /\ l.id \in Job /\ l.event \in Event \cup {NoEvent} /\ l.seen \in Nat
           /\ l.status = "SYNCED" => l.event \in Event
           /\ l # NoLink
  BY NoneIsOther DEF Link

\* A link may be seen further, fail or be synced.
LEMMA LinkForms ==
    ASSUME NEW l \in Link, NEW n \in Nat
    PROVE  /\ [l EXCEPT !.seen = n] \in Link
           /\ [l EXCEPT !.status = "FAILED"] \in Link
           /\ l.event # NoEvent => [l EXCEPT !.status = "SYNCED", !.seen = n] \in Link
<1>1. CASE l \in [id : Job, event : Event \cup {NoEvent}, status : {"PENDING", "FAILED"}, seen : Nat]
  BY <1>1 DEF Link
<1>2. CASE l \in [id : Job, event : Event, status : {"SYNCED"}, seen : Nat]
  BY <1>2 DEF Link
<1>. QED
  BY <1>1, <1>2 DEF Link

\* The fields of the locals of a job.
LEMMA JobFields ==
    ASSUME JobTypes, NEW j \in Job
    PROVE  /\ pc[j] \in Steps /\ job[j] \in JobRec
           /\ job[j].op \in Handlers \cup {"none", "pull", "disconnect"}
           /\ job[j].due \in Due \cup {NoDue, Same} /\ job[j].open \in BOOLEAN \cup {Same}
           /\ job[j].assignee \in User \cup {Same} /\ job[j].old \in Row \cup {NoTask}
           /\ job[j].new \in Row \cup Remote \cup {NoTask} /\ job[j].user \in User \cup {NoUser}
           /\ job[j].link \in Link \cup {NoLink} /\ job[j].todo \in SUBSET Pair
           /\ job[j].upto \in Nat
<1>1. pc[j] \in Steps /\ job[j] \in JobRec
  BY DEF JobTypes
<1>. QED
  BY <1>1 DEF JobRec

\* Which jobs may be at a step.
LEMMA StepsFit ==
    ASSUME JobTypes, NEW j \in Job, Fits(j)
    PROVE  /\ pc[j] \in {"write", "reread", "find"} \cup Pushes \cup Removes => job[j].op \in Handlers
           /\ pc[j] \in {"list", "apply", "drop"} \cup Applies => job[j].op = "pull"
           /\ pc[j] = "forget" => job[j].op = "disconnect"
           /\ pc[j] \in {"idle", "ended"} => job[j].op = "none"
<1>1. job[j].op \in Handlers \cup {"none", "pull", "disconnect"}
  BY JobFields
<1>2. pc[j] \in StepsOf(job[j].op)
  BY DEF Fits
<1>. QED
  BY <1>1, <1>2 DEF StepsOf, Handlers, Writes, Pushes, Removes, Applies

\* The locals of a job that begins or has ended.
LEMMA IdleTyped == Idle \in JobRec /\ Idle.op = "none"
  BY DEF Idle, JobRec

\* A step and locals that one job takes over.
Takes(j, step, c) == pc' = [pc EXCEPT ![j] = step] /\ job' = [job EXCEPT ![j] = c]

\* A job that takes a step leaves the others alone.
LEMMA TakesTyped ==
    ASSUME JobTypes, NEW j \in Job, NEW step \in Steps, NEW c \in JobRec, Takes(j, step, c)
    PROVE  JobTypes' /\ OthersKept(j) /\ pc'[j] = step /\ job'[j] = c
  BY DEF JobTypes, Takes, OthersKept, Kept

\* A job that ends holds nothing.
LEMMA Ends ==
    ASSUME JobTypes, NEW j \in Job, End(j)
    PROVE  JobTypes' /\ OthersKept(j) /\ pc'[j] = "ended" /\ job'[j] = Idle /\ Fits(j)'
<1>1. Takes(j, "ended", Idle) /\ "ended" \in Steps
  BY DEF End, Goto, Takes, Steps
<1>2. JobTypes' /\ OthersKept(j) /\ pc'[j] = "ended" /\ job'[j] = Idle
  BY <1>1, IdleTyped, TakesTyped
<1>3. Fits(j)'
  BY <1>2, IdleTyped DEF Fits, StepsOf, Handlers, Writes
<1>. QED
  BY <1>2, <1>3

----------------------------------------------------------------------------
(* What a step leaves of the store and of the other jobs *)

\* The calendars have their type.
EventTypes == event \in [Event -> Remote \cup {NoEvent}]

\* An event of a calendar stays in it; if it is still at its place it has not
\* changed.
LEMMA EventKept ==
    ASSUME StoreTypes, EventsMove, EventTypes', NEW u \in User, NEW e \in Events(u)
    PROVE  /\ e \in Events(u)' /\ e \in Used' /\ event'[e].owner = u /\ event[e].rev \in Nat /\ event'[e].rev \in Nat
           /\ event[e].rev <= event'[e].rev
           /\ event'[e].rev = event[e].rev => event'[e] = event[e]
<1>1. e \in Used /\ event[e].owner = u
  BY DEF Events
<1>2. e \in Used' /\ event'[e].owner = u /\ event[e].rev <= event'[e].rev
  BY <1>1 DEF EventsMove
<1>3. event[e].rev \in Nat
  BY <1>1, UsedRecords
<1>4. event'[e] \in Remote
  BY <1>2 DEF EventTypes, Used
<1>5. event'[e].rev \in Nat
  BY <1>4 DEF Remote
<1>6. event'[e].rev = event[e].rev => event'[e] = event[e]
  BY <1>1 DEF EventsMove
<1>7. e \in Events(u)'
  BY <1>2 DEF Events
<1>. QED
  BY <1>2, <1>3, <1>5, <1>6, <1>7

\* What was read stays what was read.
LEMMA ReadAsKept ==
    ASSUME StoreTypes, EventsMove, EventTypes', NEW u \in User, NEW e, NEW r, ReadAs(u, e, r)
    PROVE  ReadAs(u, e, r)'
<1>1. e \in Events(u) /\ r \in Remote /\ r.rev <= event[e].rev /\ (r.rev = event[e].rev => r = event[e])
  BY DEF ReadAs, Has, Events
<1>2. r.rev \in Nat
  BY <1>1 DEF Remote
<1>. QED
  BY <1>1, <1>2, EventKept DEF ReadAs, Has

\* A handler that takes no step still fits.
LEMMA HandlerKept ==
    ASSUME StoreTypes, JobTypes, EventsMove, EventTypes', NEW k \in Job, Kept(k), HandlerFits(k)
    PROVE  HandlerFits(k)'
<1>. DEFINE c == job[k]
<1>1. job'[k] = c /\ pc'[k] = pc[k]
  BY DEF Kept
<1>2. \A x \in c.todo : x \in User \X Event /\ x[2] \in Used' /\ event'[x[2]].owner = x[1]
  <2>. SUFFICES ASSUME NEW x \in c.todo
                PROVE  x \in User \X Event /\ x[2] \in Used' /\ event'[x[2]].owner = x[1]
    OBVIOUS
  <2>1. x \in User \X Event /\ x[2] \in Events(x[1])
    BY DEF HandlerFits, Has, Events
  <2>2. x[1] \in User
    BY <2>1
  <2>. QED
    BY <2>1, <2>2, EventKept
<1>3. pc[k] \in Pushes \ {"upsert"} =>
          c.link \in Link /\ (c.link.event = NoEvent \/ (c.link.event \in Used' /\ event'[c.link.event].owner = c.user))
  <2>. SUFFICES ASSUME pc[k] \in Pushes \ {"upsert"}
                PROVE  c.link \in Link /\ (c.link.event = NoEvent \/ (c.link.event \in Used' /\ event'[c.link.event].owner = c.user))
    OBVIOUS
  <2>1. c.new \in Row /\ c.user = c.new.assignee /\ c.link \in Link
        /\ (c.link.event = NoEvent \/ c.link.event \in Events(c.user))
    BY DEF HandlerFits, Has, Events
  <2>2. c.user \in User
    BY <2>1 DEF Row
  <2>. QED
    BY <2>1, <2>2, EventKept
<1>4. pc[k] = "save" =>
          /\ c.link.event \in Used' /\ event'[c.link.event].owner = c.user
          /\ c.upto <= event'[c.link.event].rev
          /\ c.upto = event'[c.link.event].rev => event'[c.link.event].due = c.new.due
  <2>. SUFFICES ASSUME pc[k] = "save"
                PROVE  /\ c.link.event \in Used' /\ event'[c.link.event].owner = c.user
                       /\ c.upto <= event'[c.link.event].rev
                       /\ c.upto = event'[c.link.event].rev => event'[c.link.event].due = c.new.due
    OBVIOUS
  <2>. DEFINE e == c.link.event
  <2>1. /\ c.new \in Row /\ c.user = c.new.assignee /\ e \in Events(c.user)
        /\ c.upto <= event[e].rev /\ (c.upto = event[e].rev => event[e].due = c.new.due)
    BY DEF HandlerFits, Pushes, Has, Events
  <2>2. c.user \in User /\ c.upto \in Nat
    BY <2>1, JobFields DEF Row
  <2>3. /\ e \in Used' /\ event'[e].owner = c.user /\ event[e].rev \in Nat /\ event'[e].rev \in Nat
        /\ event[e].rev <= event'[e].rev /\ (event'[e].rev = event[e].rev => event'[e] = event[e])
    BY <2>1, <2>2, EventKept
  <2>. HIDE DEF e
  <2>4. c.upto <= event'[e].rev /\ (c.upto = event'[e].rev => event'[e].due = c.new.due)
    BY <2>1, <2>2, <2>3
  <2>. QED
    BY <2>3, <2>4 DEF e
<1>. QED
  BY <1>1, <1>2, <1>3, <1>4 DEF HandlerFits, Has

\* Nor does a pull that takes no step lose what it fits.
LEMMA PullKept ==
    ASSUME StoreTypes, JobTypes, EventsMove, EventTypes', NEW k \in Job, Kept(k), PullFits(k)
    PROVE  PullFits(k)'
<1>. DEFINE c == job[k]
            Still(e, r) == /\ e \in Used' /\ event'[e].owner = c.user /\ r \in Remote
                           /\ r.rev <= event'[e].rev /\ (r.rev = event'[e].rev => r = event'[e])
<1>1. job'[k] = c /\ pc'[k] = pc[k]
  BY DEF Kept
<1>2. c.user \in User /\ c.upto <= Last[c.user] /\ c.upto \in Nat
  BY JobFields DEF PullFits
<1>3. c.upto <= Last'[c.user]
  <2>1. \A u \in User : Last[u] \in Nat /\ Last'[u] \in Nat /\ Last[u] <= Last'[u]
    BY DEF EventsMove, Last
  <2>. QED
    BY <1>2, <2>1
<1>a. \A e, r : ReadAs(c.user, e, r) => Still(e, r)
  <2>1. \A u \in User : \A e, r : ReadAs(u, e, r) =>
            /\ e \in Used' /\ event'[e].owner = u /\ r \in Remote
            /\ r.rev <= event'[e].rev /\ (r.rev = event'[e].rev => r = event'[e])
    BY ReadAsKept DEF ReadAs, Has
  <2>. QED
    BY <1>2, <2>1
<1>4. \A x \in c.todo : x \in Event \X Remote /\ Still(x[1], x[2])
  <2>. SUFFICES ASSUME NEW x \in c.todo
                PROVE  x \in Event \X Remote /\ Still(x[1], x[2])
    OBVIOUS
  <2>1. x \in Event \X Remote /\ ReadAs(c.user, x[1], x[2])
    BY DEF PullFits
  <2>. QED
    BY <1>a, <2>1
<1>5. pc[k] \in Applies => Still(c.link.event, c.new)
  <2>1. pc[k] \in Applies => ReadAs(c.user, c.link.event, c.new)
    BY DEF PullFits
  <2>. QED
    BY <1>a, <2>1
<1>. QED
  BY <1>1, <1>2, <1>3, <1>4, <1>5 DEF PullFits, ReadAs, Has, Newer

\* A job that does not move still fits when the calendars move forward.
LEMMA OthersFit ==
    ASSUME StoreTypes, JobTypes, EventsMove, EventTypes', NEW k \in Job, Kept(k), Fits(k)
    PROVE  Fits(k)'
<1>1. job'[k] = job[k] /\ pc'[k] = pc[k]
  BY DEF Kept
<1>. QED
  BY <1>1, HandlerKept, PullKept DEF Fits

\* The store stays one that tokens and links know nothing beyond.
LEMMA StoreMoves ==
    ASSUME Store, EventsMove, StoreTypes', Topped',
           \A u \in User : token'[u] = token[u] \/ token'[u] <= Latest(u)',
           \A u \in User : \/ link'[u] = link[u]
                           \/ link'[u] # NoLink =>
                                 /\ link'[u].seen <= Latest(u)'
                                 /\ link'[u].event = NoEvent \/ link'[u].event \in Events(u)'
    PROVE  Store'
<1>1. StoreTypes /\ EventTypes'
  BY DEF Store, StoreTypes, EventTypes
<1>2. \A e \in Used' : event'[e].rev # 0
  <2>. SUFFICES ASSUME NEW e \in Used' PROVE event'[e].rev # 0
    OBVIOUS
  <2>1. event'[e] \in Remote
    BY DEF StoreTypes, Used
  <2>2. event'[e].owner \in User /\ event'[e].rev \in Nat
    BY <2>1 DEF Remote
  <2>3. CASE e \in Used
    <3>1. event[e].rev # 0 /\ event[e].rev \in Nat /\ event[e].rev <= event'[e].rev
      BY <1>1, <2>3, UsedRecords DEF Store, InPast, EventsMove
    <3>. QED
      BY <2>2, <3>1
  <2>4. CASE e \notin Used
    <3>1. event'[e].rev > Latest(event'[e].owner) /\ Latest(event'[e].owner) \in Nat
      BY <2>2, <2>4 DEF EventsMove
    <3>. QED
      BY <2>2, <3>1
  <2>. QED
    BY <2>3, <2>4
<1>3. ASSUME NEW u \in User
      PROVE  token'[u] <= Latest(u)'
  <2>1. token[u] \in Nat /\ token[u] <= Latest(u)
    BY <1>1, <1>3 DEF Store, InPast, StoreTypes
  <2>2. Latest(u) \in Nat /\ Latest(u)' \in Nat /\ Latest(u) <= Latest(u)'
    BY DEF EventsMove
  <2>. QED
    BY <2>1, <2>2
<1>4. ASSUME NEW u \in User, link'[u] # NoLink
      PROVE  /\ link'[u].seen <= Latest(u)'
             /\ link'[u].event = NoEvent \/ link'[u].event \in Events(u)'
  <2>1. CASE link'[u] = link[u]
    <3>1. link[u] \in Link
      BY <1>1, <1>4, <2>1 DEF StoreTypes
    <3>2. link[u].seen \in Nat
      BY <3>1, LinkFields
    <3>3. link[u].seen <= Latest(u) /\ (link[u].event = NoEvent \/ link[u].event \in Events(u))
      BY <1>4, <2>1 DEF Store, InPast
    <3>4. Latest(u) \in Nat /\ Latest(u)' \in Nat /\ Latest(u) <= Latest(u)'
      BY DEF EventsMove
    <3>5. link[u].event = NoEvent \/ link[u].event \in Events(u)'
      BY <1>1, <3>3, EventKept
    <3>6. link[u].seen <= Latest(u)'
      BY <3>2, <3>3, <3>4
    <3>. QED
      BY <2>1, <3>5, <3>6
  <2>2. CASE link'[u] # link[u]
    BY <1>4, <2>2
  <2>. QED
    BY <2>1, <2>2
<1>. QED
  BY <1>2, <1>3, <1>4 DEF Store, InPast

\* One job takes a step that keeps it fit.
LEMMA JobMoves ==
    ASSUME Base, NEW j \in Job, EventsMove, Store', JobTypes', OthersKept(j), Fits(j)'
    PROVE  Base'
<1>1. StoreTypes /\ JobTypes /\ EventTypes'
  BY DEF Base, Store, StoreTypes, EventTypes
<1>2. \A k \in Job : k # j => Fits(k)'
  BY <1>1, OthersFit DEF OthersKept, Base
<1>. QED
  BY <1>2 DEF Base

\* A step of no job.
LEMMA JobsStay ==
    ASSUME Base, EventsMove, Store', UNCHANGED <<pc, job>>
    PROVE  Base'
<1>1. StoreTypes /\ JobTypes /\ EventTypes'
  BY DEF Base, Store, StoreTypes, EventTypes
<1>2. \A k \in Job : Fits(k)'
  BY <1>1, OthersFit DEF Kept, Base
<1>3. JobTypes'
  BY <1>1 DEF JobTypes
<1>. QED
  BY <1>2, <1>3 DEF Base

----------------------------------------------------------------------------
(* What the steps do to the calendars *)

\* An event that is created, moved or cancelled.
LEMMA Records ==
    ASSUME StoreTypes, Topped, NEW u \in User, NEW d \in Due
    PROVE  /\ Created(u, d) \in Remote /\ Created(u, d).owner = u /\ Created(u, d).due = d
           /\ Created(u, d).rev = Latest(u) + 1 /\ Created(u, d).live
           /\ \A e \in Events(u) :
                /\ Moved(e, d) \in Remote /\ Moved(e, d).owner = u /\ Moved(e, d).due = d
                /\ Moved(e, d).rev = Latest(u) + 1 /\ Moved(e, d).live = event[e].live
<1>1. Latest(u) \in Nat /\ Latest(u) + 1 \in Nat
  BY LatestIs
<1>2. \A e \in Events(u) : event[e] \in Remote /\ event[e].owner = u
  BY UsedRecords DEF Events
<1>. QED
  BY <1>1, <1>2 DEF Created, Moved, Remote

\* The record of an event that is cancelled.
LEMMA CancelledRecord ==
    ASSUME StoreTypes, Topped, NEW u \in User, NEW e \in Events(u)
    PROVE  /\ Cancelled(e) \in Remote /\ Cancelled(e).owner = u /\ Cancelled(e).due = event[e].due
           /\ Cancelled(e).rev = Latest(u) + 1 /\ ~Cancelled(e).live
<1>1. Latest(u) \in Nat /\ Latest(u) + 1 \in Nat
  BY LatestIs
<1>2. event[e] \in Remote /\ event[e].owner = u
  BY UsedRecords DEF Events
<1>. QED
  BY <1>1, <1>2 DEF Cancelled, Remote

\* The events M are made in u's calendar, if there are any.
CreatesFor(u, M, d) ==
    /\ M \in SUBSET (Event \ Used) /\ d \in Due
    /\ event' = [e \in Event |-> IF e \in M THEN Created(u, d) ELSE event[e]]

\* A live event of u's calendar is moved or cancelled.
MovesEvent(u, e) ==
    /\ e \in Events(u) /\ IsLive(e)
    /\ \/ \E d \in Due : event' = [event EXCEPT ![e] = Moved(e, d)]
       \/ event' = [event EXCEPT ![e] = Cancelled(e)]

\* Creating events moves one calendar forward.
LEMMA Creates ==
    ASSUME StoreTypes, Topped, NEW u \in User, NEW M, NEW d, CreatesFor(u, M, d)
    PROVE  /\ EventsMove /\ Topped' /\ EventTypes' /\ Used' = Used \cup M
           /\ \A e \in M : /\ event'[e].owner = u /\ event'[e].due = d /\ event'[e].live
                           /\ event'[e].rev = Latest(u) + 1 /\ e \in Used'
           /\ M # {} => Last'[u] = Latest(u) + 1
<1>1. M \in SUBSET Event /\ d \in Due /\ \A e \in M : e \notin Used
  BY DEF CreatesFor
<1>2. Created(u, d) \in Remote /\ Created(u, d).owner = u /\ Created(u, d).rev = Latest(u) + 1
      /\ Created(u, d).due = d /\ Created(u, d).live
  BY <1>1, Records
<1>3. EventTypes'
  BY <1>1, <1>2 DEF EventTypes, CreatesFor, StoreTypes
<1>4. /\ \A e \in Event \ M : event'[e] = event[e]
      /\ \A e \in M : event'[e] = Created(u, d)
  BY <1>1 DEF CreatesFor
<1>5. CASE M = {}
  <2>1. event' = event
    BY <1>5 DEF CreatesFor, StoreTypes
  <2>. QED
    BY <1>3, <1>5, <2>1, EventsStay
<1>6. CASE M # {}
  <2>1. EventsMove /\ Topped' /\ Used' = Used \cup M /\ Latest(u)' = Latest(u) + 1
    BY <1>1, <1>2, <1>3, <1>4, <1>6, EventsChange DEF EventTypes
  <2>2. \A e \in M : event'[e].owner = u /\ e \in Used'
    BY <1>2, <1>4, <2>1
  <2>. QED
    BY <1>2, <1>3, <1>4, <2>1, <2>2 DEF Last
<1>. QED
  BY <1>5, <1>6

\* So does moving or cancelling one.
LEMMA Moves ==
    ASSUME StoreTypes, Topped, NEW u \in User, NEW e, MovesEvent(u, e)
    PROVE  /\ EventsMove /\ Topped' /\ EventTypes' /\ Used' = Used
           /\ event'[e].owner = u /\ event'[e].rev = Latest(u) + 1 /\ e \in Used'
           /\ \A f \in Event : f # e => event'[f] = event[f]
           /\ Last'[u] = Latest(u) + 1
<1>1. e \in Events(u) /\ IsLive(e) /\ e \in Used /\ e \in Event /\ event[e].owner = u
  BY DEF MovesEvent, Events, Used
<1>2. \/ \E d \in Due : event' = [event EXCEPT ![e] = Moved(e, d)]
      \/ event' = [event EXCEPT ![e] = Cancelled(e)]
  BY DEF MovesEvent
<1>3. PICK r \in Remote : event' = [event EXCEPT ![e] = r] /\ r.owner = u /\ r.rev = Latest(u) + 1
  <2>1. CASE event' = [event EXCEPT ![e] = Cancelled(e)]
    BY <1>1, <2>1, CancelledRecord
  <2>2. ASSUME NEW d \in Due, event' = [event EXCEPT ![e] = Moved(e, d)]
        PROVE  \E r \in Remote : event' = [event EXCEPT ![e] = r] /\ r.owner = u /\ r.rev = Latest(u) + 1
    <3>1. Moved(e, d) \in Remote /\ Moved(e, d).owner = u /\ Moved(e, d).rev = Latest(u) + 1
      BY <1>1, Records
    <3>. QED
      BY <2>2, <3>1
  <2>. QED
    BY <1>2, <2>1, <2>2
<1>4. event \in [Event -> Remote \cup {NoEvent}]
  BY DEF StoreTypes
<1>5. EventTypes' /\ event'[e] = r /\ \A f \in Event : f # e => event'[f] = event[f]
  BY <1>1, <1>3, <1>4 DEF EventTypes
<1>. DEFINE M == {e}
<1>6. /\ M \in SUBSET Event /\ M # {} /\ \A f \in Event \ M : event'[f] = event[f]
      /\ \A f \in M : /\ event'[f] \in Remote /\ event'[f].owner = u
                      /\ event'[f].rev = Latest(u) + 1
                      /\ f \in Used => event[f].owner = u /\ IsLive(f)
  BY <1>1, <1>3, <1>5
<1>7. EventsMove /\ Topped' /\ Used' = Used \cup M /\ Latest(u)' = Latest(u) + 1
  <2>. HIDE DEF M
  <2>. QED
    BY <1>5, <1>6, EventsChange DEF EventTypes
<1>8. Used' = Used
  BY <1>1, <1>7
<1>. QED
  BY <1>1, <1>3, <1>5, <1>7, <1>8 DEF Last

\* The parts of Base a step begins with.
LEMMA BaseParts ==
    ASSUME Base
    PROVE  /\ Store /\ StoreTypes /\ Topped /\ InPast /\ JobTypes /\ EventTypes
           /\ \A j \in Job : Fits(j)
  BY DEF Base, Store, StoreTypes, EventTypes

\* When no event changes.
LEMMA Still ==
    ASSUME Base, UNCHANGED event
    PROVE  /\ EventsMove /\ Topped' /\ Used' = Used /\ EventTypes'
           /\ \A u \in User : Events(u)' = Events(u) /\ Latest(u)' = Latest(u)
           /\ Last' = Last
<1>1. EventsMove /\ Topped' /\ Used' = Used
      /\ \A u \in User : Events(u)' = Events(u) /\ Latest(u)' = Latest(u)
  BY BaseParts, EventsStay
<1>2. EventTypes'
  BY BaseParts DEF EventTypes
<1>3. Last' = Last
  BY <1>1 DEF Last
<1>. QED
  BY <1>1, <1>2, <1>3

\* A step that changes neither events nor tokens, and sets a link at most to
\* one that knows nothing new.
LEMMA StoreStays ==
    ASSUME Base, UNCHANGED <<event, token>>, StoreTypes',
           \A u \in User : \/ link'[u] = link[u]
                           \/ link'[u] # NoLink =>
                                 /\ link'[u].seen <= Latest(u)
                                 /\ link'[u].event = NoEvent \/ link'[u].event \in Events(u)
    PROVE  Store' /\ EventsMove
<1>1. /\ EventsMove /\ Topped'
      /\ \A u \in User : Events(u)' = Events(u) /\ Latest(u)' = Latest(u)
  BY Still
<1>2. \A u \in User : token'[u] = token[u]
  OBVIOUS
<1>. QED
  BY <1>1, <1>2, StoreMoves, BaseParts

----------------------------------------------------------------------------
(* Base is kept: the handlers up to their hooks *)

\* Who races is one of the users.
LEMMA RacedTyped ==
    ASSUME StoreTypes, NEW U \in SUBSET User, RaceOthers(U)
    PROVE  raced' \subseteq User /\ raced \subseteq raced'
  BY DEF StoreTypes, RaceOthers

\* A step of j that leaves calendars, tokens and links alone.
LEMMA BaseByJob ==
    ASSUME Base, NEW j \in Job, UNCHANGED <<event, token, link>>, StoreTypes',
           JobTypes', OthersKept(j), Fits(j)'
    PROVE  Base'
<1>1. \A u \in User : link'[u] = link[u]
  OBVIOUS
<1>2. Store' /\ EventsMove
  BY <1>1, StoreStays
<1>. QED
  BY <1>2, JobMoves

\* Nothing of what is stored changes but who races, what is left, what is missed.
LEMMA StoreTypesKept ==
    ASSUME StoreTypes, UNCHANGED <<task, conn, token, link, event, late>>,
           raced' \subseteq User, left' \subseteq Event, missed' \in BOOLEAN
    PROVE  StoreTypes'
  BY DEF StoreTypes

\* A handler that starts keeps Base.
LEMMA StartTaskBase ==
    ASSUME Base, NEW j \in Job, NEW o \in Ops, StartTask(j, o)
    PROVE  Base'
<1>. DEFINE step == IF o[1] = "sync" THEN "find" ELSE "write"
            c == [Idle EXCEPT !.op = o[1], !.due = o[2], !.open = o[3], !.assignee = o[4],
                     !.old = task, !.new = IF o[1] = "sync" THEN task ELSE NoTask]
<1>1. /\ Takes(j, step, c) /\ RaceOthers(User)
      /\ UNCHANGED <<task, conn, token, link, event, late, left, missed>>
      /\ IF o[1] = "create" THEN task = NoTask ELSE LiveTask
      /\ o[1] \notin {"pull", "disconnect"}
  BY DEF StartTask, Takes, Goto, store
<1>2. task \in Row \cup {NoTask} /\ (LiveTask => task \in Row) /\ o[1] \in Handlers
  BY <1>1, BaseParts, OpsTyped DEF StoreTypes, LiveTask
<1>3. step \in Steps /\ c \in JobRec
  <2>1. /\ o[2] \in Due \cup {NoDue, Same} /\ o[3] \in BOOLEAN \cup {Same}
        /\ o[4] \in User \cup {Same}
    BY OpsTyped
  <2>2. (IF o[1] = "sync" THEN task ELSE NoTask) \in Row \cup {NoTask}
    BY <1>2
  <2>3. c \in JobRec
    BY <1>2, <2>1, <2>2 DEF Idle, JobRec
  <2>. QED
    BY <2>3 DEF Steps
<1>4. JobTypes' /\ OthersKept(j) /\ pc'[j] = step /\ job'[j] = c
  <2>. HIDE DEF step, c
  <2>. QED
    BY <1>1, <1>3, BaseParts, TakesTyped
<1>5. Fits(j)'
  <2>1. /\ c.op = o[1] /\ c.due = o[2] /\ c.open = o[3] /\ c.assignee = o[4] /\ c.old = task
        /\ c.new = (IF o[1] = "sync" THEN task ELSE NoTask) /\ c.todo = {}
    BY DEF Idle
  <2>2. o[1] # "sync" => o[1] \in Writes
    BY <1>2 DEF Handlers
  <2>3. <<c.op, c.due, c.open, c.assignee>> \in Ops
    BY <2>1, OpsTyped
  <2>. HIDE DEF c
  <2>4. step \in {"find", "write"} /\ (step = "find" => o[1] = "sync") /\ (step = "write" => o[1] # "sync")
    OBVIOUS
  <2>. HIDE DEF step
  <2>5. pc'[j] \in StepsOf(job'[j].op)
    BY <1>2, <1>4, <2>1, <2>4 DEF StepsOf, Handlers, Writes
  <2>6. HandlerFits(j)'
    BY <1>1, <1>2, <1>4, <2>1, <2>2, <2>3, <2>4 DEF HandlerFits, Removes, Pushes
  <2>7. job'[j].op \in Handlers
    BY <1>2, <1>4, <2>1
  <2>. QED
    BY <2>5, <2>6, <2>7 DEF Fits, Handlers, Writes
<1>6. StoreTypes'
  BY <1>1, BaseParts, RacedTyped, StoreTypesKept DEF StoreTypes
<1>. QED
  BY <1>1, <1>4, <1>5, <1>6, BaseByJob

\* The write of the task keeps Base.
LEMMA WriteTaskBase ==
    ASSUME Base, NEW j \in Job, WriteTask(j)
    PROVE  Base'
<1>. DEFINE c == job[j]
<1>1. /\ pc[j] = "write" /\ UNCHANGED <<conn, token, link, event, late, raced, left>>
      /\ \/ /\ c.op = "create" /\ task = NoTask
            /\ task' = [due |-> c.due, open |-> c.open, assignee |-> c.assignee, deleted |-> FALSE]
            /\ Goto(j, "reread")
            /\ UNCHANGED <<job, missed>>
         \/ /\ c.op # "create" /\ LiveTask
            /\ task' = [due      |-> Given(c.due, task.due),
                        open     |-> Given(c.open, task.open),
                        assignee |-> Given(c.assignee, task.assignee),
                        deleted  |-> c.op = "delete"]
            /\ missed' = (missed \/ (c.op = "update" /\ task'.assignee # task.assignee))
            /\ Goto(j, IF c.op = "delete" THEN "links" ELSE "reread")
            /\ UNCHANGED job
         \/ End(j) /\ UNCHANGED <<task, missed>>
  BY DEF WriteTask
<1>2. JobTypes /\ StoreTypes /\ Fits(j) /\ c.op \in Handlers
  BY <1>1, BaseParts, StepsFit
<1>3. /\ <<c.op, c.due, c.open, c.assignee>> \in Ops /\ c.op \in Writes
      /\ (c.op # "create" => c.old \in Row)
      /\ \A x \in c.todo : x \in User \X Event /\ Has(x[1], x[2])
  BY <1>1, <1>2 DEF Fits, HandlerFits
<1>4. CASE End(j) /\ UNCHANGED <<task, missed>>
  <2>1. JobTypes' /\ OthersKept(j) /\ Fits(j)'
    BY <1>2, <1>4, Ends
  <2>2. StoreTypes'
    BY <1>1, <1>2, <1>4 DEF StoreTypes
  <2>. QED
    BY <1>1, <2>1, <2>2, BaseByJob
<1>5. ASSUME UNCHANGED job, NEW step \in {"reread", "links"}, Goto(j, step),
             step = "reread" <=> c.op # "delete", task' \in Row, missed' \in BOOLEAN
      PROVE  Base'
  <2>1. step \in Steps /\ c \in JobRec /\ Takes(j, step, c)
    BY <1>2, <1>5, JobFields DEF Steps, Takes, Goto, JobTypes
  <2>2. JobTypes' /\ OthersKept(j) /\ pc'[j] = step /\ job'[j] = c
    BY <1>2, <2>1, TakesTyped
  <2>3. HandlerFits(j)'
    <3>1. \A x \in c.todo : x[2] \in Used' /\ event'[x[2]].owner = x[1]
      BY <1>1, <1>3, Still DEF Has
    <3>. QED
      BY <1>3, <1>5, <2>2, <3>1 DEF HandlerFits, Has, Pushes, Removes, Writes
  <2>4. Fits(j)'
    BY <1>2, <1>5, <2>2, <2>3 DEF Fits, StepsOf, Removes, Handlers, Writes
  <2>5. StoreTypes'
    BY <1>1, <1>2, <1>5 DEF StoreTypes
  <2>. QED
    BY <1>1, <2>2, <2>4, <2>5, BaseByJob
<1>6. DEFINE o == <<c.op, c.due, c.open, c.assignee>>
<1>7. /\ c.due \in Due \cup {NoDue, Same} /\ c.open \in BOOLEAN \cup {Same} /\ c.assignee \in User \cup {Same}
      /\ c.op = "create" => c.due \in Due \cup {NoDue} /\ c.open \in BOOLEAN /\ c.assignee \in User
  <2>1. o \in Ops /\ o[1] = c.op /\ o[2] = c.due /\ o[3] = c.open /\ o[4] = c.assignee
    BY <1>3
  <2>. HIDE DEF o
  <2>. QED
    BY <2>1, OpsTyped
<1>8. missed \in BOOLEAN
  BY <1>2 DEF StoreTypes
<1>9. CASE /\ c.op = "create" /\ task = NoTask
           /\ task' = [due |-> c.due, open |-> c.open, assignee |-> c.assignee, deleted |-> FALSE]
           /\ Goto(j, "reread") /\ UNCHANGED <<job, missed>>
  <2>1. task' \in Row
    BY <1>7, <1>9 DEF Row
  <2>2. "reread" = "reread" <=> c.op # "delete"
    BY <1>9
  <2>3. missed' \in BOOLEAN
    BY <1>8, <1>9
  <2>. QED
    BY <1>5, <1>9, <2>1, <2>2, <2>3
<1>10. CASE /\ c.op # "create" /\ LiveTask
            /\ task' = [due      |-> Given(c.due, task.due),
                        open     |-> Given(c.open, task.open),
                        assignee |-> Given(c.assignee, task.assignee),
                        deleted  |-> c.op = "delete"]
            /\ missed' = (missed \/ (c.op = "update" /\ task'.assignee # task.assignee))
            /\ Goto(j, IF c.op = "delete" THEN "links" ELSE "reread")
            /\ UNCHANGED job
  <2>1. task \in Row
    BY <1>2, <1>10 DEF LiveTask, StoreTypes
  <2>2. task.due \in Due \cup {NoDue} /\ task.open \in BOOLEAN /\ task.assignee \in User
    BY <2>1 DEF Row
  <2>3. /\ Given(c.due, task.due) \in Due \cup {NoDue} /\ Given(c.open, task.open) \in BOOLEAN
        /\ Given(c.assignee, task.assignee) \in User
    BY <1>7, <2>2 DEF Given
  <2>4. task' \in Row
    BY <1>10, <2>3 DEF Row
  <2>5. missed' \in BOOLEAN
    BY <1>8, <1>10
  <2>6. CASE c.op = "delete"
    BY <1>5, <1>10, <2>4, <2>5, <2>6
  <2>7. CASE c.op # "delete"
    BY <1>5, <1>10, <2>4, <2>5, <2>7
  <2>. QED
    BY <2>6, <2>7
<1>. QED
  BY <1>1, <1>4, <1>9, <1>10

\* The choice of the hook keeps Base.
LEMMA RereadBase ==
    ASSUME Base, NEW j \in Job, Reread(j)
    PROVE  Base'
<1>. DEFINE c == job[j]
<1>1. /\ pc[j] = "reread" /\ UNCHANGED <<task, conn, token, link, event, late, raced, left>>
      /\ missed' \in BOOLEAN
      /\ End(j) \/ /\ LiveTask /\ Hook(c, task) # "ended"
                   /\ Goto(j, Hook(c, task))
                   /\ job' = [job EXCEPT ![j] = [Idle EXCEPT !.op = c.op, !.new = task]]
  BY BaseParts DEF Reread, store, StoreTypes
<1>2. JobTypes /\ StoreTypes /\ Fits(j) /\ c.op \in Handlers
  BY <1>1, BaseParts, StepsFit
<1>3. c.op \in Writes /\ c.op # "delete"
  BY <1>1, <1>2 DEF Fits, HandlerFits
<1>4. StoreTypes'
  BY <1>1, <1>2 DEF StoreTypes
<1>5. CASE End(j)
  BY <1>1, <1>2, <1>4, <1>5, Ends, BaseByJob
<1>6. CASE /\ LiveTask /\ Hook(c, task) # "ended" /\ Goto(j, Hook(c, task))
           /\ job' = [job EXCEPT ![j] = [Idle EXCEPT !.op = c.op, !.new = task]]
  <2>. DEFINE step == Hook(c, task)
              d == [Idle EXCEPT !.op = c.op, !.new = task]
  <2>1. step \in {"find", "links"}
    BY <1>3, <1>6 DEF Hook, Writes
  <2>2. task \in Row
    BY <1>2, <1>6 DEF LiveTask, StoreTypes
  <2>3. d \in JobRec /\ d.op = c.op /\ d.new = task /\ d.todo = {}
    BY <1>2, <2>2 DEF Idle, JobRec
  <2>4. Takes(j, step, d) /\ step \in Steps
    BY <1>6, <2>1 DEF Takes, Goto, Steps
  <2>. HIDE DEF step, d
  <2>5. JobTypes' /\ OthersKept(j) /\ pc'[j] = step /\ job'[j] = d
    BY <1>2, <2>3, <2>4, TakesTyped
  <2>6. HandlerFits(j)'
    BY <2>1, <2>2, <2>3, <2>5 DEF HandlerFits, Pushes, Removes
  <2>7. Fits(j)'
    BY <1>2, <2>1, <2>3, <2>5, <2>6 DEF Fits, StepsOf, Removes, Handlers, Writes
  <2>. QED
    BY <1>1, <1>4, <2>5, <2>7, BaseByJob
<1>. QED
  BY <1>1, <1>5, <1>6

----------------------------------------------------------------------------
(* Base is kept: a push *)

\* What a push that has found its connection works with.
LEMMA PushFits ==
    ASSUME Base, NEW j \in Job, pc[j] \in Pushes
    PROVE  /\ job[j].op \in Handlers /\ HandlerFits(j)
           /\ job[j].new \in Row /\ Eligible(job[j].new) /\ job[j].user = job[j].new.assignee
           /\ job[j].user \in User /\ job[j].new.due \in Due
           /\ \A x \in job[j].todo : x \in User \X Event /\ Has(x[1], x[2])
           /\ pc[j] # "upsert" =>
                 job[j].link \in Link /\ (job[j].link.event = NoEvent \/ Has(job[j].user, job[j].link.event))
<1>1. JobTypes /\ Fits(j)
  BY BaseParts
<1>2. job[j].op \in Handlers /\ HandlerFits(j)
  BY <1>1, StepsFit DEF Fits, Pushes
<1>3. job[j].new \in Row /\ Eligible(job[j].new) /\ job[j].user = job[j].new.assignee
  BY <1>2 DEF HandlerFits
<1>4. job[j].user \in User /\ job[j].new.due \in Due
  BY <1>3 DEF Row, Eligible
<1>. QED
  BY <1>2, <1>3, <1>4 DEF HandlerFits

\* The step of a push to another step of its push.
LEMMA PushGoes ==
    ASSUME Base, NEW j \in Job, pc[j] \in Pushes \cup {"find"}, EventsMove, EventTypes',
           NEW step \in Pushes, NEW c \in JobRec, Takes(j, step, c),
           c.op = job[j].op, c.todo = job[j].todo,
           c.new = job[j].new, c.user = c.new.assignee, c.new \in Row, Eligible(c.new),
           step # "upsert" =>
               c.link \in Link /\ (c.link.event = NoEvent \/ (c.link.event \in Used' /\ event'[c.link.event].owner = c.user)),
           step = "save" =>
              /\ c.link.event \in Used' /\ event'[c.link.event].owner = c.user
              /\ c.upto <= event'[c.link.event].rev
              /\ c.upto = event'[c.link.event].rev => event'[c.link.event].due = c.new.due
    PROVE  JobTypes' /\ OthersKept(j) /\ Fits(j)'
<1>1. step \in Steps
  BY DEF Steps, Pushes
<1>2. JobTypes' /\ OthersKept(j) /\ pc'[j] = step /\ job'[j] = c
  BY <1>1, BaseParts, TakesTyped
<1>3. job[j].op \in Handlers /\ HandlerFits(j) /\ StoreTypes
  BY BaseParts, StepsFit DEF Fits, Pushes
<1>4. \A x \in c.todo : x[2] \in Used' /\ event'[x[2]].owner = x[1] /\ x \in User \X Event
  <2>. SUFFICES ASSUME NEW x \in job[j].todo
                PROVE  x[2] \in Used' /\ event'[x[2]].owner = x[1] /\ x \in User \X Event
    OBVIOUS
  <2>1. x \in User \X Event /\ x[2] \in Events(x[1]) /\ x[1] \in User
    BY <1>3 DEF HandlerFits, Has, Events
  <2>. QED
    BY <1>3, <2>1, EventKept
<1>5. HandlerFits(j)'
  BY <1>2, <1>4 DEF HandlerFits, Has, Pushes, Removes
<1>6. Fits(j)'
  BY <1>2, <1>3, <1>5 DEF Fits, StepsOf, Handlers, Writes
<1>. QED
  BY <1>2, <1>6

\* Looking for the connection of the assignee keeps Base.
LEMMA FindConnectionBase ==
    ASSUME Base, NEW j \in Job, FindConnection(j)
    PROVE  Base'
<1>. DEFINE t == job[j].new
            c == [job[j] EXCEPT !.user = t.assignee]
<1>1. /\ pc[j] = "find" /\ UNCHANGED <<task, conn, token, link, event, late, raced, left>>
      /\ \/ Eligible(t) /\ conn[t.assignee] = "ACTIVE" /\ Takes(j, "upsert", c) /\ UNCHANGED missed
         \/ missed' = (missed \/ Eligible(t)) /\ End(j)
  BY DEF FindConnection, store, Takes, Goto
<1>2. JobTypes /\ StoreTypes /\ Fits(j) /\ job[j].op \in Handlers
  BY <1>1, BaseParts, StepsFit
<1>3. t \in Row
  BY <1>1, <1>2 DEF Fits, HandlerFits
<1>4. missed' \in BOOLEAN
  BY <1>1, <1>2 DEF StoreTypes
<1>5. StoreTypes'
  BY <1>1, <1>2, <1>4 DEF StoreTypes
<1>6. CASE End(j)
  BY <1>1, <1>2, <1>5, <1>6, Ends, BaseByJob
<1>7. CASE Eligible(t) /\ Takes(j, "upsert", c)
  <2>1. t.assignee \in User
    BY <1>3 DEF Row
  <2>2. job[j] \in JobRec
    BY <1>2, JobFields
  <2>3. c \in JobRec /\ c.op = job[j].op /\ c.todo = job[j].todo /\ c.new = t /\ c.user = t.assignee
    BY <2>1, <2>2 DEF JobRec
  <2>. HIDE DEF c
  <2>4. EventsMove /\ EventTypes'
    BY <1>1, Still
  <2>5. JobTypes' /\ OthersKept(j) /\ Fits(j)'
    BY <1>1, <1>3, <1>7, <2>3, <2>4, PushGoes DEF Pushes
  <2>. QED
    BY <1>1, <1>5, <2>5, BaseByJob
<1>. QED
  BY <1>1, <1>6, <1>7

\* The link row that is found or made keeps Base.
LEMMA UpsertLinkBase ==
    ASSUME Base, NEW j \in Job, UpsertLink(j)
    PROVE  Base'
<1>. DEFINE u == job[j].user
            new == [id |-> j, event |-> NoEvent, status |-> "PENDING", seen |-> 0]
            l == IF link[u] # NoLink THEN link[u] ELSE new
            c == [job[j] EXCEPT !.link = l]
<1>1. /\ pc[j] = "upsert" /\ UNCHANGED <<task, conn, token, event, late, raced, left, missed>>
      /\ link' = IF link[u] # NoLink THEN link ELSE [link EXCEPT ![u] = new]
      /\ job' = [job EXCEPT ![j].link = link'[u]] /\ Goto(j, "push")
  BY DEF UpsertLink, ghosts
<1>2. JobTypes /\ StoreTypes /\ Fits(j) /\ InPast
  BY BaseParts
<1>3. u \in User /\ job[j].new \in Row /\ Eligible(job[j].new) /\ u = job[j].new.assignee
  BY <1>1, PushFits DEF Pushes
<1>4. new \in Link
  BY DEF Link
<1>5. l \in Link /\ (l.event = NoEvent \/ Has(u, l.event)) /\ l.seen <= Latest(u)
  <2>1. CASE link[u] # NoLink
    BY <1>2, <1>3, <2>1 DEF StoreTypes, InPast, Has, Events
  <2>2. CASE link[u] = NoLink
    <3>1. l = new /\ new.event = NoEvent /\ new.seen = 0
      BY <2>2
    <3>2. Latest(u) \in Nat
      BY <1>2, <1>3, BaseParts, LatestIs
    <3>. QED
      BY <1>4, <3>1, <3>2
  <2>. QED
    BY <2>1, <2>2
<1>. HIDE DEF new
<1>6. link' \in [User -> Link \cup {NoLink}] /\ link'[u] = l /\ \A v \in User : v # u => link'[v] = link[v]
  BY <1>1, <1>2, <1>3, <1>4 DEF StoreTypes
<1>7. Takes(j, "push", c)
  BY <1>1, <1>6 DEF Takes, Goto
<1>. HIDE DEF l
<1>8. c \in JobRec /\ c.op = job[j].op /\ c.todo = job[j].todo /\ c.new = job[j].new /\ c.user = u /\ c.link = l
  <2>1. job[j] \in JobRec
    BY <1>2, JobFields
  <2>. QED
    BY <1>5, <2>1 DEF JobRec
<1>. HIDE DEF c
<1>9. EventsMove /\ EventTypes' /\ Used' = Used
  BY <1>1, Still
<1>10. JobTypes' /\ OthersKept(j) /\ Fits(j)'
  <2>1. l.event = NoEvent \/ (l.event \in Used' /\ event'[l.event].owner = u)
    BY <1>1, <1>5, <1>9 DEF Has
  <2>. QED
    BY <1>1, <1>3, <1>5, <1>7, <1>8, <1>9, <2>1, PushGoes DEF Pushes
<1>11. StoreTypes'
  BY <1>1, <1>2, <1>6 DEF StoreTypes
<1>12. \A v \in User : \/ link'[v] = link[v]
                       \/ link'[v] # NoLink =>
                             /\ link'[v].seen <= Latest(v)
                             /\ link'[v].event = NoEvent \/ link'[v].event \in Events(v)
  BY <1>5, <1>6 DEF Has, Events
<1>13. Store' /\ EventsMove
  BY <1>1, <1>11, <1>12, StoreStays
<1>. QED
  BY <1>10, <1>13, JobMoves

\* The request that is given up on, and the connection that may be rejected.
LEMMA RejectedTyped ==
    ASSUME StoreTypes, NEW u \in User, Rejected(u) \/ UNCHANGED conn
    PROVE  conn' \in [User -> {"NONE", "ACTIVE", "REAUTH_REQUIRED", "DISCONNECTED"}]
  BY DEF StoreTypes, Rejected

\* What is given up on is a request.
LEMMA LateTyped ==
    ASSUME StoreTypes, NEW u \in User, NEW e \in Event \cup {NoEvent}, NEW d \in Due \cup {NoDue},
           e = NoEvent => d \in Due, UNCHANGED late \/ GiveUp(<<u, e, d>>)
    PROVE  /\ late' \subseteq User \X (Event \cup {NoEvent}) \X (Due \cup {NoDue})
           /\ \A r \in late' : r[2] = NoEvent => r[3] \in Due
<1>1. \A r \in late' : r \in late \/ r = <<u, e, d>>
  BY DEF GiveUp
<1>2. \A r \in late : r \in User \X (Event \cup {NoEvent}) \X (Due \cup {NoDue})
                      /\ (r[2] = NoEvent => r[3] \in Due)
  BY DEF StoreTypes
<1>3. <<u, e, d>> \in User \X (Event \cup {NoEvent}) \X (Due \cup {NoDue})
  OBVIOUS
<1>4. \A r \in late' : r \in User \X (Event \cup {NoEvent}) \X (Due \cup {NoDue})
  BY <1>1, <1>2, <1>3
<1>5. \A r \in late' : r[2] = NoEvent => r[3] \in Due
  BY <1>1, <1>2
<1>. QED
  BY <1>4, <1>5

\* A step of j that changes the calendars, and links and tokens not at all.
LEMMA BaseByPush ==
    ASSUME Base, NEW j \in Job, UNCHANGED <<token, link>>, EventsMove, Topped', StoreTypes',
           JobTypes', OthersKept(j), Fits(j)'
    PROVE  Base'
<1>1. \A u \in User : token'[u] = token[u] /\ link'[u] = link[u]
  OBVIOUS
<1>2. Store'
  BY <1>1, StoreMoves, BaseParts
<1>. QED
  BY <1>2, JobMoves

\* An event that is created for the task keeps Base.
LEMMA PushNewBase ==
    ASSUME Base, NEW j \in Job, PushNew(j)
    PROVE  Base' /\ EventsMove
<1>. DEFINE u == job[j].user
            d == job[j].new.due
            c(e) == [job[j] EXCEPT !.link.event = e, !.upto = event'[e].rev]
<1>1. /\ pc[j] = "push" /\ UNCHANGED <<task, token, link, raced, missed>>
      /\ UNCHANGED late \/ GiveUp(<<u, NoEvent, d>>)
  BY DEF PushNew
<1>2. PICK E \in SUBSET (Event \ Used) :
        /\ event' = [e \in Event |-> IF e \in E THEN Created(u, d) ELSE event[e]]
        /\ \/ \E e \in E : /\ left' = left \cup (E \ {e})
                           /\ job' = [job EXCEPT ![j].link.event = e, ![j].upto = event'[e].rev]
                           /\ Goto(j, "save") /\ UNCHANGED conn
           \/ left' = left \cup E /\ Rejected(u) /\ Goto(j, "failed") /\ UNCHANGED job
  BY DEF PushNew
<1>3. /\ u \in User /\ d \in Due /\ job[j].new \in Row /\ Eligible(job[j].new)
      /\ u = job[j].new.assignee /\ job[j].link \in Link
      /\ (job[j].link.event = NoEvent \/ Has(u, job[j].link.event))
  BY <1>1, PushFits DEF Pushes
<1>4. JobTypes /\ StoreTypes /\ job[j] \in JobRec
  BY BaseParts, JobFields
<1>5. CreatesFor(u, E, d)
  BY <1>2, <1>3 DEF CreatesFor
<1>6. /\ EventsMove /\ Topped' /\ EventTypes' /\ Used' = Used \cup E
      /\ \A e \in E : /\ event'[e].owner = u /\ event'[e].due = d
                      /\ event'[e].rev = Latest(u) + 1 /\ e \in Used'
  BY <1>3, <1>5, BaseParts, Creates
<1>7. conn' \in [User -> {"NONE", "ACTIVE", "REAUTH_REQUIRED", "DISCONNECTED"}]
  BY <1>2, <1>3, <1>4, RejectedTyped
<1>8. /\ late' \subseteq User \X (Event \cup {NoEvent}) \X (Due \cup {NoDue})
      /\ \A r \in late' : r[2] = NoEvent => r[3] \in Due
  BY <1>1, <1>3, <1>4, LateTyped
<1>9. left' \subseteq Event
  BY <1>2, <1>4 DEF StoreTypes
<1>10. StoreTypes'
  BY <1>1, <1>4, <1>6, <1>7, <1>8, <1>9 DEF StoreTypes, EventTypes
<1>11. JobTypes' /\ OthersKept(j) /\ Fits(j)'
  <2>1. CASE Goto(j, "failed") /\ UNCHANGED job
    <3>1. Takes(j, "failed", job[j])
      BY <1>4, <2>1 DEF Takes, Goto, JobTypes
    <3>2. job[j].link.event = NoEvent
            \/ (job[j].link.event \in Used' /\ event'[job[j].link.event].owner = u)
      BY <1>3, <1>6 DEF Has, EventsMove
    <3>. QED
      BY <1>1, <1>3, <1>4, <1>6, <3>1, <3>2, PushGoes DEF Pushes
  <2>2. ASSUME NEW e \in E, job' = [job EXCEPT ![j].link.event = e, ![j].upto = event'[e].rev],
               Goto(j, "save")
        PROVE  JobTypes' /\ OthersKept(j) /\ Fits(j)'
    <3>1. Takes(j, "save", c(e))
      BY <1>4, <2>2 DEF Takes, Goto, JobTypes
    <3>2. event'[e].rev \in Nat /\ e \in Used' /\ event'[e].owner = u /\ event'[e].due = d
      <4>1. e \in Used' /\ event'[e] \in Remote
        BY <1>6, <2>2 DEF EventTypes, Used
      <4>. QED
        BY <1>6, <2>2, <4>1 DEF Remote
    <3>3. [job[j].link EXCEPT !.event = e] \in Link
      BY <1>2, <1>3, <2>2 DEF Link
    <3>4. /\ c(e) \in JobRec /\ c(e).op = job[j].op /\ c(e).todo = job[j].todo /\ c(e).new = job[j].new
          /\ c(e).user = u /\ c(e).link = [job[j].link EXCEPT !.event = e] /\ c(e).upto = event'[e].rev
      BY <1>4, <3>2, <3>3 DEF JobRec
    <3>5. c(e).link.event = e
      <4>1. job[j].link \in [id : Job, event : Event \cup {NoEvent}, status : {"PENDING", "FAILED", "SYNCED"}, seen : Nat]
        BY <1>3 DEF Link
      <4>. QED
        BY <3>4, <4>1
    <3>. HIDE DEF c
    <3>6. event'[e].rev <= event'[e].rev
      BY <3>2
    <3>. QED
      BY <1>1, <1>3, <1>6, <3>1, <3>2, <3>3, <3>4, <3>5, <3>6, PushGoes DEF Pushes
  <2>. QED
    BY <1>2, <2>1, <2>2
<1>. QED
  BY <1>1, <1>6, <1>10, <1>11, BaseByPush

\* An event that is moved for the task keeps Base.
LEMMA PushKnownBase ==
    ASSUME Base, NEW j \in Job, PushKnown(j)
    PROVE  Base' /\ EventsMove
<1>. DEFINE u == job[j].user
            d == job[j].new.due
            e == job[j].link.event
            c == [job[j] EXCEPT !.upto = event'[e].rev]
<1>1. /\ pc[j] = "push" /\ e # NoEvent /\ UNCHANGED <<task, token, link, raced, left, missed>>
      /\ UNCHANGED late \/ GiveUp(<<u, e, d>>)
      /\ \/ /\ IsLive(e) /\ event' = [event EXCEPT ![e] = Moved(e, d)] /\ UNCHANGED conn
            /\ \/ job' = [job EXCEPT ![j].upto = event'[e].rev] /\ Goto(j, "save")
               \/ Goto(j, "failed") /\ UNCHANGED job
         \/ Goto(j, "failed") /\ Rejected(u) /\ UNCHANGED <<event, job>>
  BY DEF PushKnown, IsNew, ghosts
<1>2. /\ u \in User /\ d \in Due /\ job[j].new \in Row /\ Eligible(job[j].new)
      /\ u = job[j].new.assignee /\ job[j].link \in Link /\ Has(u, e)
  BY <1>1, PushFits DEF Pushes
<1>3. JobTypes /\ StoreTypes /\ Topped /\ job[j] \in JobRec
  BY BaseParts, JobFields
<1>4. e \in Events(u) /\ e \in Event
  BY <1>2 DEF Has, Events, Used
<1>5. /\ EventsMove /\ Topped' /\ EventTypes' /\ e \in Used' /\ event'[e].owner = u
      /\ event' = event \/ (event'[e] = Moved(e, d) /\ event'[e].due = d)
  <2>1. CASE UNCHANGED event
    BY <1>2, <2>1, Still DEF Has
  <2>2. CASE IsLive(e) /\ event' = [event EXCEPT ![e] = Moved(e, d)]
    <3>1. MovesEvent(u, e)
      BY <1>2, <1>4, <2>2 DEF MovesEvent
    <3>2. EventsMove /\ Topped' /\ EventTypes' /\ e \in Used' /\ event'[e].owner = u
      BY <1>2, <1>3, <3>1, Moves
    <3>3. event'[e] = Moved(e, d)
      BY <1>3, <1>4, <2>2 DEF StoreTypes
    <3>4. Moved(e, d).due = d
      BY <1>2, <1>3, <1>4, Records
    <3>. QED
      BY <3>2, <3>3, <3>4
  <2>. QED
    BY <1>1, <2>1, <2>2
<1>6. conn' \in [User -> {"NONE", "ACTIVE", "REAUTH_REQUIRED", "DISCONNECTED"}]
  BY <1>1, <1>2, <1>3, RejectedTyped
<1>7. /\ late' \subseteq User \X (Event \cup {NoEvent}) \X (Due \cup {NoDue})
      /\ \A r \in late' : r[2] = NoEvent => r[3] \in Due
  <2>. HIDE DEF e
  <2>. QED
    BY <1>1, <1>2, <1>3, <1>4, LateTyped
<1>8. StoreTypes'
  BY <1>1, <1>3, <1>5, <1>6, <1>7 DEF StoreTypes, EventTypes
<1>9. JobTypes' /\ OthersKept(j) /\ Fits(j)'
  <2>1. CASE Goto(j, "failed") /\ UNCHANGED job
    <3>1. Takes(j, "failed", job[j])
      BY <1>3, <2>1 DEF Takes, Goto, JobTypes
    <3>. QED
      BY <1>1, <1>2, <1>3, <1>5, <3>1, PushGoes DEF Pushes
  <2>2. CASE /\ IsLive(e) /\ event' = [event EXCEPT ![e] = Moved(e, d)]
             /\ job' = [job EXCEPT ![j].upto = event'[e].rev] /\ Goto(j, "save")
    <3>1. Takes(j, "save", c)
      BY <1>3, <2>2 DEF Takes, Goto, JobTypes
    <3>2. event'[e] \in Remote /\ event'[e].rev \in Nat
      BY <1>5 DEF EventTypes, Used, Remote
    <3>3. event'[e].due = d
      <4>1. event'[e] = Moved(e, d)
        BY <1>3, <1>4, <2>2 DEF StoreTypes
      <4>. QED
        BY <1>2, <1>3, <1>4, <4>1, Records
    <3>4. /\ c \in JobRec /\ c.op = job[j].op /\ c.todo = job[j].todo /\ c.new = job[j].new
          /\ c.user = u /\ c.link = job[j].link /\ c.upto = event'[e].rev
      BY <1>3, <3>2 DEF JobRec
    <3>. HIDE DEF c
    <3>5. event'[e].rev <= event'[e].rev
      BY <3>2
    <3>. QED
      BY <1>1, <1>2, <1>5, <3>1, <3>3, <3>4, <3>5, PushGoes DEF Pushes
  <2>. QED
    BY <1>1, <2>1, <2>2
<1>. QED
  BY <1>1, <1>5, <1>8, <1>9, BaseByPush

----------------------------------------------------------------------------
(* Base is kept: the link of a push, and a removal *)

\* A step of j that sets one link.
LEMMA BaseByLink ==
    ASSUME Base, NEW j \in Job, NEW u \in User, NEW l \in Link \cup {NoLink},
           link' = [link EXCEPT ![u] = l],
           l # NoLink => l.seen <= Latest(u) /\ (l.event = NoEvent \/ Has(u, l.event)),
           UNCHANGED <<task, conn, token, event, late, raced, missed>>, left' \subseteq Event,
           JobTypes', OthersKept(j), Fits(j)'
    PROVE  Base'
<1>1. link' \in [User -> Link \cup {NoLink}] /\ link'[u] = l /\ \A v \in User : v # u => link'[v] = link[v]
  BY BaseParts DEF StoreTypes
<1>2. StoreTypes'
  BY <1>1, BaseParts DEF StoreTypes
<1>3. \A v \in User : \/ link'[v] = link[v]
                      \/ link'[v] # NoLink =>
                            /\ link'[v].seen <= Latest(v)
                            /\ link'[v].event = NoEvent \/ link'[v].event \in Events(v)
  BY <1>1 DEF Has, Events
<1>4. Store' /\ EventsMove
  BY <1>2, <1>3, StoreStays
<1>. QED
  BY <1>4, JobMoves

\* A link that is there, and what it links to.
LEMMA LinksThere ==
    ASSUME Base, NEW u \in User, link[u] # NoLink
    PROVE  /\ link[u] \in Link /\ link[u].id \in Job /\ link[u].event \in Event \cup {NoEvent}
           /\ link[u].seen \in Nat /\ link[u].seen <= Latest(u) /\ Latest(u) \in Nat
           /\ link[u].event # NoEvent => link[u].event \in Event /\ Has(u, link[u].event)
           /\ link[u].status = "SYNCED" => link[u].event \in Event
<1>1. link[u] \in Link /\ link[u].seen <= Latest(u)
      /\ (link[u].event = NoEvent \/ link[u].event \in Events(u))
  BY BaseParts DEF StoreTypes, InPast
<1>2. Latest(u) \in Nat
  BY BaseParts, LatestIs
<1>. QED
  BY <1>1, <1>2, LinkFields DEF Has, Events

\* What a push holds that has an answer.
LEMMA SaveFits ==
    ASSUME Base, NEW j \in Job, pc[j] = "save"
    PROVE  LET c == job[j] IN
           /\ c.user \in User /\ c.link \in Link /\ c.link.event \in Event /\ Has(c.user, c.link.event)
           /\ c.link.event # NoEvent
           /\ c.upto \in Nat /\ event[c.link.event].rev \in Nat
           /\ c.upto <= event[c.link.event].rev /\ event[c.link.event].rev <= Latest(c.user)
           /\ c.upto <= Latest(c.user)
           /\ c.upto = event[c.link.event].rev => event[c.link.event].due = c.new.due
<1>. DEFINE e == job[j].link.event
            u == job[j].user
<1>1. u \in User /\ job[j].link \in Link /\ HandlerFits(j)
  BY PushFits DEF Pushes
<1>2. /\ Has(u, e) /\ job[j].upto <= event[e].rev
      /\ job[j].upto = event[e].rev => event[e].due = job[j].new.due
  BY <1>1 DEF HandlerFits
<1>3. e \in Event /\ e \in Events(u) /\ event[e].rev \in Nat
  <2>1. e \in Used
    BY <1>2 DEF Has
  <2>2. event[e].rev \in Nat /\ e \in Event
    BY <2>1, UsedRecords, BaseParts
  <2>. QED
    BY <1>2, <2>1, <2>2 DEF Has, Events
<1>4. event[e].rev <= Latest(u) /\ Latest(u) \in Nat
  BY <1>1, <1>3, BaseParts, LatestIs
<1>5. job[j].upto \in Nat
  BY BaseParts, JobFields
<1>6. e # NoEvent
  BY <1>3, NoneIsOther
<1>7. job[j].upto <= Latest(u)
  BY <1>2, <1>3, <1>4, <1>5
<1>. QED
  BY <1>1, <1>2, <1>3, <1>4, <1>5, <1>6, <1>7

\* The link that is saved.
LEMMA SavedTyped ==
    ASSUME Base, NEW j \in Job, pc[j] = "save"
    PROVE  /\ Saved(job[j]) \in Link /\ Saved(job[j]).seen = job[j].upto
           /\ Saved(job[j]).event = job[j].link.event /\ Saved(job[j]).id = job[j].link.id
           /\ Saved(job[j]).status = "SYNCED"
<1>. DEFINE l == job[j].link
<1>1. l \in Link /\ l.event # NoEvent /\ job[j].upto \in Nat
  BY SaveFits
<1>2. l \in [id : Job, event : Event \cup {NoEvent}, status : {"PENDING", "FAILED", "SYNCED"}, seen : Nat]
  BY <1>1 DEF Link
<1>3. Saved(job[j]) = [l EXCEPT !.status = "SYNCED", !.seen = job[j].upto]
  BY DEF Saved
<1>. HIDE DEF l
<1>4. Saved(job[j]) \in Link
  BY <1>1, <1>3, LinkForms
<1>. QED
  BY <1>2, <1>3, <1>4 DEF l

\* The link that is written after a push keeps Base.
LEMMA SaveLinkBase ==
    ASSUME Base, NEW j \in Job, SaveLink(j)
    PROVE  Base'
<1>. DEFINE u == job[j].user
            e == job[j].link.event
<1>1. /\ pc[j] = "save" /\ UNCHANGED <<task, conn, token, event, late, raced, missed>>
      /\ \/ IsThere(job[j].link, u) /\ link' = [link EXCEPT ![u] = Saved(job[j])] /\ End(j) /\ UNCHANGED left
         \/ /\ left' = IF link[u] # NoLink /\ link[u].event = e THEN left ELSE left \cup {e}
            /\ Goto(j, "failed") /\ UNCHANGED <<link, job>>
  BY DEF SaveLink
<1>2. JobTypes /\ StoreTypes /\ job[j] \in JobRec
  BY BaseParts, JobFields
<1>3. /\ u \in User /\ job[j].link \in Link /\ e \in Event /\ Has(u, e)
      /\ job[j].upto <= Latest(u)
  BY <1>1, SaveFits
<1>4. left' \subseteq Event
  BY <1>1, <1>2, <1>3 DEF StoreTypes
<1>5. CASE /\ link' = [link EXCEPT ![u] = Saved(job[j])] /\ End(j)
  <2>1. JobTypes' /\ OthersKept(j) /\ Fits(j)'
    BY <1>2, <1>5, Ends
  <2>2. /\ Saved(job[j]) \in Link /\ Saved(job[j]).seen <= Latest(u)
        /\ Has(u, Saved(job[j]).event)
    BY <1>1, <1>3, SavedTyped
  <2>. QED
    BY <1>1, <1>3, <1>4, <1>5, <2>1, <2>2, BaseByLink
<1>6. CASE Goto(j, "failed") /\ UNCHANGED <<link, job>>
  <2>1. Takes(j, "failed", job[j])
    BY <1>2, <1>6 DEF Takes, Goto, JobTypes
  <2>2. EventsMove /\ EventTypes' /\ Used' = Used
    BY <1>1, Still
  <2>3. /\ job[j].new \in Row /\ Eligible(job[j].new) /\ u = job[j].new.assignee
    BY <1>1, PushFits DEF Pushes
  <2>4. e \in Used' /\ event'[e].owner = u
    BY <1>1, <1>3, <2>2 DEF Has
  <2>5. JobTypes' /\ OthersKept(j) /\ Fits(j)'
    BY <1>1, <1>2, <1>3, <2>1, <2>2, <2>3, <2>4, PushGoes DEF Pushes
  <2>6. StoreTypes'
    BY <1>1, <1>2, <1>4, <1>6 DEF StoreTypes
  <2>. QED
    BY <1>1, <1>6, <2>5, <2>6, BaseByJob
<1>. QED
  BY <1>1, <1>5, <1>6

\* The link that is marked as failed keeps Base.
LEMMA RecordPushFailureBase ==
    ASSUME Base, NEW j \in Job, RecordPushFailure(j)
    PROVE  Base'
<1>. DEFINE u == job[j].user
<1>1. /\ pc[j] = "failed" /\ UNCHANGED <<task, conn, token, event, late, raced, left, missed>>
      /\ End(j)
      /\ link' = IF IsThere(job[j].link, u) THEN [link EXCEPT ![u].status = "FAILED"] ELSE link
  BY DEF RecordPushFailure, ghosts
<1>2. JobTypes /\ StoreTypes
  BY BaseParts
<1>3. u \in User
  BY <1>1, PushFits DEF Pushes
<1>4. JobTypes' /\ OthersKept(j) /\ Fits(j)'
  BY <1>1, <1>2, Ends
<1>5. CASE IsThere(job[j].link, u)
  <2>. DEFINE l == [link[u] EXCEPT !.status = "FAILED"]
  <2>1. /\ link[u] \in Link /\ link[u].seen \in Nat /\ link[u].seen <= Latest(u)
        /\ (link[u].event # NoEvent => Has(u, link[u].event))
    BY <1>3, <1>5, LinksThere DEF IsThere
  <2>2. l \in Link
    BY <2>1, LinkForms
  <2>3. l.seen = link[u].seen /\ l.event = link[u].event
    BY <2>1 DEF Link
  <2>4. link' = [link EXCEPT ![u] = l]
    BY <1>1, <1>5
  <2>. HIDE DEF l
  <2>5. left' \subseteq Event
    BY <1>1, <1>2 DEF StoreTypes
  <2>. QED
    BY <1>1, <1>3, <1>4, <2>1, <2>2, <2>3, <2>4, <2>5, BaseByLink
<1>6. CASE ~IsThere(job[j].link, u)
  <2>1. StoreTypes'
    BY <1>1, <1>2, <1>6 DEF StoreTypes
  <2>. QED
    BY <1>1, <1>4, <1>6, <2>1, BaseByJob
<1>. QED
  BY <1>5, <1>6

\* What a removal works with.
LEMMA RemoveFits ==
    ASSUME Base, NEW j \in Job, pc[j] \in Removes
    PROVE  /\ job[j].op \in Handlers
           /\ \A x \in job[j].todo : x \in User \X Event /\ x[1] \in User /\ x[2] \in Events(x[1])
           /\ job[j].op = "assign" => job[j].new \in Row
<1>1. JobTypes /\ Fits(j)
  BY BaseParts
<1>2. job[j].op \in Handlers /\ HandlerFits(j)
  BY <1>1, StepsFit DEF Fits, Removes
<1>3. \A x \in job[j].todo : x \in User \X Event /\ Has(x[1], x[2])
  BY <1>2 DEF HandlerFits
<1>. QED
  BY <1>2, <1>3 DEF HandlerFits, Has, Events

\* A removal has deletions to do.
LEMMA RemoveGoes ==
    ASSUME Base, NEW j \in Job, pc[j] \in Removes, NEW T, Takes(j, "unlink", [job[j] EXCEPT !.todo = T]),
           \A x \in T : x \in User \X Event /\ x[2] \in Used' /\ event'[x[2]].owner = x[1]
    PROVE  JobTypes' /\ OthersKept(j) /\ Fits(j)'
<1>. DEFINE c == [job[j] EXCEPT !.todo = T]
<1>1. job[j] \in JobRec /\ JobTypes
  BY BaseParts, JobFields
<1>2. T \in SUBSET Pair
  BY DEF Pair
<1>3. c \in JobRec /\ c.op = job[j].op /\ c.new = job[j].new /\ c.todo = T
  BY <1>1, <1>2 DEF JobRec
<1>. HIDE DEF c
<1>4. "unlink" \in Steps
  BY DEF Steps
<1>5. JobTypes' /\ OthersKept(j) /\ pc'[j] = "unlink" /\ job'[j] = c
  BY <1>1, <1>3, <1>4, TakesTyped DEF c
<1>6. job[j].op \in Handlers /\ (job[j].op = "assign" => job[j].new \in Row)
  BY RemoveFits
<1>7. HandlerFits(j)'
  BY <1>3, <1>5, <1>6 DEF HandlerFits, Has, Pushes, Removes
<1>8. Fits(j)'
  BY <1>3, <1>5, <1>6, <1>7 DEF Fits, StepsOf, Removes, Handlers, Writes
<1>. QED
  BY <1>5, <1>8

\* What follows a removal.
LEMMA AfterRemovalFits ==
    ASSUME Base, NEW j \in Job, pc[j] \in Removes, AfterRemoval(j)
    PROVE  JobTypes' /\ OthersKept(j) /\ Fits(j)'
<1>1. job[j] \in JobRec /\ JobTypes
  BY BaseParts, JobFields
<1>2. CASE End(j)
  BY <1>1, <1>2, Ends
<1>3. CASE job[j].op = "assign" /\ Goto(j, "find") /\ job' = [job EXCEPT ![j].todo = {}]
  <2>. DEFINE c == [job[j] EXCEPT !.todo = {}]
  <2>1. c \in JobRec /\ c.op = "assign" /\ c.new = job[j].new /\ c.todo = {}
    BY <1>1, <1>3 DEF JobRec
  <2>2. Takes(j, "find", c) /\ "find" \in Steps
    BY <1>3 DEF Takes, Goto, Steps
  <2>. HIDE DEF c
  <2>3. JobTypes' /\ OthersKept(j) /\ pc'[j] = "find" /\ job'[j] = c
    BY <1>1, <2>1, <2>2, TakesTyped
  <2>4. job[j].new \in Row
    BY <1>3, RemoveFits
  <2>5. HandlerFits(j)'
    BY <2>1, <2>3, <2>4 DEF HandlerFits, Pushes, Removes
  <2>6. Fits(j)'
    BY <2>1, <2>3, <2>5 DEF Fits, StepsOf, Handlers, Writes
  <2>. QED
    BY <2>3, <2>6
<1>. QED
  BY <1>2, <1>3 DEF AfterRemoval

\* Looking for the links of the task keeps Base.
LEMMA FindLinksBase ==
    ASSUME Base, NEW j \in Job, FindLinks(j)
    PROVE  Base'
<1>. DEFINE known == {u \in Linked : link[u].event # NoEvent}
            T == {<<u, link[u].event>> : u \in {v \in known : conn[v] # "DISCONNECTED"}}
<1>1. /\ pc[j] = "links" /\ UNCHANGED <<task, conn, token, link, event, late, raced, missed>>
      /\ \/ AfterRemoval(j) /\ UNCHANGED left
         \/ /\ job' = [job EXCEPT ![j].todo = T] /\ Goto(j, "unlink")
            /\ left' = left \cup {link[u].event : u \in {v \in known : conn[v] = "DISCONNECTED"}}
  BY DEF FindLinks, store
<1>2. \A u \in known : u \in User /\ link[u].event \in Event /\ Has(u, link[u].event)
  BY LinksThere DEF Linked
<1>3. left' \subseteq Event
  BY <1>1, <1>2, BaseParts DEF StoreTypes
<1>4. StoreTypes'
  BY <1>1, <1>3, BaseParts DEF StoreTypes
<1>5. JobTypes' /\ OthersKept(j) /\ Fits(j)'
  <2>1. CASE AfterRemoval(j)
    BY <1>1, <2>1, AfterRemovalFits DEF Removes
  <2>2. CASE job' = [job EXCEPT ![j].todo = T] /\ Goto(j, "unlink")
    <3>1. \A x \in T : x \in User \X Event /\ x[2] \in Used' /\ event'[x[2]].owner = x[1]
      BY <1>1, <1>2, Still DEF Has
    <3>2. Takes(j, "unlink", [job[j] EXCEPT !.todo = T])
      BY <2>2 DEF Takes, Goto
    <3>. HIDE DEF T
    <3>. QED
      BY <1>1, <3>1, <3>2, RemoveGoes DEF Removes
  <2>. QED
    BY <1>1, <2>1, <2>2
<1>. QED
  BY <1>1, <1>4, <1>5, BaseByJob

\* The deletion of a remote event keeps Base.
LEMMA DeleteEventBase ==
    ASSUME Base, NEW j \in Job, DeleteEvent(j)
    PROVE  Base' /\ EventsMove
<1>1. /\ pc[j] = "unlink" /\ UNCHANGED <<task, token, link, pc, raced, missed>>
  BY DEF DeleteEvent
<1>2. PICK l \in job[j].todo :
        /\ job' = [job EXCEPT ![j].todo = @ \ {l}]
        /\ \/ IsLive(l[2]) /\ event' = [event EXCEPT ![l[2]] = Cancelled(l[2])] /\ UNCHANGED <<conn, late, left>>
           \/ /\ left' = left \cup {l[2]} /\ Rejected(l[1])
              /\ (UNCHANGED late \/ GiveUp(<<l[1], l[2], NoDue>>)) /\ UNCHANGED event
  BY DEF DeleteEvent
<1>. DEFINE u == l[1]
            e == l[2]
<1>3. u \in User /\ e \in Events(u) /\ e \in Event
  BY <1>1, RemoveFits DEF Removes, Events, Used
<1>4. JobTypes /\ StoreTypes /\ Topped
  BY BaseParts
<1>5. EventsMove /\ Topped' /\ EventTypes'
  <2>1. CASE UNCHANGED event
    BY <2>1, Still
  <2>2. CASE IsLive(e) /\ event' = [event EXCEPT ![e] = Cancelled(e)]
    <3>1. MovesEvent(u, e)
      BY <1>3, <2>2 DEF MovesEvent
    <3>. QED
      BY <1>3, <1>4, <3>1, Moves
  <2>. QED
    BY <1>2, <2>1, <2>2
<1>6. conn' \in [User -> {"NONE", "ACTIVE", "REAUTH_REQUIRED", "DISCONNECTED"}]
  BY <1>2, <1>3, <1>4, RejectedTyped
<1>7. /\ late' \subseteq User \X (Event \cup {NoEvent}) \X (Due \cup {NoDue})
      /\ \A r \in late' : r[2] = NoEvent => r[3] \in Due
  <2>1. e # NoEvent
    BY <1>3, NoneIsOther
  <2>. HIDE DEF e, u
  <2>2. UNCHANGED late \/ GiveUp(<<u, e, NoDue>>)
    BY <1>2 DEF e, u
  <2>. QED
    BY <1>3, <1>4, <2>1, <2>2, LateTyped
<1>8. left' \subseteq Event
  BY <1>2, <1>3, <1>4 DEF StoreTypes
<1>9. StoreTypes'
  BY <1>1, <1>4, <1>5, <1>6, <1>7, <1>8 DEF StoreTypes, EventTypes
<1>10. JobTypes' /\ OthersKept(j) /\ Fits(j)'
  <2>. DEFINE T == job[j].todo \ {l}
  <2>1. \A x \in T : x \in User \X Event /\ x[2] \in Used' /\ event'[x[2]].owner = x[1]
    BY <1>1, <1>4, <1>5, RemoveFits, EventKept DEF Removes
  <2>2. Takes(j, "unlink", [job[j] EXCEPT !.todo = T])
    BY <1>1, <1>2, <1>4 DEF Takes, Goto, JobTypes
  <2>. HIDE DEF T
  <2>. QED
    BY <1>1, <2>1, <2>2, RemoveGoes DEF Removes
<1>. QED
  BY <1>1, <1>5, <1>9, <1>10, BaseByPush

\* The deletion of the links keeps Base.
LEMMA DropLinksBase ==
    ASSUME Base, NEW j \in Job, DropLinks(j)
    PROVE  Base'
<1>1. /\ pc[j] = "unlink" /\ UNCHANGED <<task, conn, token, event, late, raced, left, missed>>
      /\ link' = [u \in User |-> NoLink] /\ AfterRemoval(j)
  BY DEF DropLinks, ghosts
<1>2. JobTypes' /\ OthersKept(j) /\ Fits(j)'
  BY <1>1, AfterRemovalFits DEF Removes
<1>3. StoreTypes'
  BY <1>1, BaseParts DEF StoreTypes
<1>4. \A u \in User : link'[u] = NoLink
  BY <1>1
<1>5. Store' /\ EventsMove
  BY <1>1, <1>3, <1>4, StoreStays
<1>. QED
  BY <1>2, <1>5, JobMoves

----------------------------------------------------------------------------
(* Base is kept: a pull *)

\* The steps of a pull.
Pulls == {"list", "apply", "drop"} \cup Applies

\* What a pull works with.
LEMMA PullHolds ==
    ASSUME Base, NEW j \in Job, pc[j] \in Pulls
    PROVE  LET c == job[j] IN
           /\ c.op = "pull" /\ c.user \in User /\ c.upto \in Nat /\ c.upto <= Latest(c.user)
           /\ c.upto <= Last[c.user] /\ Last[c.user] = Latest(c.user) /\ Latest(c.user) \in Nat
           /\ \A x \in c.todo : x \in Event \X Remote /\ ReadAs(c.user, x[1], x[2])
           /\ pc[j] \in Applies =>
                 /\ c.link \in Link /\ ReadAs(c.user, c.link.event, c.new)
                 /\ c.new.live /\ Newer(c.new, c.link)
           /\ pc[j] = "drop" => c.link \in Link
<1>1. JobTypes /\ Fits(j)
  BY BaseParts
<1>2. job[j].op = "pull" /\ PullFits(j)
  BY <1>1, StepsFit DEF Fits, Pulls
<1>3. job[j].user \in User /\ job[j].upto \in Nat
  BY <1>1, <1>2, JobFields DEF PullFits
<1>4. Last[job[j].user] = Latest(job[j].user)
  BY <1>3 DEF Last
<1>5. Latest(job[j].user) \in Nat
  BY <1>3, BaseParts, LatestIs
<1>. QED
  BY <1>2, <1>3, <1>4, <1>5 DEF PullFits

\* A pull goes on.
LEMMA PullGoes ==
    ASSUME Base, NEW j \in Job, UNCHANGED event, NEW step \in Pulls, NEW c \in JobRec, Takes(j, step, c),
           c.op = "pull", c.user \in User, c.upto <= Last[c.user],
           \A x \in c.todo : x \in Event \X Remote /\ ReadAs(c.user, x[1], x[2]),
           step \in Applies => /\ c.link \in Link /\ ReadAs(c.user, c.link.event, c.new)
                               /\ c.new.live /\ Newer(c.new, c.link),
           step = "drop" => c.link \in Link
    PROVE  JobTypes' /\ OthersKept(j) /\ Fits(j)'
<1>1. step \in Steps
  BY DEF Steps, Pulls, Applies
<1>2. JobTypes' /\ OthersKept(j) /\ pc'[j] = step /\ job'[j] = c
  BY <1>1, BaseParts, TakesTyped
<1>3. Used' = Used /\ event' = event /\ Last' = Last
  BY Still
<1>4. PullFits(j)'
  BY <1>2, <1>3 DEF PullFits, ReadAs, Has, Newer
<1>5. Fits(j)'
  BY <1>2, <1>4 DEF Fits, StepsOf, Handlers, Writes, Pulls, Applies
<1>. QED
  BY <1>2, <1>5

\* A pull that starts keeps Base.
LEMMA StartPullBase ==
    ASSUME Base, NEW j \in Job, NEW u \in User, StartPull(j, u)
    PROVE  Base'
<1>. DEFINE c == [Idle EXCEPT !.op = "pull", !.user = u, !.upto = token[u]]
<1>1. /\ Takes(j, "list", c) /\ RaceOthers({u})
      /\ UNCHANGED <<task, conn, token, link, event, late, left, missed>>
  BY DEF StartPull, Takes, Goto, store
<1>2. token[u] \in Nat /\ token[u] <= Latest(u) /\ Last[u] = Latest(u)
  BY BaseParts DEF StoreTypes, InPast, Last
<1>3. c \in JobRec /\ c.op = "pull" /\ c.user = u /\ c.upto = token[u] /\ c.todo = {}
  BY <1>2 DEF Idle, JobRec
<1>. HIDE DEF c
<1>4. JobTypes' /\ OthersKept(j) /\ Fits(j)'
  BY <1>1, <1>2, <1>3, PullGoes DEF Pulls, Applies
<1>5. StoreTypes'
  BY <1>1, BaseParts, RacedTyped, StoreTypesKept DEF StoreTypes
<1>. QED
  BY <1>1, <1>4, <1>5, BaseByJob

\* A step of j that sets one token.
LEMMA BaseByToken ==
    ASSUME Base, NEW j \in Job, NEW u \in User, NEW n \in Nat, n <= Latest(u),
           token' = [token EXCEPT ![u] = n],
           UNCHANGED <<task, conn, link, event, late, raced, left, missed>>,
           JobTypes', OthersKept(j), Fits(j)'
    PROVE  Base'
<1>1. token' \in [User -> Nat] /\ token'[u] = n /\ \A v \in User : v # u => token'[v] = token[v]
  BY BaseParts DEF StoreTypes
<1>2. StoreTypes'
  BY <1>1, BaseParts DEF StoreTypes
<1>3. /\ EventsMove /\ Topped' /\ \A v \in User : Latest(v)' = Latest(v)
  BY Still
<1>4. \A v \in User : token'[v] = token[v] \/ token'[v] <= Latest(v)'
  BY <1>1, <1>3
<1>5. \A v \in User : link'[v] = link[v]
  OBVIOUS
<1>6. Store'
  BY <1>2, <1>3, <1>4, <1>5, StoreMoves, BaseParts
<1>. QED
  BY <1>3, <1>6, JobMoves

\* The list of what changed keeps Base.
LEMMA ListChangesBase ==
    ASSUME Base, NEW j \in Job, ListChanges(j)
    PROVE  Base'
<1>. DEFINE u == job[j].user
            T == {<<e, event[e]>> : e \in Changes(u, job[j].upto)}
            c == [job[j] EXCEPT !.todo = T, !.upto = Latest(u)]
            d == [job[j] EXCEPT !.upto = 0]
<1>1. /\ pc[j] = "list" /\ UNCHANGED <<task, link, event, late, raced, left, missed>>
      /\ \/ job' = [job EXCEPT ![j].todo = T, ![j].upto = Latest(u)] /\ Goto(j, "apply") /\ UNCHANGED <<conn, token>>
         \/ /\ token' = [token EXCEPT ![u] = 0] /\ job' = [job EXCEPT ![j].upto = 0]
            /\ UNCHANGED <<pc, conn>>
         \/ Rejected(u) /\ End(j) /\ UNCHANGED token
  BY DEF ListChanges, ghosts
<1>2. /\ job[j].op = "pull" /\ u \in User /\ Last[u] = Latest(u) /\ Latest(u) \in Nat
      /\ \A x \in job[j].todo : x \in Event \X Remote /\ ReadAs(u, x[1], x[2])
  BY <1>1, PullHolds DEF Pulls
<1>3. JobTypes /\ StoreTypes /\ job[j] \in JobRec
  BY BaseParts, JobFields
<1>4. CASE /\ job' = [job EXCEPT ![j].todo = T, ![j].upto = Latest(u)] /\ Goto(j, "apply") /\ UNCHANGED <<conn, token>>
  <2>1. \A x \in T : x \in Event \X Remote /\ ReadAs(u, x[1], x[2])
    <3>. SUFFICES ASSUME NEW e \in Changes(u, job[j].upto)
                  PROVE  <<e, event[e]>> \in Event \X Remote /\ ReadAs(u, e, event[e])
      OBVIOUS
    <3>1. e \in Used /\ event[e].owner = u
      BY DEF Changes, Events
    <3>2. e \in Event /\ event[e] \in Remote /\ event[e].rev \in Nat
      BY <1>3, <3>1, UsedRecords
    <3>3. event[e].rev <= event[e].rev
      BY <3>2
    <3>. QED
      BY <3>1, <3>2, <3>3 DEF ReadAs, Has
  <2>2. T \in SUBSET Pair
    BY <2>1 DEF Pair
  <2>. HIDE DEF T
  <2>3. c \in JobRec /\ c.op = "pull" /\ c.user = u /\ c.upto = Latest(u) /\ c.todo = T
    BY <1>2, <1>3, <2>2 DEF JobRec
  <2>4. Takes(j, "apply", c)
    BY <1>3, <1>4 DEF Takes, Goto, JobTypes
  <2>. HIDE DEF c
  <2>5. c.upto <= Last[c.user]
    BY <1>2, <2>3
  <2>6. JobTypes' /\ OthersKept(j) /\ Fits(j)'
    BY <1>1, <1>2, <2>1, <2>3, <2>4, <2>5, PullGoes DEF Pulls, Applies
  <2>7. StoreTypes'
    BY <1>1, <1>3, <1>4 DEF StoreTypes
  <2>. QED
    BY <1>1, <1>4, <2>6, <2>7, BaseByJob
<1>5. CASE /\ token' = [token EXCEPT ![u] = 0] /\ job' = [job EXCEPT ![j].upto = 0] /\ UNCHANGED <<pc, conn>>
  <2>1. d \in JobRec /\ d.op = "pull" /\ d.user = u /\ d.upto = 0 /\ d.todo = job[j].todo
    BY <1>2, <1>3 DEF JobRec
  <2>2. Takes(j, "list", d)
    BY <1>1, <1>3, <1>5 DEF Takes, Goto, JobTypes
  <2>. HIDE DEF d
  <2>3. 0 <= Latest(u) /\ d.upto <= Last[d.user]
    BY <1>2, <2>1
  <2>4. JobTypes' /\ OthersKept(j) /\ Fits(j)'
    BY <1>1, <1>2, <2>1, <2>2, <2>3, PullGoes DEF Pulls, Applies
  <2>. QED
    BY <1>1, <1>2, <1>5, <2>3, <2>4, BaseByToken
<1>6. CASE Rejected(u) /\ End(j) /\ UNCHANGED token
  <2>1. JobTypes' /\ OthersKept(j) /\ Fits(j)'
    BY <1>3, <1>6, Ends
  <2>2. conn' \in [User -> {"NONE", "ACTIVE", "REAUTH_REQUIRED", "DISCONNECTED"}]
    BY <1>2, <1>3, <1>6, RejectedTyped
  <2>3. StoreTypes'
    BY <1>1, <1>3, <1>6, <2>2 DEF StoreTypes
  <2>. QED
    BY <1>1, <1>6, <2>1, <2>3, BaseByJob
<1>. QED
  BY <1>1, <1>4, <1>5, <1>6

\* Looking a change up by its event keeps Base.
LEMMA LookUpChangeBase ==
    ASSUME Base, NEW j \in Job, LookUpChange(j)
    PROVE  Base'
<1>. DEFINE u == job[j].user
<1>1. pc[j] = "apply" /\ UNCHANGED <<task, conn, token, link, event, late, raced, left, missed>>
  BY DEF LookUpChange, store, ghosts
<1>2. PICK x \in job[j].todo :
        \/ job' = [job EXCEPT ![j] = [job[j] EXCEPT !.todo = @ \ {x}]] /\ UNCHANGED pc
        \/ /\ link[u] # NoLink /\ link[u].event = x[1] /\ (x[2].live => Newer(x[2], link[u]))
           /\ job' = [job EXCEPT ![j] = [job[j] EXCEPT !.todo = @ \ {x}, !.link = link[u], !.new = x[2]]]
           /\ Goto(j, IF x[2].live THEN "task" ELSE "drop")
  BY DEF LookUpChange
<1>. DEFINE T == job[j].todo \ {x}
            c == [job[j] EXCEPT !.todo = T]
            d == [job[j] EXCEPT !.todo = T, !.link = link[u], !.new = x[2]]
<1>3. /\ job[j].op = "pull" /\ u \in User /\ job[j].upto <= Last[u]
      /\ \A y \in job[j].todo : y \in Event \X Remote /\ ReadAs(u, y[1], y[2])
  BY <1>1, PullHolds DEF Pulls
<1>4. JobTypes /\ StoreTypes /\ job[j] \in JobRec
  BY BaseParts, JobFields
<1>5. T \in SUBSET Pair /\ \A y \in T : y \in Event \X Remote /\ ReadAs(u, y[1], y[2])
  BY <1>3 DEF Pair
<1>6. StoreTypes'
  BY <1>1, <1>4 DEF StoreTypes
<1>. HIDE DEF T
<1>7. CASE job' = [job EXCEPT ![j] = [job[j] EXCEPT !.todo = @ \ {x}]] /\ UNCHANGED pc
  <2>1. c \in JobRec /\ c.op = "pull" /\ c.user = u /\ c.upto = job[j].upto /\ c.todo = T
    BY <1>3, <1>4, <1>5 DEF JobRec
  <2>2. Takes(j, "apply", c)
    BY <1>1, <1>4, <1>7 DEF Takes, Goto, JobTypes, T
  <2>. HIDE DEF c
  <2>3. JobTypes' /\ OthersKept(j) /\ Fits(j)'
    BY <1>1, <1>3, <1>5, <2>1, <2>2, PullGoes DEF Pulls, Applies
  <2>. QED
    BY <1>1, <1>6, <2>3, BaseByJob
<1>8. CASE /\ link[u] # NoLink /\ link[u].event = x[1] /\ (x[2].live => Newer(x[2], link[u]))
           /\ job' = [job EXCEPT ![j] = [job[j] EXCEPT !.todo = @ \ {x}, !.link = link[u], !.new = x[2]]]
           /\ Goto(j, IF x[2].live THEN "task" ELSE "drop")
  <2>. DEFINE step == IF x[2].live THEN "task" ELSE "drop"
  <2>1. link[u] \in Link /\ x[2] \in Remote /\ ReadAs(u, link[u].event, x[2])
    BY <1>3, <1>8, LinksThere
  <2>2. /\ d \in JobRec /\ d.op = "pull" /\ d.user = u /\ d.upto = job[j].upto /\ d.todo = T
        /\ d.link = link[u] /\ d.new = x[2]
    BY <1>3, <1>4, <1>5, <2>1 DEF JobRec
  <2>3. Takes(j, step, d)
    BY <1>1, <1>4, <1>8 DEF Takes, Goto, JobTypes, T
  <2>. HIDE DEF d
  <2>4. step \in Pulls /\ (step \in Applies => x[2].live)
    BY DEF Pulls, Applies
  <2>. HIDE DEF step
  <2>5. JobTypes' /\ OthersKept(j) /\ Fits(j)'
    BY <1>1, <1>3, <1>5, <1>8, <2>1, <2>2, <2>3, <2>4, PullGoes
  <2>. QED
    BY <1>1, <1>6, <2>5, BaseByJob
<1>. QED
  BY <1>2, <1>7, <1>8

\* A pull that takes its locals to another step.
LEMMA PullOn ==
    ASSUME Base, NEW j \in Job, pc[j] \in Pulls, UNCHANGED <<event, job>>, NEW step \in Pulls, Goto(j, step),
           step \in Applies => pc[j] \in Applies, step = "drop" => pc[j] \in Applies
    PROVE  JobTypes' /\ OthersKept(j) /\ Fits(j)'
<1>. DEFINE c == job[j]
<1>1. c \in JobRec /\ JobTypes
  BY BaseParts, JobFields
<1>2. Takes(j, step, c)
  BY <1>1 DEF Takes, Goto, JobTypes
<1>3. /\ c.op = "pull" /\ c.user \in User /\ c.upto <= Last[c.user]
      /\ \A x \in c.todo : x \in Event \X Remote /\ ReadAs(c.user, x[1], x[2])
      /\ pc[j] \in Applies =>
            /\ c.link \in Link /\ ReadAs(c.user, c.link.event, c.new)
            /\ c.new.live /\ Newer(c.new, c.link)
  BY PullHolds
<1>. HIDE DEF c
<1>. QED
  BY <1>1, <1>2, <1>3, PullGoes

\* The deletion of one link keeps Base.
LEMMA DropLinkBase ==
    ASSUME Base, NEW j \in Job, DropLink(j)
    PROVE  Base'
<1>. DEFINE u == job[j].user
<1>1. /\ pc[j] = "drop" /\ UNCHANGED <<task, conn, token, event, late, raced, missed>>
      /\ \/ /\ IsThere(job[j].link, u) /\ link' = [link EXCEPT ![u] = NoLink]
            /\ left' = left \cup ({link[u].event} \ {NoEvent})
            /\ Goto(j, "apply") /\ UNCHANGED job
         \/ End(j) /\ UNCHANGED <<link, left>>
  BY DEF DropLink
<1>2. u \in User /\ JobTypes /\ StoreTypes
  BY <1>1, PullHolds, BaseParts DEF Pulls
<1>3. CASE /\ IsThere(job[j].link, u) /\ link' = [link EXCEPT ![u] = NoLink]
           /\ left' = left \cup ({link[u].event} \ {NoEvent}) /\ Goto(j, "apply") /\ UNCHANGED job
  <2>1. JobTypes' /\ OthersKept(j) /\ Fits(j)'
    BY <1>1, <1>3, PullOn DEF Pulls, Applies
  <2>2. left' \subseteq Event
    BY <1>2, <1>3, LinksThere DEF IsThere, StoreTypes
  <2>. QED
    BY <1>1, <1>2, <1>3, <2>1, <2>2, BaseByLink
<1>4. CASE End(j) /\ UNCHANGED <<link, left>>
  <2>1. JobTypes' /\ OthersKept(j) /\ Fits(j)'
    BY <1>2, <1>4, Ends
  <2>2. StoreTypes'
    BY <1>1, <1>2, <1>4 DEF StoreTypes
  <2>. QED
    BY <1>1, <1>4, <2>1, <2>2, BaseByJob
<1>. QED
  BY <1>1, <1>3, <1>4

\* Reading the task of a change keeps Base.
LEMMA ReadTaskBase ==
    ASSUME Base, NEW j \in Job, ReadTask(j)
    PROVE  Base'
<1>1. /\ pc[j] = "task" /\ UNCHANGED <<task, conn, token, link, event, late, job, raced, left, missed>>
      /\ Goto(j, IF ~LiveTask THEN "drop" ELSE IF task.due # job[j].new.due THEN "move" ELSE "seen")
  BY DEF ReadTask, store, ghosts
<1>2. PICK step \in {"drop", "move", "seen"} : Goto(j, step)
  BY <1>1
<1>3. JobTypes' /\ OthersKept(j) /\ Fits(j)'
  BY <1>1, <1>2, PullOn DEF Pulls, Applies
<1>4. StoreTypes'
  BY <1>1, BaseParts DEF StoreTypes
<1>. QED
  BY <1>1, <1>3, <1>4, BaseByJob

\* The task that follows its event keeps Base.
LEMMA MoveTaskBase ==
    ASSUME Base, NEW j \in Job, MoveTask(j)
    PROVE  Base'
<1>1. /\ pc[j] = "move" /\ UNCHANGED <<conn, token, link, event, late, job, raced, left, missed>>
      /\ Goto(j, "seen") /\ task' = IF LiveTask THEN [task EXCEPT !.due = job[j].new.due] ELSE task
  BY DEF MoveTask, ghosts
<1>2. job[j].new \in Remote /\ job[j].new.due \in Due
  <2>1. job[j].new \in Remote
    BY <1>1, PullHolds DEF Pulls, Applies, ReadAs
  <2>. QED
    BY <2>1 DEF Remote
<1>3. task' \in Row \cup {NoTask}
  <2>1. CASE LiveTask
    <3>1. task \in Row
      BY <2>1, BaseParts DEF LiveTask, StoreTypes
    <3>. QED
      BY <1>1, <1>2, <2>1, <3>1 DEF Row
  <2>2. CASE ~LiveTask
    BY <1>1, <2>2, BaseParts DEF StoreTypes
  <2>. QED
    BY <2>1, <2>2
<1>4. JobTypes' /\ OthersKept(j) /\ Fits(j)'
  BY <1>1, PullOn DEF Pulls, Applies
<1>5. StoreTypes'
  BY <1>1, <1>3, BaseParts DEF StoreTypes
<1>. QED
  BY <1>1, <1>4, <1>5, BaseByJob

\* The mark that the change was seen keeps Base.
LEMMA MarkSeenBase ==
    ASSUME Base, NEW j \in Job, MarkSeen(j)
    PROVE  Base'
<1>. DEFINE u == job[j].user
            n == job[j].new.rev
            l == [link[u] EXCEPT !.seen = n]
<1>1. /\ pc[j] = "seen" /\ UNCHANGED <<task, conn, token, event, late, raced, left, missed>>
      /\ \/ IsThere(job[j].link, u) /\ link' = [link EXCEPT ![u] = l] /\ Goto(j, "apply") /\ UNCHANGED job
         \/ End(j) /\ UNCHANGED link
  BY DEF MarkSeen, ghosts
<1>2. /\ u \in User /\ ReadAs(u, job[j].link.event, job[j].new) /\ Latest(u) \in Nat
      /\ JobTypes /\ StoreTypes
  BY <1>1, PullHolds, BaseParts DEF Pulls, Applies
<1>3. left' \subseteq Event
  BY <1>1, <1>2 DEF StoreTypes
<1>4. CASE IsThere(job[j].link, u) /\ link' = [link EXCEPT ![u] = l] /\ Goto(j, "apply") /\ UNCHANGED job
  <2>1. JobTypes' /\ OthersKept(j) /\ Fits(j)'
    BY <1>1, <1>4, PullOn DEF Pulls, Applies
  <2>2. n \in Nat /\ n <= Latest(u)
    <3>. DEFINE e == job[j].link.event
    <3>1. e \in Used /\ event[e].owner = u /\ n <= event[e].rev /\ job[j].new \in Remote
      BY <1>2 DEF ReadAs, Has
    <3>2. event[e].rev \in Nat /\ event[e].rev <= Latest(u)
      BY <1>2, <3>1, BaseParts, UsedRecords, LatestIs DEF Events
    <3>3. n \in Nat
      BY <3>1 DEF Remote
    <3>. HIDE DEF e, n
    <3>. QED
      BY <1>2, <3>1, <3>2, <3>3
  <2>3. link[u] \in Link /\ (link[u].event # NoEvent => Has(u, link[u].event))
    BY <1>2, <1>4, LinksThere DEF IsThere
  <2>4. l \in Link
    BY <2>2, <2>3, LinkForms
  <2>5. l.seen = n /\ l.event = link[u].event
    BY <2>3 DEF Link
  <2>. HIDE DEF l, n
  <2>. QED
    BY <1>1, <1>2, <1>3, <1>4, <2>1, <2>2, <2>3, <2>4, <2>5, BaseByLink
<1>5. CASE End(j) /\ UNCHANGED link
  <2>1. JobTypes' /\ OthersKept(j) /\ Fits(j)'
    BY <1>2, <1>5, Ends
  <2>2. StoreTypes'
    BY <1>1, <1>2, <1>5 DEF StoreTypes
  <2>. QED
    BY <1>1, <1>5, <2>1, <2>2, BaseByJob
<1>. QED
  BY <1>1, <1>4, <1>5

\* The token that is stored keeps Base.
LEMMA StoreTokenBase ==
    ASSUME Base, NEW j \in Job, StoreToken(j)
    PROVE  Base'
<1>1. /\ pc[j] = "apply" /\ UNCHANGED <<task, conn, link, event, late, raced, left, missed>>
      /\ token' = [token EXCEPT ![job[j].user] = job[j].upto] /\ End(j)
  BY DEF StoreToken, ghosts
<1>2. job[j].user \in User /\ job[j].upto \in Nat /\ job[j].upto <= Latest(job[j].user)
  BY <1>1, PullHolds DEF Pulls
<1>3. JobTypes' /\ OthersKept(j) /\ Fits(j)'
  BY <1>1, BaseParts, Ends
<1>. QED
  BY <1>1, <1>2, <1>3, BaseByToken

----------------------------------------------------------------------------
(* Base is kept: connections, the owner of the calendar, late requests *)

\* A connection keeps Base.
LEMMA ConnectBase ==
    ASSUME Base, NEW u \in User, Connect(u)
    PROVE  Base'
<1>1. /\ UNCHANGED <<task, link, event, late, pc, job, left, missed>>
      /\ conn' = [conn EXCEPT ![u] = "ACTIVE"] /\ token' = [token EXCEPT ![u] = 0]
      /\ RaceOthers({u})
  BY DEF Connect
<1>2. EventsMove /\ Topped' /\ \A v \in User : Latest(v)' = Latest(v) /\ Latest(v)' \in Nat
  BY <1>1, Still DEF EventsMove
<1>3. StoreTypes'
  BY <1>1, BaseParts, RacedTyped DEF StoreTypes
<1>4. /\ \A v \in User : token'[v] = token[v] \/ token'[v] <= Latest(v)'
      /\ \A v \in User : link'[v] = link[v]
  <2>1. \A v \in User : token'[v] = token[v] \/ token'[v] = 0
    BY <1>1, BaseParts DEF StoreTypes
  <2>. QED
    BY <1>1, <1>2, <2>1
<1>5. Store'
  BY <1>2, <1>3, <1>4, StoreMoves, BaseParts
<1>. QED
  BY <1>1, <1>2, <1>5, JobsStay

\* A disconnection keeps Base.
LEMMA StartDisconnectBase ==
    ASSUME Base, NEW j \in Job, NEW u \in User, StartDisconnect(j, u)
    PROVE  Base'
<1>. DEFINE c == [Idle EXCEPT !.op = "disconnect", !.user = u]
<1>1. /\ Takes(j, "forget", c) /\ RaceOthers({u}) /\ conn' = [conn EXCEPT ![u] = "DISCONNECTED"]
      /\ UNCHANGED <<task, token, link, event, late, left, missed>>
  BY DEF StartDisconnect, Takes, Goto
<1>2. c \in JobRec /\ c.op = "disconnect" /\ c.user = u
  BY DEF Idle, JobRec
<1>. HIDE DEF c
<1>3. JobTypes' /\ OthersKept(j) /\ pc'[j] = "forget" /\ job'[j] = c
  BY <1>1, <1>2, BaseParts, TakesTyped DEF Steps
<1>4. Fits(j)'
  BY <1>2, <1>3 DEF Fits, StepsOf, Handlers, Writes
<1>5. StoreTypes'
  BY <1>1, BaseParts, RacedTyped DEF StoreTypes
<1>. QED
  BY <1>1, <1>3, <1>4, <1>5, BaseByJob

\* What a disconnection works with.
LEMMA ForgetFits ==
    ASSUME Base, NEW j \in Job, pc[j] = "forget"
    PROVE  job[j].op = "disconnect" /\ job[j].user \in User
<1>1. JobTypes /\ Fits(j)
  BY BaseParts
<1>2. job[j].op = "disconnect"
  BY <1>1, StepsFit
<1>. QED
  BY <1>1, <1>2 DEF Fits

\* Forgetting the link of a connection keeps Base.
LEMMA ForgetLinksBase ==
    ASSUME Base, NEW j \in Job, ForgetLinks(j)
    PROVE  Base'
<1>. DEFINE u == job[j].user
<1>1. /\ pc[j] = "forget" /\ UNCHANGED <<task, conn, token, event, late, raced, missed>>
      /\ left' = IF link[u] = NoLink THEN left ELSE left \cup ({link[u].event} \ {NoEvent})
      /\ link' = [link EXCEPT ![u] = NoLink] /\ End(j)
  BY DEF ForgetLinks
<1>2. u \in User
  BY <1>1, ForgetFits
<1>3. JobTypes' /\ OthersKept(j) /\ Fits(j)'
  BY <1>1, BaseParts, Ends
<1>4. left' \subseteq Event
  BY <1>1, <1>2, LinksThere, BaseParts DEF StoreTypes
<1>. QED
  BY <1>1, <1>2, <1>3, <1>4, BaseByLink

\* A step of no job that changes the calendars.
LEMMA BaseByEvents ==
    ASSUME Base, UNCHANGED <<task, conn, token, link, pc, job, raced, missed>>, EventsMove, Topped', EventTypes',
           late' \subseteq late, left' \subseteq Event
    PROVE  Base'
<1>1. StoreTypes'
  BY BaseParts DEF StoreTypes, EventTypes
<1>2. \A u \in User : token'[u] = token[u] /\ link'[u] = link[u]
  OBVIOUS
<1>3. Store'
  BY <1>1, <1>2, StoreMoves, BaseParts
<1>. QED
  BY <1>3, JobsStay

\* A change by the owner of the calendar keeps Base.
LEMMA EditRemoteBase ==
    ASSUME Base, NEW e \in Event, EditRemote(e)
    PROVE  Base' /\ EventsMove
<1>1. /\ UNCHANGED <<task, conn, token, link, late, pc, job, raced, left, missed>> /\ IsLive(e)
      /\ \/ \E d \in Due : event' = [event EXCEPT ![e] = Moved(e, d)]
         \/ event' = [event EXCEPT ![e] = Cancelled(e)]
  BY DEF EditRemote, store, ghosts
<1>. DEFINE u == event[e].owner
<1>2. u \in User /\ e \in Events(u)
  BY <1>1, UsedRecords, BaseParts DEF IsLive
<1>3. MovesEvent(u, e)
  BY <1>1, <1>2 DEF MovesEvent
<1>. HIDE DEF u
<1>4. EventsMove /\ Topped' /\ EventTypes'
  BY <1>2, <1>3, Moves, BaseParts
<1>5. left' \subseteq Event
  BY <1>1, BaseParts DEF StoreTypes
<1>. QED
  BY <1>1, <1>4, <1>5, BaseByEvents

\* A request that is carried out late keeps Base.
LEMMA ArriveLateBase ==
    ASSUME Base, ArriveLate
    PROVE  Base' /\ EventsMove
<1>1. UNCHANGED <<task, conn, token, link, pc, job, raced, missed>>
  BY DEF ArriveLate, store
<1>2. PICK r \in late :
        /\ late' = late \ {r}
        /\ \/ r[2] = NoEvent /\ \E e \in Event \ Used :
                event' = [event EXCEPT ![e] = Created(r[1], r[3])] /\ left' = left \cup {e}
           \/ IsLive(r[2]) /\ r[3] # NoDue /\ event' = [event EXCEPT ![r[2]] = Moved(r[2], r[3])] /\ UNCHANGED left
           \/ IsLive(r[2]) /\ event' = [event EXCEPT ![r[2]] = Cancelled(r[2])] /\ UNCHANGED left
           \/ UNCHANGED <<event, left>>
  BY DEF ArriveLate
<1>3. r[1] \in User /\ r[3] \in Due \cup {NoDue} /\ (r[2] = NoEvent => r[3] \in Due)
  <2>1. r \in User \X (Event \cup {NoEvent}) \X (Due \cup {NoDue})
    BY BaseParts DEF StoreTypes
  <2>. QED
    BY <2>1, BaseParts DEF StoreTypes
<1>4. left' \subseteq Event
  BY <1>2, BaseParts DEF StoreTypes
<1>5. EventsMove /\ Topped' /\ EventTypes'
  <2>1. ASSUME r[2] = NoEvent, NEW e \in Event \ Used, event' = [event EXCEPT ![e] = Created(r[1], r[3])]
        PROVE  EventsMove /\ Topped' /\ EventTypes'
    <3>. DEFINE M == {e}
                u == r[1]
                d == r[3]
    <3>1. event' = [f \in Event |-> IF f \in M THEN Created(u, d) ELSE event[f]]
      BY <2>1, BaseParts DEF StoreTypes
    <3>2. u \in User /\ CreatesFor(u, M, d)
      BY <1>3, <2>1, <3>1 DEF CreatesFor
    <3>. HIDE DEF M, u, d
    <3>. QED
      BY <3>2, Creates, BaseParts
  <2>2. ASSUME IsLive(r[2]),
               (\E d \in Due : event' = [event EXCEPT ![r[2]] = Moved(r[2], d)])
                  \/ event' = [event EXCEPT ![r[2]] = Cancelled(r[2])]
        PROVE  EventsMove /\ Topped' /\ EventTypes'
    <3>. DEFINE e == r[2]
                u == event[e].owner
    <3>1. u \in User /\ e \in Events(u)
      BY <2>2, UsedRecords, BaseParts DEF IsLive
    <3>2. MovesEvent(u, e)
      BY <2>2, <3>1 DEF MovesEvent
    <3>. HIDE DEF u, e
    <3>. QED
      BY <3>1, <3>2, Moves, BaseParts
  <2>3. CASE UNCHANGED event
    BY <2>3, Still
  <2>. QED
    BY <1>2, <1>3, <2>1, <2>2, <2>3
<1>. QED
  BY <1>1, <1>2, <1>4, <1>5, BaseByEvents

\* A job that fails keeps Base.
LEMMA FailBase ==
    ASSUME Base, NEW j \in Job, Fail(j)
    PROVE  Base'
<1>1. /\ UNCHANGED <<task, conn, token, link, event, late, raced>> /\ End(j)
      /\ missed' = (missed \/ job[j].op \notin {"pull", "disconnect"})
      /\ left' = IF pc[j] = "save" THEN left \cup ({job[j].link.event} \ {link[u].event : u \in Linked}) ELSE left
  BY DEF Fail, store
<1>2. JobTypes' /\ OthersKept(j) /\ Fits(j)'
  BY <1>1, BaseParts, Ends
<1>3. left' \subseteq Event
  BY <1>1, SaveFits, BaseParts DEF StoreTypes
<1>4. missed' \in BOOLEAN
  BY <1>1, BaseParts DEF StoreTypes
<1>5. StoreTypes'
  BY <1>1, <1>3, <1>4, BaseParts DEF StoreTypes
<1>. QED
  BY <1>1, <1>2, <1>5, BaseByJob

\* A removal that fails keeps Base.
LEMMA FailRemovalBase ==
    ASSUME Base, NEW j \in Job, FailRemoval(j)
    PROVE  Base'
<1>1. /\ pc[j] \in Removes /\ UNCHANGED <<task, conn, token, link, event, late, raced, left>>
      /\ AfterRemoval(j) /\ missed' = TRUE
  BY DEF FailRemoval, Removes, store
<1>2. JobTypes' /\ OthersKept(j) /\ Fits(j)'
  BY <1>1, AfterRemovalFits
<1>3. StoreTypes'
  BY <1>1, BaseParts DEF StoreTypes
<1>. QED
  BY <1>1, <1>2, <1>3, BaseByJob

----------------------------------------------------------------------------
(* Base holds *)

\* The initial state is one.
LEMMA BaseInit == Init => Base
<1>. SUFFICES ASSUME Init PROVE Base
  OBVIOUS
<1>1. \A e \in Event : event[e] = NoEvent
  BY DEF Init
<1>2. Used = {} /\ \A u \in User : Events(u) = {}
  BY <1>1 DEF Used, Events
<1>3. \A u \in User : Latest(u) = 0
  BY <1>2 DEF Latest
<1>4. StoreTypes
  BY DEF Init, StoreTypes
<1>5. Topped
  BY <1>2 DEF Topped
<1>6. InPast
  BY <1>2, <1>3 DEF InPast, Init
<1>7. JobTypes
  BY IdleTyped DEF Init, JobTypes, Steps
<1>8. \A j \in Job : Fits(j)
  BY IdleTyped DEF Init, Fits, StepsOf, Handlers, Writes
<1>. QED
  BY <1>4, <1>5, <1>6, <1>7, <1>8 DEF Base, Store

\* Every step keeps it.
LEMMA BaseStep == Base /\ [Next]_vars => Base'
<1>. SUFFICES ASSUME Base, [Next]_vars PROVE Base'
  OBVIOUS
<1>1. ASSUME NEW j \in Job, NEW o \in Ops, StartTask(j, o) PROVE Base'
  BY <1>1, StartTaskBase
<1>2. ASSUME NEW j \in Job, NEW u \in User, StartPull(j, u) \/ StartDisconnect(j, u) PROVE Base'
  BY <1>2, StartPullBase, StartDisconnectBase
<1>3. ASSUME NEW j \in Job, Step(j) PROVE Base'
  BY <1>3, WriteTaskBase, RereadBase, FindConnectionBase, UpsertLinkBase, PushNewBase, PushKnownBase,
     SaveLinkBase, RecordPushFailureBase, FindLinksBase, DeleteEventBase, DropLinksBase,
     ListChangesBase, LookUpChangeBase, DropLinkBase, ReadTaskBase, MoveTaskBase, MarkSeenBase,
     StoreTokenBase, ForgetLinksBase DEF Step
<1>4. ASSUME NEW j \in Job, FailRemoval(j) \/ Fail(j) PROVE Base'
  BY <1>4, FailRemovalBase, FailBase
<1>5. ASSUME NEW u \in User, Connect(u) PROVE Base'
  BY <1>5, ConnectBase
<1>6. ASSUME NEW e \in Event, EditRemote(e) PROVE Base'
  BY <1>6, EditRemoteBase
<1>7. CASE ArriveLate
  BY <1>7, ArriveLateBase
<1>8. CASE UNCHANGED vars
  <2>1. \A u \in User : link'[u] = link[u]
    BY <1>8 DEF vars
  <2>2. StoreTypes'
    BY <1>8, BaseParts DEF StoreTypes, vars
  <2>3. Store' /\ EventsMove
    BY <1>8, <2>1, <2>2, StoreStays DEF vars
  <2>. QED
    BY <1>8, <2>3, JobsStay DEF vars
<1>. QED
  BY <1>1, <1>2, <1>3, <1>4, <1>5, <1>6, <1>7, <1>8 DEF Next

\* In every state of the program the store and the jobs have their types, the
\* links are to events of their users' calendars, no token or link knows
\* anything of the future, and the locals of a job fit its step.
THEOREM BaseHolds == Spec => []Base
  BY BaseInit, BaseStep, PTL DEF Spec

\* The rows and calendars have their types.
THEOREM TypesHold == Spec => []TypeOK
<1>1. Base => TypeOK
  BY DEF Base, Store, StoreTypes, JobTypes, TypeOK
<1>. QED
  BY <1>1, BaseHolds, PTL

----------------------------------------------------------------------------
(* What the step of a job leaves to the others *)

\* A step of j touches nobody j does not work for, and takes nothing back.
Acts(j) ==
    /\ OthersKept(j) /\ UNCHANGED raced /\ left \subseteq left' /\ j \in InFlight
    /\ pc'[j] = "ended" \/ (pc'[j] \notin {"idle", "ended"} /\ Work(j)' = Work(j))
    /\ \A u \in User \ Work(j) : link'[u] = link[u] /\ token'[u] = token[u]

\* Whom a job works for.
LEMMA Works ==
    ASSUME NEW j \in Job
    PROVE  /\ job[j].op \in Handlers => Work(j) = User
           /\ job[j].op \in {"pull", "disconnect"} => Work(j) = {job[j].user}
  BY DEF Work, WorksFor, Handlers, Writes

\* A handler works for everybody.
LEMMA HandlerActs ==
    ASSUME NEW j \in Job, OthersKept(j), UNCHANGED raced, left \subseteq left', job[j].op \in Handlers,
           pc[j] \notin {"idle", "ended"},
           pc'[j] = "ended" \/ (pc'[j] \notin {"idle", "ended"} /\ job'[j].op = job[j].op)
    PROVE  Acts(j)
<1>1. Work(j) = User
  BY Works
<1>2. job'[j].op \in Handlers => Work(j)' = User
  BY DEF Work, WorksFor, Handlers, Writes
<1>3. j \in InFlight
  BY DEF InFlight
<1>. QED
  BY <1>1, <1>2, <1>3 DEF Acts

\* A pull works for its user.
LEMMA PullActs ==
    ASSUME NEW j \in Job, OthersKept(j), UNCHANGED raced, left \subseteq left',
           job[j].op \in {"pull", "disconnect"},
           pc[j] \notin {"idle", "ended"},
           pc'[j] = "ended" \/ (pc'[j] \notin {"idle", "ended"} /\ job'[j].op = job[j].op /\ job'[j].user = job[j].user),
           \A u \in User : u # job[j].user => link'[u] = link[u] /\ token'[u] = token[u]
    PROVE  Acts(j)
<1>1. Work(j) = {job[j].user}
  BY Works
<1>2. job'[j].op = job[j].op /\ job'[j].user = job[j].user => Work(j)' = {job[j].user}
  BY DEF Work, WorksFor
<1>3. j \in InFlight
  BY DEF InFlight
<1>. QED
  BY <1>1, <1>2, <1>3 DEF Acts

\* How a step changes the locals of its job.
LEMMA Gone ==
    ASSUME JobTypes, NEW j \in Job, End(j)
    PROVE  OthersKept(j) /\ pc'[j] = "ended" /\ job'[j] = Idle
  BY Ends

\* The job goes on with new locals.
LEMMA Went ==
    ASSUME JobTypes, NEW j \in Job, NEW step, Goto(j, step), NEW c, job' = [job EXCEPT ![j] = c]
    PROVE  OthersKept(j) /\ pc'[j] = step /\ job'[j] = c
  BY DEF JobTypes, Goto, OthersKept, Kept

\* The job goes on with the locals it has.
LEMMA Stayed ==
    ASSUME JobTypes, NEW j \in Job, NEW step, Goto(j, step), UNCHANGED job
    PROVE  OthersKept(j) /\ pc'[j] = step /\ job'[j] = job[j]
  BY DEF JobTypes, Goto, OthersKept, Kept

\* The steps of a handler, but those of a push with the calendar.
LEMMA HandlerStepActs ==
    ASSUME Base, NEW j \in Job,
           \/ WriteTask(j) \/ Reread(j) \/ FindConnection(j) \/ UpsertLink(j) \/ SaveLink(j)
           \/ RecordPushFailure(j) \/ FindLinks(j) \/ DeleteEvent(j) \/ DropLinks(j)
           \/ PushNew(j) \/ PushKnown(j) \/ FailRemoval(j)
    PROVE  Acts(j)
<1>1. JobTypes /\ Fits(j) /\ job[j] \in JobRec
  BY BaseParts, JobFields
<1>2. pc[j] \in {"write", "reread", "find", "upsert", "push", "save", "failed", "links", "unlink"}
  BY DEF WriteTask, Reread, FindConnection, UpsertLink, SaveLink, RecordPushFailure, FindLinks,
         DeleteEvent, DropLinks, PushNew, PushKnown, FailRemoval
<1>3. job[j].op \in Handlers
  BY <1>1, <1>2, StepsFit DEF Pushes, Removes
<1>4. UNCHANGED raced
  BY DEF WriteTask, Reread, FindConnection, UpsertLink, SaveLink, RecordPushFailure, FindLinks,
         DeleteEvent, DropLinks, PushNew, PushKnown, FailRemoval, ghosts
<1>5. left \subseteq left'
  <2>1. CASE SaveLink(j) \/ FindLinks(j) \/ DeleteEvent(j) \/ PushNew(j)
    BY <2>1 DEF SaveLink, FindLinks, DeleteEvent, PushNew
  <2>2. CASE ~(SaveLink(j) \/ FindLinks(j) \/ DeleteEvent(j) \/ PushNew(j))
    BY <2>2 DEF WriteTask, Reread, FindConnection, UpsertLink, RecordPushFailure, DropLinks,
                PushKnown, FailRemoval, ghosts
  <2>. QED
    BY <2>1, <2>2
<1>. DEFINE Goes == OthersKept(j) /\ (pc'[j] = "ended" \/ (pc'[j] \notin {"idle", "ended"} /\ job'[j].op = job[j].op))
<1>6. CASE End(j)
  BY <1>1, <1>2, <1>3, <1>4, <1>5, <1>6, Gone, HandlerActs
<1>7. ASSUME NEW step \in Steps \ {"idle", "ended"}, Goto(j, step),
             NEW c, c.op = job[j].op, job' = [job EXCEPT ![j] = c] \/ (c = job[j] /\ UNCHANGED job)
      PROVE  Acts(j)
  <2>1. OthersKept(j) /\ pc'[j] = step /\ job'[j] = c
    BY <1>1, <1>7, Went, Stayed
  <2>. QED
    BY <1>2, <1>3, <1>4, <1>5, <1>7, <2>1, HandlerActs
<1>8. AfterRemoval(j) => Acts(j)
  <2>1. CASE Goto(j, "find") /\ job' = [job EXCEPT ![j].todo = {}]
    <3>1. /\ job' = [job EXCEPT ![j] = [job[j] EXCEPT !.todo = {}]]
          /\ [job[j] EXCEPT !.todo = {}].op = job[j].op /\ "find" \in Steps
      BY <1>1, <2>1 DEF JobRec, Steps
    <3>. QED
      BY <1>7, <2>1, <3>1
  <2>. QED
    BY <1>6, <2>1 DEF AfterRemoval
<1>9. CASE WriteTask(j)
  <2>1. End(j) \/ (UNCHANGED job /\ (Goto(j, "reread") \/ Goto(j, "links")))
    BY <1>9 DEF WriteTask
  <2>. QED
    BY <1>6, <1>7, <2>1 DEF Steps
<1>10. CASE Reread(j)
  <2>. DEFINE c == [Idle EXCEPT !.op = job[j].op, !.new = task]
  <2>1. CASE Hook(job[j], task) # "ended" /\ Goto(j, Hook(job[j], task)) /\ job' = [job EXCEPT ![j] = c]
    <3>1. job[j].op \in Writes /\ job[j].op # "delete"
      BY <1>1, <1>3, <1>10 DEF Fits, HandlerFits, Reread
    <3>2. Hook(job[j], task) \in {"find", "links", "ended"}
      BY <3>1 DEF Hook, Writes
    <3>3. c.op = job[j].op
      BY DEF Idle
    <3>. HIDE DEF c
    <3>. QED
      BY <1>7, <2>1, <3>2, <3>3 DEF Steps
  <2>. QED
    BY <1>6, <1>10, <2>1 DEF Reread
<1>11. CASE FindConnection(j)
  <2>. DEFINE c == [job[j] EXCEPT !.user = job[j].new.assignee]
  <2>1. End(j) \/ (Goto(j, "upsert") /\ job' = [job EXCEPT ![j] = c])
    BY <1>11 DEF FindConnection
  <2>2. c.op = job[j].op
    BY <1>1 DEF JobRec
  <2>. QED
    BY <1>6, <1>7, <2>1, <2>2 DEF Steps
<1>12. CASE UpsertLink(j)
  <2>. DEFINE c == [job[j] EXCEPT !.link = link'[job[j].user]]
  <2>1. Goto(j, "push") /\ job' = [job EXCEPT ![j] = c]
    BY <1>12 DEF UpsertLink
  <2>2. c.op = job[j].op
    BY <1>1 DEF JobRec
  <2>. QED
    BY <1>6, <1>7, <2>1, <2>2 DEF Steps
<1>13. CASE SaveLink(j) \/ RecordPushFailure(j)
  <2>1. End(j) \/ (Goto(j, "failed") /\ UNCHANGED job)
    BY <1>13 DEF SaveLink, RecordPushFailure
  <2>. QED
    BY <1>6, <1>7, <2>1 DEF Steps
<1>14. CASE FindLinks(j) \/ DropLinks(j)
  <2>. DEFINE T == {<<u, link[u].event>> : u \in {v \in {w \in Linked : link[w].event # NoEvent} : conn[v] # "DISCONNECTED"}}
              c == [job[j] EXCEPT !.todo = T]
  <2>1. AfterRemoval(j) \/ (Goto(j, "unlink") /\ job' = [job EXCEPT ![j] = c])
    BY <1>14 DEF FindLinks, DropLinks
  <2>2. c.op = job[j].op
    BY <1>1 DEF JobRec
  <2>. HIDE DEF c
  <2>. QED
    BY <1>7, <1>8, <2>1, <2>2 DEF Steps
<1>15. CASE DeleteEvent(j)
  <2>1. PICK l : UNCHANGED pc /\ pc[j] = "unlink" /\ job' = [job EXCEPT ![j].todo = @ \ {l}]
    BY <1>15 DEF DeleteEvent
  <2>. DEFINE c == [job[j] EXCEPT !.todo = job[j].todo \ {l}]
  <2>2. Goto(j, "unlink") /\ job' = [job EXCEPT ![j] = c] /\ c.op = job[j].op
    BY <1>1, <2>1 DEF JobRec, JobTypes, Goto
  <2>. HIDE DEF c
  <2>. QED
    BY <1>7, <2>2 DEF Steps
<1>16. CASE PushNew(j)
  <2>1. \/ Goto(j, "failed") /\ UNCHANGED job
        \/ \E e : Goto(j, "save") /\ job' = [job EXCEPT ![j].link.event = e, ![j].upto = event'[e].rev]
    BY <1>16 DEF PushNew
  <2>2. ASSUME NEW e, Goto(j, "save"), job' = [job EXCEPT ![j].link.event = e, ![j].upto = event'[e].rev]
        PROVE  Acts(j)
    <3>. DEFINE c == [job[j] EXCEPT !.link.event = e, !.upto = event'[e].rev]
    <3>1. job' = [job EXCEPT ![j] = c] /\ c.op = job[j].op
      BY <1>1, <2>2 DEF JobRec, JobTypes
    <3>. HIDE DEF c
    <3>. QED
      BY <1>7, <2>2, <3>1 DEF Steps
  <2>. QED
    BY <1>7, <2>1, <2>2 DEF Steps
<1>17. CASE PushKnown(j)
  <2>1. \/ Goto(j, "failed") /\ UNCHANGED job
        \/ Goto(j, "save") /\ job' = [job EXCEPT ![j].upto = event'[job[j].link.event].rev]
    BY <1>17 DEF PushKnown
  <2>. DEFINE c == [job[j] EXCEPT !.upto = event'[job[j].link.event].rev]
  <2>2. c.op = job[j].op
    BY <1>1 DEF JobRec
  <2>. QED
    BY <1>7, <2>1, <2>2 DEF Steps
<1>18. CASE FailRemoval(j)
  BY <1>8, <1>18 DEF FailRemoval
<1>. QED
  BY <1>9, <1>10, <1>11, <1>12, <1>13, <1>14, <1>15, <1>16, <1>17, <1>18

\* The steps of a pull and of a disconnection.
LEMMA PullStepActs ==
    ASSUME Base, NEW j \in Job,
           \/ ListChanges(j) \/ LookUpChange(j) \/ DropLink(j) \/ ReadTask(j) \/ MoveTask(j)
           \/ MarkSeen(j) \/ StoreToken(j) \/ ForgetLinks(j)
    PROVE  Acts(j)
<1>1. JobTypes /\ Fits(j) /\ job[j] \in JobRec /\ StoreTypes
  BY BaseParts, JobFields
<1>2. pc[j] \in {"list", "apply", "task", "move", "seen", "drop", "forget"}
  BY DEF ListChanges, LookUpChange, DropLink, ReadTask, MoveTask, MarkSeen, StoreToken, ForgetLinks
<1>3. job[j].op \in {"pull", "disconnect"}
  BY <1>1, <1>2, StepsFit DEF Applies
<1>4. UNCHANGED raced
  BY DEF ListChanges, LookUpChange, DropLink, ReadTask, MoveTask, MarkSeen, StoreToken, ForgetLinks, ghosts
<1>5. left \subseteq left'
  BY DEF ListChanges, LookUpChange, DropLink, ReadTask, MoveTask, MarkSeen, StoreToken, ForgetLinks, ghosts
<1>6. \A u \in User : u # job[j].user => link'[u] = link[u] /\ token'[u] = token[u]
  <2>1. link' = link \/ \E l : link' = [link EXCEPT ![job[j].user] = l]
    BY DEF ListChanges, LookUpChange, DropLink, ReadTask, MoveTask, MarkSeen, StoreToken, ForgetLinks, store
  <2>2. token' = token \/ \E n : token' = [token EXCEPT ![job[j].user] = n]
    BY DEF ListChanges, LookUpChange, DropLink, ReadTask, MoveTask, MarkSeen, StoreToken, ForgetLinks, store
  <2>. QED
    BY <1>1, <2>1, <2>2 DEF StoreTypes
<1>7. CASE End(j)
  BY <1>1, <1>2, <1>3, <1>4, <1>5, <1>6, <1>7, Gone, PullActs
<1>8. ASSUME NEW step \in Steps \ {"idle", "ended"}, Goto(j, step),
             NEW c, c.op = job[j].op, c.user = job[j].user,
             job' = [job EXCEPT ![j] = c] \/ (c = job[j] /\ UNCHANGED job)
      PROVE  Acts(j)
  <2>1. OthersKept(j) /\ pc'[j] = step /\ job'[j] = c
    BY <1>1, <1>8, Went, Stayed
  <2>. QED
    BY <1>2, <1>3, <1>4, <1>5, <1>6, <1>8, <2>1, PullActs
<1>9. CASE DropLink(j) \/ ReadTask(j) \/ MoveTask(j) \/ MarkSeen(j) \/ StoreToken(j) \/ ForgetLinks(j)
  <2>1. End(j) \/ (UNCHANGED job /\ \E step \in Steps \ {"idle", "ended"} : Goto(j, step))
    BY <1>9 DEF DropLink, ReadTask, MoveTask, MarkSeen, StoreToken, ForgetLinks, Steps
  <2>. QED
    BY <1>7, <1>8, <2>1
<1>10. CASE ListChanges(j)
  <2>. DEFINE T == {<<e, event[e]>> : e \in Changes(job[j].user, job[j].upto)}
              c == [job[j] EXCEPT !.todo = T, !.upto = Latest(job[j].user)]
              d == [job[j] EXCEPT !.upto = 0]
  <2>1. /\ pc[j] = "list"
        /\ \/ End(j) \/ (Goto(j, "apply") /\ job' = [job EXCEPT ![j] = c])
           \/ UNCHANGED pc /\ job' = [job EXCEPT ![j] = d]
    BY <1>10 DEF ListChanges
  <2>2. c.op = job[j].op /\ c.user = job[j].user /\ d.op = job[j].op /\ d.user = job[j].user
    BY <1>1 DEF JobRec
  <2>3. UNCHANGED pc /\ pc[j] = "list" => Goto(j, "list")
    BY <1>1 DEF JobTypes, Goto
  <2>. HIDE DEF c, d
  <2>. QED
    BY <1>7, <1>8, <2>1, <2>2, <2>3 DEF Steps
<1>11. CASE LookUpChange(j)
  <2>1. PICK x : \/ UNCHANGED pc /\ job' = [job EXCEPT ![j] = [job[j] EXCEPT !.todo = @ \ {x}]]
                 \/ /\ Goto(j, IF x[2].live THEN "task" ELSE "drop")
                    /\ job' = [job EXCEPT ![j] = [[job[j] EXCEPT !.todo = @ \ {x}] EXCEPT !.link = link[job[j].user], !.new = x[2]]]
    BY <1>11 DEF LookUpChange
  <2>. DEFINE c == [job[j] EXCEPT !.todo = @ \ {x}]
              d == [[job[j] EXCEPT !.todo = @ \ {x}] EXCEPT !.link = link[job[j].user], !.new = x[2]]
  <2>2. c.op = job[j].op /\ c.user = job[j].user /\ d.op = job[j].op /\ d.user = job[j].user
    BY <1>1 DEF JobRec
  <2>3. UNCHANGED pc => Goto(j, "apply")
    BY <1>1, <1>11 DEF JobTypes, Goto, LookUpChange
  <2>4. \/ UNCHANGED pc /\ job' = [job EXCEPT ![j] = c]
        \/ (Goto(j, "task") \/ Goto(j, "drop")) /\ job' = [job EXCEPT ![j] = d]
    BY <2>1
  <2>. HIDE DEF c, d
  <2>. QED
    BY <1>8, <2>2, <2>3, <2>4 DEF Steps
<1>. QED
  BY <1>9, <1>10, <1>11

\* A job that fails.
LEMMA FailActs ==
    ASSUME Base, NEW j \in Job, Fail(j)
    PROVE  Acts(j)
<1>1. /\ j \in InFlight /\ UNCHANGED <<link, token, raced>> /\ End(j) /\ left \subseteq left'
  BY DEF Fail, store
<1>2. OthersKept(j) /\ pc'[j] = "ended"
  BY <1>1, BaseParts, Gone
<1>. QED
  BY <1>1, <1>2 DEF Acts

\* So does every step of a job.
LEMMA StepActs ==
    ASSUME Base, NEW j \in Job, Step(j) \/ FailRemoval(j) \/ Fail(j)
    PROVE  Acts(j)
  BY HandlerStepActs, PullStepActs, FailActs DEF Step

\* Every step moves the calendars forward.
LEMMA EventsStep ==
    ASSUME Base, [Next]_vars
    PROVE  EventsMove
<1>1. CASE UNCHANGED event
  BY <1>1, Still
<1>2. CASE ~UNCHANGED event
  <2>1. ASSUME NEW j \in Job, Step(j)
        PROVE  PushNew(j) \/ PushKnown(j) \/ DeleteEvent(j)
    <3>1. ~(WriteTask(j) \/ Reread(j) \/ FindConnection(j) \/ UpsertLink(j))
      BY <1>2 DEF WriteTask, Reread, FindConnection, UpsertLink
    <3>2. ~(SaveLink(j) \/ RecordPushFailure(j) \/ FindLinks(j) \/ DropLinks(j))
      BY <1>2 DEF SaveLink, RecordPushFailure, FindLinks, DropLinks
    <3>3. ~(ListChanges(j) \/ LookUpChange(j) \/ DropLink(j) \/ ReadTask(j))
      BY <1>2 DEF ListChanges, LookUpChange, DropLink, ReadTask
    <3>4. ~(MoveTask(j) \/ MarkSeen(j) \/ StoreToken(j) \/ ForgetLinks(j))
      BY <1>2 DEF MoveTask, MarkSeen, StoreToken, ForgetLinks
    <3>. QED
      BY <2>1, <3>1, <3>2, <3>3, <3>4 DEF Step
  <2>2. ~\E j \in Job : \/ \E o \in Ops : StartTask(j, o)
                        \/ \E u \in User : StartPull(j, u) \/ StartDisconnect(j, u)
                        \/ FailRemoval(j) \/ Fail(j)
    BY <1>2 DEF StartTask, StartPull, StartDisconnect, FailRemoval, Fail
  <2>3. ~\E u \in User : Connect(u)
    BY <1>2 DEF Connect
  <2>4. ~UNCHANGED vars
    BY <1>2 DEF vars
  <2>5. \/ \E j \in Job : PushNew(j) \/ PushKnown(j) \/ DeleteEvent(j)
        \/ \E e \in Event : EditRemote(e)
        \/ ArriveLate
    BY <2>1, <2>2, <2>3, <2>4 DEF Next
  <2>. QED
    BY <2>5, PushNewBase, PushKnownBase, DeleteEventBase, EditRemoteBase, ArriveLateBase
<1>. QED
  BY <1>1, <1>2

----------------------------------------------------------------------------
(* No event is forgotten *)

\* An event that is live was, if it was there.
LEMMA LiveBefore ==
    ASSUME EventsMove, NEW e \in Used, event'[e].live
    PROVE  IsLive(e)
  BY DEF EventsMove, IsLive

\* A job that takes no step keeps what it read, if nobody else touches it.
LEMMA OthersThere ==
    ASSUME Base, EventsMove, NEW k \in Job, Kept(k), ReadThere(k), RemovesAll(k),
           raced \subseteq raced', left \subseteq left',
           k \in InFlight => \A u \in User : u \in Work(k) /\ u \notin raced' => link'[u] = link[u]
    PROVE  ReadThere(k)' /\ RemovesAll(k)'
<1>. DEFINE c == job[k]
<1>1. pc'[k] = pc[k] /\ job'[k] = c
  BY DEF Kept
<1>2. JobTypes /\ Fits(k)
  BY BaseParts
<1>3. pc[k] \in {"push", "save", "failed"} \cup Applies \cup {"drop"} =>
        k \in InFlight /\ c.user \in User /\ c.user \in Work(k)
  <2>1. pc[k] \in {"push", "save", "failed"} => k \in InFlight /\ c.user \in User /\ c.user \in Work(k)
    BY PushFits, Works DEF Pushes, InFlight
  <2>2. pc[k] \in Applies \cup {"drop"} => k \in InFlight /\ c.user \in User /\ c.user \in Work(k)
    BY PullHolds, Works DEF Pulls, Applies, InFlight
  <2>. QED
    BY <2>1, <2>2
<1>4. ReadThere(k)'
  <2>. SUFFICES ASSUME pc[k] \in {"push", "save", "failed"} \cup Applies \cup {"drop"}, c.user \notin raced'
                PROVE  ReadThere(k)'
    BY <1>1 DEF ReadThere
  <2>1. link'[c.user] = link[c.user] /\ c.user \notin raced
    BY <1>3
  <2>. QED
    BY <1>1, <2>1 DEF ReadThere
<1>5. RemovesAll(k)'
  <2>. SUFFICES ASSUME pc[k] = "unlink", NEW u \in User \ raced', link'[u] # NoLink,
                       link'[u].event \in Used', event'[link'[u].event].live
                PROVE  link'[u].event \in left' \/ <<u, link'[u].event>> \in c.todo
    BY <1>1 DEF RemovesAll, IsLive
  <2>1. c.op \in Handlers /\ k \in InFlight
    BY RemoveFits DEF Removes, InFlight
  <2>2. link'[u] = link[u] /\ u \notin raced
    BY <2>1, Works
  <2>3. link[u].event \in Used
    BY <2>2, LinksThere, NoneIsOther DEF Has, Used, EventTypes
  <2>4. IsLive(link[u].event)
    BY <2>2, <2>3, LiveBefore
  <2>. QED
    BY <2>2, <2>4 DEF RemovesAll
<1>. QED
  BY <1>4, <1>5

\* Jobs that run do not come to race.
LEMMA StaysAlone ==
    ASSUME Alone, NEW j \in Job, Acts(j)
    PROVE  /\ Alone'
           /\ \A k \in Job : k # j /\ k \in InFlight =>
                \A u \in User : u \in Work(k) /\ u \notin raced' => link'[u] = link[u] /\ token'[u] = token[u]
<1>1. /\ OthersKept(j) /\ raced' = raced /\ j \in InFlight
      /\ pc'[j] = "ended" \/ (pc'[j] \notin {"idle", "ended"} /\ Work(j)' = Work(j))
      /\ \A u \in User \ Work(j) : link'[u] = link[u] /\ token'[u] = token[u]
  BY DEF Acts
<1>2. \A k \in Job : k # j => (k \in InFlight' <=> k \in InFlight) /\ Work(k)' = Work(k)
  BY <1>1 DEF OthersKept, Kept, InFlight, Work
<1>3. j \in InFlight' => Work(j)' = Work(j)
  BY <1>1 DEF InFlight
<1>4. \A k \in InFlight' : k \in InFlight /\ Work(k)' = Work(k)
  BY <1>1, <1>2, <1>3 DEF InFlight
<1>5. Alone'
  BY <1>1, <1>4 DEF Alone
<1>7. ASSUME NEW k \in Job, k # j, k \in InFlight, NEW u \in User, u \in Work(k), u \notin raced'
      PROVE  link'[u] = link[u] /\ token'[u] = token[u]
  BY <1>1, <1>7 DEF Alone
<1>. QED
  BY <1>5, <1>7

\* What the step of a job has to do for what it holds itself and for the events
\* it makes or unlinks.
LEMMA AccountedOn ==
    ASSUME Base, Accounted, EventsMove, NEW j \in Job, Acts(j), ReadThere(j)', RemovesAll(j)',
           \A e \in Used' \ Used : e \in left' \/ (pc'[j] = "save" /\ job'[j].link.event = e),
           \A u \in User \ raced : link[u] # NoLink /\ IsLive(link[u].event) /\ event'[link[u].event].live =>
                link[u].event \in left' \/ (link'[u] # NoLink /\ link'[u].event = link[u].event),
           pc[j] = "save" /\ job[j].user \notin raced =>
                LET e == job[j].link.event IN
                e \in left' \/ (link'[job[j].user] # NoLink /\ link'[job[j].user].event = e)
    PROVE  Accounted'
<1>1. raced' = raced /\ left \subseteq left' /\ OthersKept(j)
  BY DEF Acts
<1>2. Alone' /\ \A k \in Job : k # j => ReadThere(k)' /\ RemovesAll(k)'
  BY <1>1, StaysAlone, OthersThere DEF Accounted, OthersKept
<1>3. EventsAccounted'
  <2>. SUFFICES ASSUME NEW e \in Event, e \in Used', event'[e].live, event'[e].owner \notin raced
                PROVE  \/ e \in left'
                       \/ link'[event'[e].owner] # NoLink /\ link'[event'[e].owner].event = e
                       \/ \E k \in Job : pc'[k] = "save" /\ job'[k].link.event = e
    BY <1>1 DEF EventsAccounted, IsLive
  <2>1. CASE e \notin Used
    BY <2>1
  <2>2. CASE e \in Used
    <3>. DEFINE u == event[e].owner
    <3>1. IsLive(e) /\ event'[e].owner = u /\ u \in User
      BY <2>2, LiveBefore, UsedRecords, BaseParts DEF EventsMove
    <3>2. \/ e \in left
          \/ link[u] # NoLink /\ link[u].event = e
          \/ \E k \in Job : pc[k] = "save" /\ job[k].link.event = e
      BY <3>1 DEF Accounted, EventsAccounted
    <3>3. CASE e \in left
      BY <1>1, <3>3
    <3>4. CASE link[u] # NoLink /\ link[u].event = e
      BY <3>1, <3>4
    <3>5. ASSUME NEW k \in Job, pc[k] = "save", job[k].link.event = e, k # j
          PROVE  pc'[k] = "save" /\ job'[k].link.event = e
      BY <1>1, <3>5 DEF OthersKept, Kept
    <3>6. CASE pc[j] = "save" /\ job[j].link.event = e
      <4>1. job[j].user = u
        BY <3>6, SaveFits DEF Has
      <4>. QED
        BY <3>1, <3>6, <4>1
    <3>. QED
      BY <3>2, <3>3, <3>4, <3>5, <3>6
  <2>. QED
    BY <2>1, <2>2
<1>. QED
  BY <1>2, <1>3 DEF Accounted

\* A step that is not one of a job that runs.
LEMMA AccountedElse ==
    ASSUME Base, Accounted, EventsMove, Alone', UNCHANGED link, raced \subseteq raced', left \subseteq left',
           \A k \in Job : Kept(k) \/ (k \notin InFlight /\ pc'[k] \in {"write", "find", "list", "forget"}),
           \A e \in Used' \ Used : e \in left'
    PROVE  Accounted'
<1>1. \A k \in Job : ReadThere(k)' /\ RemovesAll(k)'
  <2>. SUFFICES ASSUME NEW k \in Job PROVE ReadThere(k)' /\ RemovesAll(k)'
    OBVIOUS
  <2>1. CASE Kept(k)
    BY <2>1, OthersThere DEF Accounted
  <2>2. CASE pc'[k] \in {"write", "find", "list", "forget"}
    BY <2>2 DEF ReadThere, RemovesAll, Applies
  <2>. QED
    BY <2>1, <2>2
<1>2. EventsAccounted'
  <2>. SUFFICES ASSUME NEW e \in Event, e \in Used', event'[e].live, event'[e].owner \notin raced'
                PROVE  \/ e \in left'
                       \/ link'[event'[e].owner] # NoLink /\ link'[event'[e].owner].event = e
                       \/ \E k \in Job : pc'[k] = "save" /\ job'[k].link.event = e
    BY DEF EventsAccounted, IsLive
  <2>1. CASE e \notin Used
    BY <2>1
  <2>2. CASE e \in Used
    <3>1. IsLive(e) /\ event'[e].owner = event[e].owner /\ event[e].owner \notin raced
      BY <2>2, LiveBefore DEF EventsMove
    <3>2. \/ e \in left
          \/ link[event[e].owner] # NoLink /\ link[event[e].owner].event = e
          \/ \E k \in Job : pc[k] = "save" /\ job[k].link.event = e
      BY <3>1 DEF Accounted, EventsAccounted
    <3>3. ASSUME NEW k \in Job, pc[k] = "save", job[k].link.event = e
          PROVE  pc'[k] = "save" /\ job'[k].link.event = e
      BY <3>3 DEF Kept, InFlight
    <3>. QED
      BY <3>1, <3>2, <3>3
  <2>. QED
    BY <2>1, <2>2
<1>. QED
  BY <1>1, <1>2 DEF Accounted

\* A job that starts says with whom it races.
LEMMA StartsAlone ==
    ASSUME Alone, NEW j \in Job, j \notin InFlight, OthersKept(j), NEW U, RaceOthers(U),
           Work(j)' \subseteq U
    PROVE  Alone'
<1>1. \A k \in Job : k # j => (k \in InFlight' <=> k \in InFlight) /\ Work(k)' = Work(k)
  BY DEF OthersKept, Kept, InFlight, Work
<1>2. raced' = raced \cup (U \cap InWork)
  BY DEF RaceOthers
<1>3. \A k \in InFlight : Work(k) \subseteq InWork
  BY DEF InWork, Work
<1>4. \A k \in InFlight' : k \in Job
  BY DEF InFlight
<1>5. ASSUME NEW k \in InFlight', NEW l \in InFlight', k # l
      PROVE  Work(k)' \cap Work(l)' \subseteq raced'
  <2>1. CASE k # j /\ l # j
    BY <1>1, <1>2, <1>4, <1>5, <2>1 DEF Alone
  <2>2. CASE k = j
    BY <1>1, <1>2, <1>3, <1>4, <1>5, <2>2
  <2>3. CASE l = j
    BY <1>1, <1>2, <1>3, <1>4, <1>5, <2>3
  <2>. QED
    BY <2>1, <2>2, <2>3
<1>. QED
  BY <1>5 DEF Alone

----------------------------------------------------------------------------
(* No event is forgotten: the steps *)

\* A job that holds neither a link nor deletions.
LEMMA HoldsNone ==
    ASSUME NEW j \in Job,
           pc'[j] \in {"ended", "write", "reread", "find", "upsert", "links", "list", "apply", "forget"}
    PROVE  ReadThere(j)' /\ RemovesAll(j)'
  BY DEF ReadThere, RemovesAll, Applies

\* A step that changes neither events nor links.
LEMMA AccountedStill ==
    ASSUME Base, Accounted, NEW j \in Job, Acts(j), UNCHANGED <<event, link>>, pc[j] # "save",
           ReadThere(j)', RemovesAll(j)'
    PROVE  Accounted'
<1>1. EventsMove /\ Used' = Used
  BY Still
<1>. QED
  BY <1>1, AccountedOn

\* A step that changes neither links nor events leaves no event unaccounted for.
LEMMA PlainAccounted ==
    ASSUME Base, Accounted, NEW j \in Job,
           \/ WriteTask(j) \/ Reread(j) \/ FindConnection(j) \/ ListChanges(j) \/ StoreToken(j)
    PROVE  Accounted'
<1>1. Acts(j)
  BY StepActs DEF Step
<1>2. UNCHANGED <<event, link>> /\ pc[j] # "save"
  BY DEF WriteTask, Reread, FindConnection, ListChanges, StoreToken, store
<1>3. JobTypes /\ Fits(j)
  BY BaseParts
<1>4. pc'[j] \in {"ended", "write", "reread", "find", "upsert", "links", "list", "apply", "forget"}
  <2>1. CASE WriteTask(j)
    BY <1>3, <2>1 DEF WriteTask, End, Goto, JobTypes
  <2>2. CASE Reread(j)
    <3>1. job[j].op \in Writes /\ job[j].op # "delete"
      BY <1>3, <2>2, StepsFit DEF Fits, HandlerFits, Reread
    <3>2. Hook(job[j], task) \in {"find", "links", "ended"}
      BY <3>1 DEF Hook, Writes
    <3>. QED
      BY <1>3, <2>2, <3>2 DEF Reread, End, Goto, JobTypes
  <2>3. CASE FindConnection(j)
    BY <1>3, <2>3 DEF FindConnection, End, Goto, JobTypes
  <2>4. CASE ListChanges(j)
    BY <1>3, <2>4 DEF ListChanges, End, Goto, JobTypes
  <2>5. CASE StoreToken(j)
    BY <1>3, <2>5 DEF StoreToken, End, Goto, JobTypes
  <2>. QED
    BY <2>1, <2>2, <2>3, <2>4, <2>5
<1>. QED
  BY <1>1, <1>2, <1>4, HoldsNone, AccountedStill

\* The link row that is found or made leaves no event unaccounted for.
LEMMA UpsertLinkAccounted ==
    ASSUME Base, Accounted, NEW j \in Job, UpsertLink(j)
    PROVE  Accounted'
<1>. DEFINE u == job[j].user
            new == [id |-> j, event |-> NoEvent, status |-> "PENDING", seen |-> 0]
<1>1. Acts(j)
  BY StepActs DEF Step
<1>2. /\ pc[j] = "upsert" /\ UNCHANGED event
      /\ link' = IF link[u] # NoLink THEN link ELSE [link EXCEPT ![u] = new]
      /\ job' = [job EXCEPT ![j].link = link'[u]] /\ Goto(j, "push")
  BY DEF UpsertLink
<1>3. u \in User /\ JobTypes /\ StoreTypes /\ job[j] \in JobRec
  BY <1>2, PushFits, BaseParts, JobFields DEF Pushes
<1>4. pc'[j] = "push" /\ job'[j].user = u /\ job'[j].link = link'[u]
  BY <1>2, <1>3 DEF Goto, JobTypes, JobRec
<1>5. link'[u] # NoLink
  <2>1. new \in Link
    BY DEF Link
  <2>2. new # NoLink
    BY <2>1, LinkFields
  <2>. HIDE DEF new
  <2>. QED
    BY <1>2, <1>3, <2>2 DEF StoreTypes
<1>. HIDE DEF new
<1>6. ReadThere(j)' /\ RemovesAll(j)'
  BY <1>4, <1>5 DEF ReadThere, RemovesAll, Applies
<1>7. \A v \in User : link[v] # NoLink => link'[v] = link[v]
  BY <1>2, <1>3 DEF StoreTypes
<1>8. EventsMove /\ Used' = Used
  BY <1>2, Still
<1>. QED
  BY <1>1, <1>2, <1>6, <1>7, <1>8, AccountedOn

\* An event that is created for the task leaves no event unaccounted for.
LEMMA PushNewAccounted ==
    ASSUME Base, Accounted, NEW j \in Job, PushNew(j)
    PROVE  Accounted'
<1>. DEFINE u == job[j].user
            d == job[j].new.due
<1>1. Acts(j) /\ EventsMove
  BY StepActs, PushNewBase DEF Step
<1>2. pc[j] = "push" /\ job[j].link.event = NoEvent /\ UNCHANGED link
  BY DEF PushNew, IsNew
<1>3. PICK E \in SUBSET (Event \ Used) :
        /\ event' = [e \in Event |-> IF e \in E THEN Created(u, d) ELSE event[e]]
        /\ \/ \E e \in E : /\ left' = left \cup (E \ {e})
                           /\ job' = [job EXCEPT ![j].link.event = e, ![j].upto = event'[e].rev]
                           /\ Goto(j, "save") /\ UNCHANGED conn
           \/ left' = left \cup E /\ Rejected(u) /\ Goto(j, "failed") /\ UNCHANGED job
  BY DEF PushNew
<1>4. u \in User /\ d \in Due /\ job[j].link \in Link
  BY <1>2, PushFits DEF Pushes
<1>5. JobTypes /\ StoreTypes /\ job[j] \in JobRec
  BY BaseParts, JobFields
<1>6. Used' = Used \cup E
  <2>1. CreatesFor(u, E, d)
    BY <1>3, <1>4 DEF CreatesFor
  <2>. QED
    BY <1>4, <2>1, Creates, BaseParts
<1>7. u \notin raced => link[u] = job[j].link /\ link[u] # NoLink
  BY <1>2 DEF Accounted, ReadThere
<1>8. raced' = raced
  BY <1>1 DEF Acts
<1>9. CASE left' = left \cup E /\ Goto(j, "failed") /\ UNCHANGED job
  <2>1. pc'[j] = "failed" /\ job'[j] = job[j]
    BY <1>5, <1>9, Stayed
  <2>2. ReadThere(j)' /\ RemovesAll(j)'
    BY <1>2, <1>7, <1>8, <2>1 DEF ReadThere, RemovesAll, Applies
  <2>. QED
    BY <1>1, <1>2, <1>6, <1>9, <2>2, AccountedOn
<1>10. ASSUME NEW e \in E, left' = left \cup (E \ {e}), Goto(j, "save"),
              job' = [job EXCEPT ![j].link.event = e, ![j].upto = event'[e].rev]
       PROVE  Accounted'
  <2>1. pc'[j] = "save"
    BY <1>5, <1>10 DEF Goto, JobTypes
  <2>2. job'[j].user = u /\ job'[j].link = [job[j].link EXCEPT !.event = e]
    BY <1>5, <1>10 DEF JobTypes, JobRec
  <2>3. job'[j].link.event = e /\ job'[j].link.id = job[j].link.id
    <3>1. job[j].link \in [id : Job, event : Event \cup {NoEvent}, status : {"PENDING", "FAILED", "SYNCED"}, seen : Nat]
      BY <1>4 DEF Link
    <3>. QED
      BY <2>2, <3>1
  <2>4. ReadThere(j)' /\ RemovesAll(j)'
    BY <1>2, <1>7, <1>8, <2>1, <2>2, <2>3 DEF ReadThere, RemovesAll, Applies
  <2>. QED
    BY <1>1, <1>2, <1>6, <1>10, <2>1, <2>3, <2>4, AccountedOn
<1>. QED
  BY <1>3, <1>9, <1>10

\* An event that is moved for the task leaves no event unaccounted for.
LEMMA PushKnownAccounted ==
    ASSUME Base, Accounted, NEW j \in Job, PushKnown(j)
    PROVE  Accounted'
<1>. DEFINE u == job[j].user
            e == job[j].link.event
<1>1. Acts(j) /\ EventsMove
  BY StepActs, PushKnownBase DEF Step
<1>2. /\ pc[j] = "push" /\ UNCHANGED link
      /\ event' = event \/ event' = [event EXCEPT ![e] = Moved(e, job[j].new.due)]
      /\ \/ Goto(j, "failed") /\ UNCHANGED job
         \/ Goto(j, "save") /\ job' = [job EXCEPT ![j].upto = event'[e].rev]
      /\ e # NoEvent
  BY DEF PushKnown, IsNew
<1>3. u \in User /\ e \in Used /\ job[j].link \in Link /\ event[e].owner = u /\ job[j].new.due \in Due
  BY <1>2, PushFits DEF Pushes, Has
<1>4. JobTypes /\ StoreTypes /\ job[j] \in JobRec
  BY BaseParts, JobFields
<1>5. Used' = Used
  <2>1. CASE event' = event
    BY <2>1, Still
  <2>2. CASE event' = [event EXCEPT ![e] = Moved(e, job[j].new.due)]
    <3>1. Moved(e, job[j].new.due) \in Remote
      BY <1>3, Records, BaseParts DEF Events
    <3>2. e \in Event /\ Moved(e, job[j].new.due) # NoEvent
      BY <1>3, <3>1, NoneIsOther DEF Used
    <3>. HIDE DEF e
    <3>. QED
      BY <1>3, <1>4, <2>2, <3>2 DEF Used, StoreTypes
  <2>. QED
    BY <1>2, <2>1, <2>2
<1>6. u \notin raced => link[u] = job[j].link /\ link[u] # NoLink
  BY <1>2 DEF Accounted, ReadThere
<1>7. raced' = raced
  BY <1>1 DEF Acts
<1>8. pc'[j] \in {"failed", "save"} /\ job'[j].user = u /\ job'[j].link = job[j].link
  BY <1>2, <1>4 DEF Goto, JobTypes, JobRec
<1>9. ReadThere(j)' /\ RemovesAll(j)'
  BY <1>2, <1>6, <1>7, <1>8 DEF ReadThere, RemovesAll, Applies
<1>. QED
  BY <1>1, <1>2, <1>5, <1>9, AccountedOn

\* The link that is written after a push leaves no event unaccounted for.
LEMMA SaveLinkAccounted ==
    ASSUME Base, Accounted, NEW j \in Job, SaveLink(j)
    PROVE  Accounted'
<1>. DEFINE u == job[j].user
            e == job[j].link.event
<1>1. Acts(j)
  BY StepActs DEF Step
<1>2. /\ pc[j] = "save" /\ UNCHANGED event
      /\ \/ IsThere(job[j].link, u) /\ link' = [link EXCEPT ![u] = Saved(job[j])] /\ End(j)
         \/ /\ left' = IF link[u] # NoLink /\ link[u].event = e THEN left ELSE left \cup {e}
            /\ Goto(j, "failed") /\ UNCHANGED <<link, job>>
  BY DEF SaveLink
<1>3. /\ u \in User /\ JobTypes /\ StoreTypes /\ e # NoEvent
      /\ Saved(job[j]) \in Link /\ Saved(job[j]).event = e
  BY <1>2, SaveFits, SavedTyped, BaseParts
<1>4. EventsMove /\ Used' = Used
  BY <1>2, Still
<1>5. u \notin raced => /\ link[u] # NoLink /\ link[u].id = job[j].link.id
                        /\ link[u].event \in {NoEvent, e}
  BY <1>2 DEF Accounted, ReadThere
<1>6. raced' = raced
  BY <1>1 DEF Acts
<1>7. CASE link' = [link EXCEPT ![u] = Saved(job[j])] /\ End(j)
  <2>1. ReadThere(j)' /\ RemovesAll(j)'
    BY <1>3, <1>7, Gone, HoldsNone
  <2>2. link'[u] = Saved(job[j]) /\ \A v \in User : v # u => link'[v] = link[v]
    BY <1>3, <1>7 DEF StoreTypes
  <2>3. Saved(job[j]) # NoLink
    BY <1>3, LinkFields
  <2>4. \A v \in User \ raced : link[v] # NoLink /\ IsLive(link[v].event) =>
            link'[v] # NoLink /\ link'[v].event = link[v].event
    <3>1. ~IsLive(NoEvent)
      BY NoneIsOther DEF IsLive, Used
    <3>. QED
      BY <1>3, <1>5, <2>2, <2>3, <3>1
  <2>. QED
    BY <1>1, <1>3, <1>4, <2>1, <2>2, <2>3, <2>4, AccountedOn
<1>8. CASE /\ left' = IF link[u] # NoLink /\ link[u].event = e THEN left ELSE left \cup {e}
           /\ Goto(j, "failed") /\ UNCHANGED <<link, job>>
  <2>1. pc'[j] = "failed" /\ job'[j] = job[j]
    BY <1>3, <1>8, Stayed
  <2>2. ReadThere(j)' /\ RemovesAll(j)'
    BY <1>5, <1>6, <1>8, <2>1 DEF ReadThere, RemovesAll, Applies
  <2>. QED
    BY <1>1, <1>4, <1>8, <2>2, AccountedOn
<1>. QED
  BY <1>2, <1>7, <1>8

\* The link that is marked as failed leaves no event unaccounted for.
LEMMA RecordPushFailureAccounted ==
    ASSUME Base, Accounted, NEW j \in Job, RecordPushFailure(j)
    PROVE  Accounted'
<1>. DEFINE u == job[j].user
<1>1. Acts(j)
  BY StepActs DEF Step
<1>2. /\ pc[j] = "failed" /\ UNCHANGED event /\ End(j)
      /\ link' = IF IsThere(job[j].link, u) THEN [link EXCEPT ![u].status = "FAILED"] ELSE link
  BY DEF RecordPushFailure
<1>3. u \in User /\ JobTypes /\ StoreTypes
  BY <1>2, PushFits, BaseParts DEF Pushes
<1>4. EventsMove /\ Used' = Used
  BY <1>2, Still
<1>5. ReadThere(j)' /\ RemovesAll(j)'
  BY <1>2, <1>3, Gone, HoldsNone
<1>6. \A v \in User : link[v] # NoLink => link'[v] # NoLink /\ link'[v].event = link[v].event
  <2>. SUFFICES ASSUME NEW v \in User, link[v] # NoLink
                PROVE  link'[v] # NoLink /\ link'[v].event = link[v].event
    OBVIOUS
  <2>1. CASE link'[v] = link[v]
    BY <2>1
  <2>2. CASE link'[v] = [link[v] EXCEPT !.status = "FAILED"]
    <3>1. link[v] \in Link
      BY LinksThere
    <3>2. link'[v] \in Link
      BY <2>2, <3>1, LinkForms
    <3>3. link'[v].event = link[v].event
      BY <2>2, <3>1 DEF Link
    <3>. QED
      BY <3>2, <3>3, LinkFields
  <2>. QED
    BY <1>2, <1>3, <2>1, <2>2 DEF StoreTypes
<1>. QED
  BY <1>1, <1>2, <1>4, <1>5, <1>6, AccountedOn

\* A removal ends its handler or goes on to a push.
LEMMA AfterRemovalPlain ==
    ASSUME JobTypes, NEW j \in Job, AfterRemoval(j)
    PROVE  pc'[j] \in {"ended", "find"}
  BY DEF AfterRemoval, End, Goto, JobTypes

\* Looking for the links of the task leaves no event unaccounted for.
LEMMA FindLinksAccounted ==
    ASSUME Base, Accounted, NEW j \in Job, FindLinks(j)
    PROVE  Accounted'
<1>. DEFINE known == {u \in Linked : link[u].event # NoEvent}
            T == {<<u, link[u].event>> : u \in {v \in known : conn[v] # "DISCONNECTED"}}
<1>1. Acts(j)
  BY StepActs DEF Step
<1>2. /\ pc[j] = "links" /\ UNCHANGED <<link, event>>
      /\ \/ AfterRemoval(j)
         \/ /\ job' = [job EXCEPT ![j].todo = T] /\ Goto(j, "unlink")
            /\ left' = left \cup {link[u].event : u \in {v \in known : conn[v] = "DISCONNECTED"}}
  BY DEF FindLinks, store
<1>3. JobTypes /\ job[j] \in JobRec
  BY BaseParts, JobFields
<1>4. CASE AfterRemoval(j)
  BY <1>1, <1>2, <1>3, <1>4, AfterRemovalPlain, HoldsNone, AccountedStill
<1>5. CASE /\ job' = [job EXCEPT ![j].todo = T] /\ Goto(j, "unlink")
           /\ left' = left \cup {link[u].event : u \in {v \in known : conn[v] = "DISCONNECTED"}}
  <2>1. pc'[j] = "unlink" /\ job'[j].todo = T
    BY <1>3, <1>5 DEF Goto, JobTypes, JobRec
  <2>2. ReadThere(j)'
    BY <2>1 DEF ReadThere, Applies
  <2>3. RemovesAll(j)'
    <3>. SUFFICES ASSUME NEW u \in User, link[u] # NoLink, IsLive(link[u].event)'
                  PROVE  link[u].event \in left' \/ <<u, link[u].event>> \in T
      BY <1>2, <2>1 DEF RemovesAll
    <3>1. link[u].event # NoEvent
      BY <1>2, NoneIsOther DEF IsLive, Used
    <3>2. u \in known
      BY <3>1 DEF Linked
    <3>. QED
      BY <1>5, <3>2
  <2>. QED
    BY <1>1, <1>2, <2>2, <2>3, AccountedStill
<1>. QED
  BY <1>2, <1>4, <1>5

\* The deletion of a remote event leaves no event unaccounted for.
LEMMA DeleteEventAccounted ==
    ASSUME Base, Accounted, NEW j \in Job, DeleteEvent(j)
    PROVE  Accounted'
<1>1. Acts(j) /\ EventsMove
  BY StepActs, DeleteEventBase DEF Step
<1>2. pc[j] = "unlink" /\ UNCHANGED <<link, pc>>
  BY DEF DeleteEvent
<1>3. PICK l \in job[j].todo :
        /\ job' = [job EXCEPT ![j].todo = @ \ {l}]
        /\ \/ IsLive(l[2]) /\ event' = [event EXCEPT ![l[2]] = Cancelled(l[2])]
           \/ left' = left \cup {l[2]} /\ UNCHANGED event
  BY DEF DeleteEvent
<1>. DEFINE e == l[2]
<1>4. l[1] \in User /\ e \in Events(l[1]) /\ l = <<l[1], e>>
  BY <1>2, RemoveFits DEF Removes
<1>5. JobTypes /\ StoreTypes /\ job[j] \in JobRec /\ e \in Event
  BY <1>4, BaseParts, JobFields DEF Events, Used
<1>6. pc'[j] = "unlink" /\ job'[j].todo = job[j].todo \ {l}
  BY <1>2, <1>3, <1>5 DEF JobTypes, JobRec
<1>7. Used' = Used /\ (e \in left' \/ ~event'[e].live)
  <2>1. CASE left' = left \cup {e} /\ UNCHANGED event
    BY <2>1, Still
  <2>2. CASE event' = [event EXCEPT ![e] = Cancelled(e)]
    <3>1. Cancelled(e) \in Remote /\ ~Cancelled(e).live
      BY <1>4, <1>5, CancelledRecord, BaseParts
    <3>2. Cancelled(e) # NoEvent /\ e \in Used
      BY <1>4, <3>1, NoneIsOther DEF Events
    <3>3. event'[e] = Cancelled(e)
      BY <1>5, <2>2 DEF StoreTypes
    <3>4. Used' = Used
      BY <1>5, <2>2, <3>2, <3>3 DEF Used, StoreTypes
    <3>. QED
      BY <3>1, <3>3, <3>4
  <2>. QED
    BY <1>3, <2>1, <2>2
<1>8. ReadThere(j)'
  BY <1>6 DEF ReadThere, Applies
<1>9. RemovesAll(j)'
  <2>. SUFFICES ASSUME NEW u \in User \ raced, link[u] # NoLink, link[u].event \in Used, event'[link[u].event].live
                PROVE  link[u].event \in left' \/ <<u, link[u].event>> \in job[j].todo \ {l}
    BY <1>1, <1>2, <1>6, <1>7 DEF RemovesAll, IsLive, Acts
  <2>1. IsLive(link[u].event)
    BY <1>1, LiveBefore
  <2>2. link[u].event \in left \/ <<u, link[u].event>> \in job[j].todo
    BY <1>2, <2>1 DEF Accounted, RemovesAll
  <2>3. left \subseteq left'
    BY <1>1 DEF Acts
  <2>4. <<u, link[u].event>> = l => link[u].event = e
    BY <1>4
  <2>. QED
    BY <1>7, <2>2, <2>3, <2>4
<1>. QED
  BY <1>1, <1>2, <1>7, <1>8, <1>9, AccountedOn

\* The deletion of the links leaves no event unaccounted for.
LEMMA DropLinksAccounted ==
    ASSUME Base, Accounted, NEW j \in Job, DropLinks(j)
    PROVE  Accounted'
<1>1. Acts(j)
  BY StepActs DEF Step
<1>2. pc[j] = "unlink" /\ job[j].todo = {} /\ UNCHANGED event /\ left' = left /\ AfterRemoval(j)
  BY DEF DropLinks, ghosts
<1>3. EventsMove /\ Used' = Used
  BY <1>2, Still
<1>4. ReadThere(j)' /\ RemovesAll(j)'
  BY <1>2, BaseParts, AfterRemovalPlain, HoldsNone
<1>5. \A u \in User \ raced : link[u] # NoLink /\ IsLive(link[u].event) => link[u].event \in left'
  BY <1>2 DEF Accounted, RemovesAll
<1>. QED
  BY <1>1, <1>2, <1>3, <1>4, <1>5, AccountedOn

\* Looking a change up by its event leaves no event unaccounted for.
LEMMA LookUpChangeAccounted ==
    ASSUME Base, Accounted, NEW j \in Job, LookUpChange(j)
    PROVE  Accounted'
<1>. DEFINE u == job[j].user
<1>1. Acts(j)
  BY StepActs DEF Step
<1>2. pc[j] = "apply" /\ UNCHANGED <<event, link>>
  BY DEF LookUpChange, store
<1>3. PICK x : \/ UNCHANGED pc
               \/ /\ job' = [job EXCEPT ![j] = [[job[j] EXCEPT !.todo = @ \ {x}] EXCEPT !.link = link[u], !.new = x[2]]]
                  /\ Goto(j, IF x[2].live THEN "task" ELSE "drop")
  BY DEF LookUpChange
<1>4. JobTypes /\ job[j] \in JobRec
  BY BaseParts, JobFields
<1>5. CASE UNCHANGED pc
  <2>1. pc'[j] = "apply"
    BY <1>2, <1>5
  <2>. QED
    BY <1>1, <1>2, <2>1, HoldsNone, AccountedStill
<1>6. CASE /\ job' = [job EXCEPT ![j] = [[job[j] EXCEPT !.todo = @ \ {x}] EXCEPT !.link = link[u], !.new = x[2]]]
           /\ Goto(j, IF x[2].live THEN "task" ELSE "drop")
  <2>1. pc'[j] \in {"task", "drop"} /\ job'[j].link = link[u] /\ job'[j].user = u
    BY <1>4, <1>6 DEF Goto, JobTypes, JobRec
  <2>2. ReadThere(j)' /\ RemovesAll(j)'
    BY <1>2, <2>1 DEF ReadThere, RemovesAll, Applies
  <2>. QED
    BY <1>1, <1>2, <2>2, AccountedStill
<1>. QED
  BY <1>3, <1>5, <1>6

\* Reading the task of a change, or moving it, leaves no event unaccounted for.
LEMMA ApplyAccounted ==
    ASSUME Base, Accounted, NEW j \in Job, ReadTask(j) \/ MoveTask(j)
    PROVE  Accounted'
<1>1. Acts(j)
  BY StepActs DEF Step
<1>2. /\ pc[j] \in Applies /\ UNCHANGED <<event, link, job>>
      /\ Goto(j, "drop") \/ Goto(j, "move") \/ Goto(j, "seen")
  BY DEF ReadTask, MoveTask, store, Applies
<1>3. pc'[j] \in Applies \cup {"drop"} /\ job'[j] = job[j]
  BY <1>2, BaseParts DEF Goto, JobTypes, Applies
<1>4. ReadThere(j)' /\ RemovesAll(j)'
  BY <1>1, <1>2, <1>3 DEF Accounted, ReadThere, RemovesAll, Applies, Acts
<1>. QED
  BY <1>1, <1>2, <1>4, AccountedStill DEF Applies

\* The deletion of a link leaves no event unaccounted for.
LEMMA UnlinkAccounted ==
    ASSUME Base, Accounted, NEW j \in Job, DropLink(j) \/ ForgetLinks(j)
    PROVE  Accounted'
<1>. DEFINE u == job[j].user
<1>1. Acts(j)
  BY StepActs DEF Step
<1>2. /\ pc[j] \in {"drop", "forget"} /\ UNCHANGED event /\ (End(j) \/ Goto(j, "apply"))
      /\ link' = link \/ (link' = [link EXCEPT ![u] = NoLink]
                          /\ (link[u] # NoLink => left' = left \cup ({link[u].event} \ {NoEvent})))
  BY DEF DropLink, ForgetLinks, IsThere
<1>3. u \in User /\ StoreTypes /\ JobTypes
  BY <1>2, PullHolds, ForgetFits, BaseParts DEF Pulls
<1>4. EventsMove /\ Used' = Used
  BY <1>2, Still
<1>5. pc'[j] \in {"ended", "apply"}
  BY <1>2, <1>3 DEF End, Goto, JobTypes
<1>6. \A v \in User : link[v] # NoLink /\ IsLive(link[v].event) =>
          link[v].event \in left' \/ link'[v] = link[v]
  <2>1. ~IsLive(NoEvent)
    BY NoneIsOther DEF IsLive, Used
  <2>. QED
    BY <1>2, <1>3, <2>1 DEF StoreTypes
<1>. QED
  BY <1>1, <1>2, <1>4, <1>5, <1>6, HoldsNone, AccountedOn

\* The mark that the change was seen leaves no event unaccounted for.
LEMMA MarkSeenAccounted ==
    ASSUME Base, Accounted, NEW j \in Job, MarkSeen(j)
    PROVE  Accounted'
<1>. DEFINE u == job[j].user
            l == [link[u] EXCEPT !.seen = job[j].new.rev]
<1>1. Acts(j)
  BY StepActs DEF Step
<1>2. /\ pc[j] = "seen" /\ UNCHANGED event /\ (End(j) \/ Goto(j, "apply"))
      /\ link' = link \/ (link[u] # NoLink /\ link' = [link EXCEPT ![u] = l])
  BY DEF MarkSeen, IsThere
<1>3. u \in User /\ StoreTypes /\ JobTypes /\ job[j].new \in Remote
  BY <1>2, PullHolds, BaseParts DEF Pulls, Applies, ReadAs
<1>4. EventsMove /\ Used' = Used
  BY <1>2, Still
<1>5. pc'[j] \in {"ended", "apply"}
  BY <1>2, <1>3 DEF End, Goto, JobTypes
<1>6. \A v \in User : link[v] # NoLink => link'[v] # NoLink /\ link'[v].event = link[v].event
  <2>1. CASE link[u] # NoLink /\ link' = [link EXCEPT ![u] = l]
    <3>1. link[u] \in Link /\ job[j].new.rev \in Nat
      BY <1>3, <2>1, LinksThere DEF Remote
    <3>2. l \in Link
      BY <3>1, LinkForms
    <3>3. l # NoLink
      BY <3>2, LinkFields
    <3>4. l.event = link[u].event
      BY <3>1 DEF Link
    <3>. HIDE DEF l
    <3>. QED
      BY <1>3, <2>1, <3>3, <3>4 DEF StoreTypes
  <2>. QED
    BY <1>2, <2>1
<1>. QED
  BY <1>1, <1>2, <1>4, <1>5, <1>6, HoldsNone, AccountedOn

\* A job that fails leaves no event unaccounted for.
LEMMA FailAccounted ==
    ASSUME Base, Accounted, NEW j \in Job, Fail(j)
    PROVE  Accounted'
<1>. DEFINE e == job[j].link.event
<1>1. Acts(j)
  BY StepActs
<1>2. /\ UNCHANGED <<link, event>> /\ End(j)
      /\ left' = IF pc[j] = "save" THEN left \cup ({e} \ {link[u].event : u \in Linked}) ELSE left
  BY DEF Fail, store
<1>3. EventsMove /\ Used' = Used
  BY <1>2, Still
<1>4. ReadThere(j)' /\ RemovesAll(j)'
  BY <1>2, BaseParts, Gone, HoldsNone
<1>5. ASSUME pc[j] = "save"
      PROVE  e \in left' \/ (link'[job[j].user] # NoLink /\ link'[job[j].user].event = e)
  <2>1. e # NoEvent /\ event[e].owner = job[j].user
    BY <1>5, SaveFits DEF Has
  <2>2. CASE e \notin {link[u].event : u \in Linked}
    BY <1>2, <1>5, <2>2
  <2>3. ASSUME NEW u \in Linked, link[u].event = e
        PROVE  link'[job[j].user] # NoLink /\ link'[job[j].user].event = e
    <3>1. u \in User /\ link[u] # NoLink
      BY DEF Linked
    <3>2. event[e].owner = u
      BY <2>1, <2>3, <3>1, LinksThere DEF Has
    <3>. QED
      BY <1>2, <2>1, <2>3, <3>1, <3>2
  <2>. QED
    BY <2>2, <2>3
<1>. QED
  BY <1>1, <1>2, <1>3, <1>4, <1>5, AccountedOn

\* A removal that fails leaves no event unaccounted for.
LEMMA FailRemovalAccounted ==
    ASSUME Base, Accounted, NEW j \in Job, FailRemoval(j)
    PROVE  Accounted'
<1>1. Acts(j)
  BY StepActs
<1>2. UNCHANGED <<link, event>> /\ (pc[j] = "links" \/ pc[j] = "unlink") /\ AfterRemoval(j)
  BY DEF FailRemoval, store
<1>. QED
  BY <1>1, <1>2, BaseParts, AfterRemovalPlain, HoldsNone, AccountedStill

\* The steps that are not those of a job that runs.
LEMMA StartAccounted ==
    ASSUME Base, Accounted, NEW j \in Job,
           (\E o \in Ops : StartTask(j, o)) \/ (\E u \in User : StartPull(j, u) \/ StartDisconnect(j, u))
    PROVE  Accounted'
<1>1. /\ UNCHANGED <<event, link, left>> /\ pc[j] = "idle"
  BY DEF StartTask, StartPull, StartDisconnect, store, CanStart
<1>2. EventsMove /\ Used' = Used
  BY <1>1, Still
<1>3. JobTypes
  BY BaseParts
<1>4. ASSUME NEW o \in Ops, StartTask(j, o)
      PROVE  OthersKept(j) /\ pc'[j] \in {"write", "find"} /\ RaceOthers(User) /\ Work(j)' \subseteq User
  <2>. DEFINE c == [Idle EXCEPT !.op = o[1], !.due = o[2], !.open = o[3], !.assignee = o[4],
                       !.old = task, !.new = IF o[1] = "sync" THEN task ELSE NoTask]
  <2>1. /\ job' = [job EXCEPT ![j] = c] /\ Goto(j, IF o[1] = "sync" THEN "find" ELSE "write")
        /\ RaceOthers(User) /\ o[1] \notin {"pull", "disconnect"}
    BY <1>4 DEF StartTask
  <2>2. c.op = o[1]
    BY DEF Idle
  <2>. HIDE DEF c
  <2>3. OthersKept(j) /\ pc'[j] \in {"write", "find"} /\ job'[j] = c
    BY <1>3, <2>1, Went
  <2>. QED
    BY <2>1, <2>2, <2>3 DEF Work, WorksFor
<1>5. ASSUME NEW u \in User, StartPull(j, u) \/ StartDisconnect(j, u)
      PROVE  OthersKept(j) /\ pc'[j] \in {"list", "forget"} /\ RaceOthers({u}) /\ Work(j)' \subseteq {u}
  <2>. DEFINE c(op, n) == [Idle EXCEPT !.op = op, !.user = u, !.upto = n]
              d == [Idle EXCEPT !.op = "disconnect", !.user = u]
  <2>1. /\ RaceOthers({u}) /\ (Goto(j, "list") \/ Goto(j, "forget"))
        /\ job' = [job EXCEPT ![j] = c("pull", token[u])] \/ job' = [job EXCEPT ![j] = d]
    BY <1>5 DEF StartPull, StartDisconnect
  <2>2. c("pull", token[u]).op = "pull" /\ c("pull", token[u]).user = u /\ d.op = "disconnect" /\ d.user = u
    BY DEF Idle
  <2>. HIDE DEF c, d
  <2>3. /\ OthersKept(j) /\ pc'[j] \in {"list", "forget"}
        /\ job'[j].op \in {"pull", "disconnect"} /\ job'[j].user = u
    BY <1>3, <2>1, <2>2, Went
  <2>. QED
    BY <2>1, <2>3 DEF Work, WorksFor
<1>6. PICK U : /\ OthersKept(j) /\ pc'[j] \in {"write", "find", "list", "forget"} /\ RaceOthers(U)
               /\ Work(j)' \subseteq U
  BY <1>4, <1>5
<1>7. Alone'
  BY <1>1, <1>6, StartsAlone DEF Accounted, InFlight
<1>8. raced \subseteq raced'
  BY <1>6 DEF RaceOthers
<1>. QED
  BY <1>1, <1>2, <1>6, <1>7, <1>8, AccountedElse DEF OthersKept, InFlight

\* A step of no job lets nobody race who does not say so.
LEMMA JobsAlone ==
    ASSUME Alone, UNCHANGED <<pc, job>>, raced \subseteq raced'
    PROVE  Alone'
<1>1. InFlight' = InFlight /\ \A k : Work(k)' = Work(k)
  BY DEF InFlight, Work
<1>2. \A k \in InFlight, l \in InFlight : k # l => Work(k)' \cap Work(l)' \subseteq raced'
  BY <1>1 DEF Alone
<1>. QED
  BY <1>1, <1>2 DEF Alone

\* What happens outside the jobs leaves no event unaccounted for.
LEMMA OutsideAccounted ==
    ASSUME Base, Accounted,
           (\E u \in User : Connect(u)) \/ (\E e \in Event : EditRemote(e)) \/ ArriveLate
    PROVE  Accounted'
<1>1. UNCHANGED <<link, pc, job>> /\ raced \subseteq raced' /\ left \subseteq left'
  BY DEF Connect, EditRemote, ArriveLate, store, ghosts, RaceOthers
<1>2. Alone' /\ \A k \in Job : Kept(k)
  BY <1>1, JobsAlone DEF Accounted, Kept
<1>3. EventsMove
  BY EventsStep DEF Next
<1>4. \A e \in Used' \ Used : e \in left'
  <2>1. CASE \E u \in User : Connect(u)
    <3>1. UNCHANGED event
      BY <2>1 DEF Connect
    <3>. QED
      BY <3>1, Still
  <2>2. ASSUME NEW f \in Event, EditRemote(f) PROVE Used' \subseteq Used
    <3>1. PICK r : event' = [event EXCEPT ![f] = r] /\ f \in Used
      BY <2>2 DEF EditRemote, IsLive
    <3>. QED
      BY <3>1, BaseParts DEF Used, StoreTypes
  <2>3. CASE ArriveLate
    <3>1. PICK f, r : /\ event' = event \/ event' = [event EXCEPT ![f] = r]
                      /\ f \in Used \/ left' = left \cup {f} \/ event' = event
      BY <2>3 DEF ArriveLate, IsLive
    <3>. QED
      BY <3>1, BaseParts DEF Used, StoreTypes
  <2>. QED
    BY <2>1, <2>2, <2>3
<1>. QED
  BY <1>1, <1>2, <1>3, <1>4, AccountedElse

\* There are no events at first.
LEMMA AccountedInit == Init => Accounted
<1>. SUFFICES ASSUME Init PROVE Accounted
  OBVIOUS
<1>1. InFlight = {} /\ \A e \in Event : event[e] = NoEvent
  BY DEF Init, InFlight
<1>2. \A j \in Job : pc[j] = "idle"
  BY DEF Init
<1>. QED
  BY <1>1, <1>2 DEF Accounted, Alone, ReadThere, RemovesAll, EventsAccounted, IsLive, Used, Applies

\* Every step accounts for the events it makes or lets go of.
LEMMA AccountedStep == Base /\ Accounted /\ [Next]_vars => Accounted'
<1>. SUFFICES ASSUME Base, Accounted, [Next]_vars PROVE Accounted'
  OBVIOUS
<1>1. ASSUME NEW j \in Job,
             (\E o \in Ops : StartTask(j, o)) \/ (\E u \in User : StartPull(j, u) \/ StartDisconnect(j, u))
      PROVE  Accounted'
  BY <1>1, StartAccounted
<1>2. ASSUME NEW j \in Job, Step(j) PROVE Accounted'
  BY <1>2, PlainAccounted, UpsertLinkAccounted, PushNewAccounted, PushKnownAccounted, SaveLinkAccounted,
     RecordPushFailureAccounted, FindLinksAccounted, DeleteEventAccounted, DropLinksAccounted,
     LookUpChangeAccounted, ApplyAccounted, UnlinkAccounted, MarkSeenAccounted DEF Step
<1>3. ASSUME NEW j \in Job, FailRemoval(j) \/ Fail(j) PROVE Accounted'
  BY <1>3, FailRemovalAccounted, FailAccounted
<1>4. CASE (\E u \in User : Connect(u)) \/ (\E e \in Event : EditRemote(e)) \/ ArriveLate
  BY <1>4, OutsideAccounted
<1>5. CASE UNCHANGED vars
  <2>1. UNCHANGED <<event, link, pc, job, raced, left>>
    BY <1>5 DEF vars
  <2>2. EventsMove /\ Used' = Used
    BY <2>1, Still
  <2>3. Alone' /\ \A k \in Job : Kept(k)
    BY <2>1, JobsAlone DEF Accounted, Kept
  <2>. QED
    BY <2>1, <2>2, <2>3, AccountedElse
<1>. QED
  BY <1>1, <1>2, <1>3, <1>4, <1>5 DEF Next

\* Jobs that do not race keep each other's links, and no event of the task is
\* left in a calendar unless a known fault put it there.
THEOREM EventsAccountedHolds == Spec => []EventsAccounted
<1>1. Accounted => EventsAccounted
  BY DEF Accounted
<1>. QED
  BY <1>1, BaseHolds, AccountedInit, AccountedStep, PTL DEF Spec

----------------------------------------------------------------------------
(* No change is lost *)

\* What Misses says of the state after a step.
MissesThen(u, n) ==
    /\ link'[u] # NoLink /\ link'[u].event \in Used' /\ event'[link'[u].event].live
    /\ event'[link'[u].event].rev <= n /\ event'[link'[u].event].rev > link'[u].seen

\* What is missed after a step that leaves the link alone was missed before:
\* new changes are behind all that a token or a pull knows.
LEMMA MissesStill ==
    ASSUME Base, EventsMove, EventTypes', NEW u \in User, NEW n \in Nat, n <= Latest(u),
           link'[u] = link[u], MissesThen(u, n)
    PROVE  Misses(u, n) /\ event'[link[u].event] = event[link[u].event]
<1>. DEFINE e == link[u].event
<1>1. link[u] # NoLink /\ e \in Used' /\ event'[e].live /\ event'[e].rev <= n /\ event'[e].rev > link[u].seen
  BY DEF MissesThen
<1>2. e # NoEvent
  BY <1>1, NoneIsOther DEF Used
<1>3. e \in Used /\ event[e].owner = u /\ Latest(u) \in Nat
  BY <1>1, <1>2, LinksThere DEF Has
<1>4. event[e].rev \in Nat /\ event'[e].rev \in Nat
  BY <1>3, BaseParts, EventKept DEF Events
<1>5. event'[e] = event[e]
  <2>1. event'[e] = event[e] \/ event'[e].rev > Latest(u)
    BY <1>3 DEF EventsMove
  <2>2. ~(event'[e].rev > Latest(u))
    BY <1>1, <1>3, <1>4
  <2>. QED
    BY <2>1, <2>2
<1>. QED
  BY <1>1, <1>3, <1>5 DEF Misses, IsLive

\* A pull is at a step of a pull.
LEMMA PullSteps ==
    ASSUME Base, NEW k \in Job, job[k].op = "pull"
    PROVE  pc[k] \in Pulls /\ k \in InFlight
<1>1. pc[k] \in StepsOf(job[k].op)
  BY BaseParts DEF Fits
<1>. QED
  BY <1>1 DEF StepsOf, Pulls, Applies, Handlers, Writes, InFlight

\* A job that takes no step still covers what it covered.
LEMMA CoversKept ==
    ASSUME Base, EventsMove, EventTypes', NEW k \in Job, Kept(k), PullCovers(k), SaveCovers(k),
           raced \subseteq raced',
           k \in InFlight => \A u \in User : u \in Work(k) /\ u \notin raced' => link'[u] = link[u] /\ token'[u] = token[u]
    PROVE  PullCovers(k)' /\ SaveCovers(k)'
<1>. DEFINE c == job[k]
<1>1. pc'[k] = pc[k] /\ job'[k] = c
  BY DEF Kept
<1>2. PullCovers(k)'
  <2>. SUFFICES ASSUME c.op = "pull", c.user \notin raced'
                PROVE  PullCovers(k)'
    BY <1>1 DEF PullCovers
  <2>. DEFINE u == c.user
  <2>1. pc[k] \in Pulls /\ k \in InFlight
    BY PullSteps
  <2>2. u \in User /\ c.upto \in Nat /\ c.upto <= Latest(u) /\ u \in Work(k)
    BY <2>1, PullHolds, Works
  <2>3. link'[u] = link[u] /\ token'[u] = token[u] /\ u \notin raced
    BY <2>1, <2>2
  <2>4. CASE pc[k] = "list"
    BY <1>1, <2>3, <2>4 DEF PullCovers
  <2>5. CASE pc[k] # "list"
    <3>1. MissesThen(u, c.upto) => Misses(u, c.upto) /\ event'[link[u].event] = event[link[u].event]
      BY <2>2, <2>3, MissesStill
    <3>2. Misses(u, c.upto) => InHand(k, link[u].event)
      BY <2>3, <2>5 DEF PullCovers
    <3>3. MissesThen(u, c.upto) =>
            \/ <<link[u].event, event'[link[u].event]>> \in c.todo
            \/ pc[k] \in Applies \cup {"drop"} /\ c.new = event'[link[u].event]
      BY <3>1, <3>2 DEF InHand
    <3>. QED
      BY <1>1, <2>3, <2>5, <3>3 DEF PullCovers, Misses, MissesThen, IsLive, InHand
  <2>. QED
    BY <2>4, <2>5
<1>3. SaveCovers(k)'
  <2>. DEFINE u == c.user
              e == c.link.event
  <2>. SUFFICES ASSUME pc[k] = "save", u \notin raced', event'[e].rev <= token'[u]
                PROVE  event'[e].rev <= c.upto
    BY <1>1 DEF SaveCovers
  <2>1. k \in InFlight /\ job[k].op \in Handlers
    BY PushFits DEF InFlight, Pushes
  <2>2. u \in User /\ e \in Events(u)
    BY SaveFits DEF Has, Events
  <2>3. u \in Work(k)
    BY <2>1, <2>2, Works
  <2>4. token'[u] = token[u] /\ u \notin raced
    BY <2>1, <2>2, <2>3
  <2>5. token[u] \in Nat /\ token[u] <= Latest(u) /\ Latest(u) \in Nat
    BY <2>2, BaseParts, LatestIs DEF StoreTypes, InPast
  <2>6. event'[e].rev \in Nat /\ (event'[e] = event[e] \/ event'[e].rev > Latest(u))
    BY <2>2, BaseParts, EventKept DEF EventsMove, Events
  <2>. HIDE DEF e, u
  <2>7. event'[e] = event[e]
    BY <2>4, <2>5, <2>6
  <2>. QED
    BY <2>4, <2>7 DEF SaveCovers, e, u
<1>. QED
  BY <1>2, <1>3

\* What a step has to do for the jobs that change and for the users whose link
\* or token changes.
LEMMA CoveringBy ==
    ASSUME Base, Base', Covering, EventsMove, raced \subseteq raced',
           \A k \in Job : \/ PullCovers(k)' /\ SaveCovers(k)'
                          \/ /\ Kept(k)
                             /\ k \in InFlight =>
                                    \A u \in User : u \in Work(k) /\ u \notin raced' =>
                                        link'[u] = link[u] /\ token'[u] = token[u],
           \A u \in User : u \notin raced' =>
                (link'[u] = link[u] /\ token'[u] = token[u]) \/ ~MissesThen(u, token'[u])
    PROVE  Covering'
<1>1. EventTypes'
  BY DEF Base, Store, StoreTypes, EventTypes
<1>2. \A k \in Job : PullCovers(k)' /\ SaveCovers(k)'
  BY <1>1, CoversKept DEF Covering
<1>3. ASSUME NEW u \in User, u \notin raced' PROVE ~MissesThen(u, token'[u])
  <2>1. CASE link'[u] = link[u] /\ token'[u] = token[u]
    <3>1. token[u] \in Nat /\ token[u] <= Latest(u)
      BY BaseParts DEF StoreTypes, InPast
    <3>2. ~Misses(u, token[u])
      BY <1>3 DEF Covering
    <3>. QED
      BY <1>1, <2>1, <3>1, <3>2, MissesStill
  <2>. QED
    BY <1>3, <2>1
<1>. QED
  BY <1>2, <1>3 DEF Covering, Misses, MissesThen, IsLive

\* The same for a step of a job.
LEMMA CoveringOn ==
    ASSUME Base, Base', Accounted, Covering, EventsMove, NEW j \in Job, Acts(j),
           PullCovers(j)', SaveCovers(j)',
           \A u \in User : u \notin raced =>
                (link'[u] = link[u] /\ token'[u] = token[u]) \/ ~MissesThen(u, token'[u])
    PROVE  Covering'
<1>1. raced' = raced /\ OthersKept(j)
  BY DEF Acts
<1>2. \A k \in Job : k # j /\ k \in InFlight =>
        \A u \in User : u \in Work(k) /\ u \notin raced' => link'[u] = link[u] /\ token'[u] = token[u]
  BY StaysAlone DEF Accounted
<1>3. \A k \in Job : \/ PullCovers(k)' /\ SaveCovers(k)'
                     \/ /\ Kept(k)
                        /\ k \in InFlight =>
                               \A u \in User : u \in Work(k) /\ u \notin raced' =>
                                   link'[u] = link[u] /\ token'[u] = token[u]
  BY <1>1, <1>2 DEF OthersKept
<1>. QED
  BY <1>1, <1>3, CoveringBy

\* A job that is neither a pull nor about to save a link covers nothing.
LEMMA CoversNone ==
    ASSUME Base', NEW j \in Job, pc'[j] \notin Pulls \cup {"save"}
    PROVE  PullCovers(j)' /\ SaveCovers(j)'
<1>1. pc'[j] \in StepsOf(job'[j].op)
  BY DEF Base, Fits
<1>2. job'[j].op # "pull"
  BY <1>1 DEF StepsOf, Pulls, Applies, Handlers, Writes
<1>. QED
  BY <1>2 DEF PullCovers, SaveCovers

\* Where a handler goes that has not found its connection.
LEMMA PlainNext ==
    ASSUME Base, NEW j \in Job, WriteTask(j) \/ Reread(j) \/ FindConnection(j)
    PROVE  pc'[j] \in {"ended", "reread", "find", "upsert", "links"}
<1>1. JobTypes /\ Fits(j)
  BY BaseParts
<1>2. CASE WriteTask(j)
  BY <1>1, <1>2 DEF WriteTask, End, Goto, JobTypes
<1>3. CASE Reread(j)
  <2>1. job[j].op \in Writes /\ job[j].op # "delete"
    BY <1>1, <1>3, StepsFit DEF Fits, HandlerFits, Reread
  <2>2. Hook(job[j], task) \in {"find", "links", "ended"}
    BY <2>1 DEF Hook, Writes
  <2>. QED
    BY <1>1, <1>3, <2>2 DEF Reread, End, Goto, JobTypes
<1>4. CASE FindConnection(j)
  BY <1>1, <1>4 DEF FindConnection, End, Goto, JobTypes
<1>. QED
  BY <1>2, <1>3, <1>4

\* The steps that change neither links nor tokens, and cover nothing.
LEMMA PlainCovering ==
    ASSUME Base, Base', Accounted, Covering, NEW j \in Job, EventsMove,
           \/ WriteTask(j) \/ Reread(j) \/ FindConnection(j) \/ FindLinks(j) \/ DeleteEvent(j)
           \/ FailRemoval(j) \/ Fail(j)
    PROVE  Covering'
<1>1. Acts(j)
  BY StepActs DEF Step
<1>2. UNCHANGED <<link, token>>
  BY DEF WriteTask, Reread, FindConnection, FindLinks, DeleteEvent, FailRemoval, Fail, store
<1>3. pc'[j] \notin Pulls \cup {"save"}
  <2>1. CASE FindLinks(j)
    BY <2>1, BaseParts, AfterRemovalPlain DEF FindLinks, Goto, JobTypes, Pulls, Applies
  <2>2. CASE DeleteEvent(j)
    BY <2>2 DEF DeleteEvent, Pulls, Applies
  <2>3. CASE Fail(j)
    BY <2>3, BaseParts, Gone DEF Fail, Pulls, Applies
  <2>4. CASE FailRemoval(j)
    BY <2>4, BaseParts, AfterRemovalPlain DEF FailRemoval, Pulls, Applies
  <2>. QED
    BY <2>1, <2>2, <2>3, <2>4, PlainNext DEF Pulls, Applies
<1>. QED
  BY <1>1, <1>2, <1>3, CoversNone, CoveringOn

\* The link row that is found or made loses no change.
LEMMA UpsertLinkCovering ==
    ASSUME Base, Base', Accounted, Covering, NEW j \in Job, UpsertLink(j)
    PROVE  Covering'
<1>. DEFINE u == job[j].user
            new == [id |-> j, event |-> NoEvent, status |-> "PENDING", seen |-> 0]
<1>1. Acts(j)
  BY StepActs DEF Step
<1>2. /\ UNCHANGED <<token, event>> /\ Goto(j, "push")
      /\ link' = link \/ link' = [link EXCEPT ![u] = new]
  BY DEF UpsertLink
<1>3. EventsMove /\ Used' = Used /\ JobTypes /\ StoreTypes
  BY <1>2, Still, BaseParts
<1>4. pc'[j] \notin Pulls \cup {"save"}
  BY <1>2, <1>3 DEF Goto, JobTypes, Pulls, Applies
<1>5. NoEvent \notin Used'
  BY NoneIsOther DEF Used
<1>6. \A v \in User : link'[v] = link[v] \/ ~MissesThen(v, token'[v])
  BY <1>2, <1>3, <1>5 DEF StoreTypes, MissesThen
<1>. QED
  BY <1>1, <1>2, <1>3, <1>4, <1>6, CoversNone, CoveringOn

\* A call of the provider for a push loses no change.
LEMMA PushCovering ==
    ASSUME Base, Base', Accounted, Covering, NEW j \in Job, PushNew(j) \/ PushKnown(j)
    PROVE  Covering'
<1>1. Acts(j) /\ EventsMove
  BY StepActs, PushNewBase, PushKnownBase DEF Step
<1>2. UNCHANGED <<link, token>>
  BY DEF PushNew, PushKnown
<1>3. JobTypes /\ job[j] \in JobRec
  BY BaseParts, JobFields
<1>4. pc'[j] = "failed" \/ (pc'[j] = "save" /\ job'[j].upto = event'[job'[j].link.event].rev)
  <2>1. CASE PushNew(j)
    <3>1. pc[j] = "push"
      BY <2>1 DEF PushNew
    <3>2. job[j].link \in [id : Job, event : Event \cup {NoEvent}, status : {"PENDING", "FAILED", "SYNCED"}, seen : Nat]
      BY <3>1, PushFits DEF Link, Pushes
    <3>3. \/ Goto(j, "failed")
          \/ \E e : Goto(j, "save") /\ job' = [job EXCEPT ![j].link.event = e, ![j].upto = event'[e].rev]
      BY <2>1 DEF PushNew
    <3>4. ASSUME NEW e, Goto(j, "save"), job' = [job EXCEPT ![j].link.event = e, ![j].upto = event'[e].rev]
          PROVE  pc'[j] = "save" /\ job'[j].upto = event'[job'[j].link.event].rev
      <4>1. job'[j].upto = event'[e].rev /\ job'[j].link = [job[j].link EXCEPT !.event = e]
        BY <1>3, <3>4 DEF JobTypes, JobRec
      <4>2. job'[j].link.event = e
        BY <3>2, <4>1
      <4>. QED
        BY <1>3, <3>4, <4>1, <4>2 DEF Goto, JobTypes
    <3>. QED
      BY <1>3, <3>3, <3>4 DEF Goto, JobTypes
  <2>2. CASE PushKnown(j)
    <3>1. \/ Goto(j, "failed")
          \/ Goto(j, "save") /\ job' = [job EXCEPT ![j].upto = event'[job[j].link.event].rev]
      BY <2>2 DEF PushKnown
    <3>. QED
      BY <1>3, <3>1 DEF Goto, JobTypes, JobRec
  <2>. QED
    BY <2>1, <2>2
<1>5. CASE pc'[j] = "failed"
  <2>1. pc'[j] \notin Pulls \cup {"save"}
    BY <1>5 DEF Pulls, Applies
  <2>. QED
    BY <1>1, <1>2, <2>1, CoversNone, CoveringOn
<1>6. CASE pc'[j] = "save" /\ job'[j].upto = event'[job'[j].link.event].rev
  <2>1. job'[j].upto \in Nat
    BY DEF Base, JobTypes, JobRec
  <2>2. SaveCovers(j)'
    BY <1>6, <2>1 DEF SaveCovers
  <2>3. pc'[j] \in StepsOf(job'[j].op)
    BY DEF Base, Fits
  <2>4. PullCovers(j)'
    BY <1>6, <2>3 DEF PullCovers, StepsOf, Applies, Handlers, Writes
  <2>. QED
    BY <1>1, <1>2, <2>2, <2>4, CoveringOn
<1>. QED
  BY <1>4, <1>5, <1>6

\* The link that is written after a push loses no change.
LEMMA SaveLinkCovering ==
    ASSUME Base, Base', Accounted, Covering, NEW j \in Job, SaveLink(j)
    PROVE  Covering'
<1>. DEFINE u == job[j].user
            e == job[j].link.event
            l == Saved(job[j])
<1>1. Acts(j)
  BY StepActs DEF Step
<1>2. /\ pc[j] = "save" /\ UNCHANGED <<token, event>> /\ (Goto(j, "failed") \/ End(j))
      /\ link' = link \/ link' = [link EXCEPT ![u] = l]
  BY DEF SaveLink
<1>3. EventsMove /\ Used' = Used /\ JobTypes /\ StoreTypes
  BY <1>2, Still, BaseParts
<1>4. pc'[j] \notin Pulls \cup {"save"}
  BY <1>2, <1>3 DEF End, Goto, JobTypes, Pulls, Applies
<1>5. /\ l.event = e /\ l.seen = job[j].upto /\ job[j].upto \in Nat /\ event[e].rev \in Nat /\ u \in User
      /\ token[u] \in Nat
  BY <1>2, <1>3, SavedTyped, SaveFits DEF StoreTypes
<1>6. u \notin raced => (event[e].rev <= token[u] => event[e].rev <= job[j].upto)
  BY <1>2 DEF Covering, SaveCovers
<1>. HIDE DEF l, e
<1>7. \A v \in User : v \notin raced => link'[v] = link[v] \/ ~MissesThen(v, token'[v])
  <2>. SUFFICES ASSUME NEW v \in User, v \notin raced, link'[v] # link[v], MissesThen(v, token'[v])
                PROVE  FALSE
    OBVIOUS
  <2>1. v = u /\ link'[u] = l
    BY <1>2, <1>3 DEF StoreTypes
  <2>2. event[e].rev <= token[u] /\ event[e].rev > job[j].upto
    BY <1>2, <1>5, <2>1 DEF MissesThen
  <2>. QED
    BY <1>5, <1>6, <2>1, <2>2
<1>. QED
  BY <1>1, <1>2, <1>3, <1>4, <1>7, CoversNone, CoveringOn

\* The link that is marked as failed loses no change.
LEMMA RecordPushFailureCovering ==
    ASSUME Base, Base', Accounted, Covering, NEW j \in Job, RecordPushFailure(j)
    PROVE  Covering'
<1>. DEFINE u == job[j].user
            l == [link[u] EXCEPT !.status = "FAILED"]
<1>1. Acts(j)
  BY StepActs DEF Step
<1>2. /\ pc[j] = "failed" /\ UNCHANGED <<token, event>> /\ End(j)
      /\ link' = link \/ (link[u] # NoLink /\ link' = [link EXCEPT ![u] = l])
  BY DEF RecordPushFailure, IsThere
<1>3. EventsMove /\ Used' = Used /\ JobTypes /\ StoreTypes
  BY <1>2, Still, BaseParts
<1>4. pc'[j] \notin Pulls \cup {"save"}
  BY <1>2, <1>3 DEF End, Goto, JobTypes, Pulls, Applies
<1>5. u \in User
  BY <1>2, PushFits DEF Pushes
<1>6. \A v \in User : v \notin raced => link'[v] = link[v] \/ ~MissesThen(v, token'[v])
  <2>. SUFFICES ASSUME NEW v \in User, v \notin raced, link'[v] # link[v], MissesThen(v, token'[v])
                PROVE  FALSE
    OBVIOUS
  <2>1. v = u /\ link'[u] = l /\ link[u] \in Link
    BY <1>2, <1>3, <1>5, LinksThere DEF StoreTypes
  <2>2. link'[u].event = link[u].event /\ link'[u].seen = link[u].seen /\ link[u] # NoLink
    BY <2>1, LinkFields DEF Link
  <2>. HIDE DEF l
  <2>3. Misses(u, token[u])
    BY <1>2, <1>3, <2>1, <2>2 DEF MissesThen, Misses, IsLive
  <2>. QED
    BY <2>1, <2>3 DEF Covering
<1>. QED
  BY <1>1, <1>2, <1>3, <1>4, <1>6, CoversNone, CoveringOn

\* The deletion of the links loses no change.
LEMMA DropLinksCovering ==
    ASSUME Base, Base', Accounted, Covering, NEW j \in Job, DropLinks(j)
    PROVE  Covering'
<1>1. Acts(j)
  BY StepActs DEF Step
<1>2. UNCHANGED <<token, event>> /\ AfterRemoval(j) /\ \A v \in User : link'[v] = NoLink
  BY DEF DropLinks
<1>3. EventsMove
  BY <1>2, Still
<1>4. pc'[j] \notin Pulls \cup {"save"}
  BY <1>2, BaseParts, AfterRemovalPlain DEF Pulls, Applies
<1>5. \A v \in User : ~MissesThen(v, token'[v])
  BY <1>2 DEF MissesThen
<1>. QED
  BY <1>1, <1>3, <1>4, <1>5, CoversNone, CoveringOn

\* Forgetting the link of a connection loses no change.
LEMMA ForgetLinksCovering ==
    ASSUME Base, Base', Accounted, Covering, NEW j \in Job, ForgetLinks(j)
    PROVE  Covering'
<1>1. Acts(j)
  BY StepActs DEF Step
<1>2. UNCHANGED <<token, event>> /\ End(j) /\ link' = [link EXCEPT ![job[j].user] = NoLink]
  BY DEF ForgetLinks
<1>3. EventsMove /\ JobTypes /\ StoreTypes
  BY <1>2, Still, BaseParts
<1>4. pc'[j] \notin Pulls \cup {"save"}
  BY <1>2, <1>3 DEF End, Goto, JobTypes, Pulls, Applies
<1>5. \A v \in User : link'[v] = link[v] \/ ~MissesThen(v, token'[v])
  BY <1>2, <1>3 DEF MissesThen, StoreTypes
<1>. QED
  BY <1>1, <1>2, <1>3, <1>4, <1>5, CoversNone, CoveringOn

\* A pull that ends, covering nothing more.
LEMMA ListChangesCovering ==
    ASSUME Base, Base', Accounted, Covering, NEW j \in Job, ListChanges(j)
    PROVE  Covering'
<1>. DEFINE u == job[j].user
            T == {<<e, event[e]>> : e \in Changes(u, job[j].upto)}
<1>1. Acts(j)
  BY StepActs DEF Step
<1>2. /\ pc[j] = "list" /\ UNCHANGED <<event, link>>
      /\ \/ job' = [job EXCEPT ![j].todo = T, ![j].upto = Latest(u)] /\ Goto(j, "apply") /\ UNCHANGED token
         \/ token' = [token EXCEPT ![u] = 0] /\ job' = [job EXCEPT ![j].upto = 0] /\ UNCHANGED pc
         \/ End(j) /\ UNCHANGED token
  BY DEF ListChanges
<1>3. EventsMove /\ Used' = Used /\ JobTypes /\ StoreTypes /\ InPast /\ job[j] \in JobRec
  BY <1>2, Still, BaseParts, JobFields
<1>4. u \in User /\ job[j].op = "pull" /\ raced' = raced /\ job[j].upto \in Nat
  BY <1>1, <1>2, PullHolds DEF Pulls, Acts
<1>5. CASE End(j) /\ UNCHANGED token
  <2>1. pc'[j] \notin Pulls \cup {"save"}
    BY <1>3, <1>5, Gone DEF Pulls, Applies
  <2>. QED
    BY <1>1, <1>2, <1>3, <1>5, <2>1, CoversNone, CoveringOn
<1>6. CASE token' = [token EXCEPT ![u] = 0] /\ job' = [job EXCEPT ![j].upto = 0] /\ UNCHANGED pc
  <2>1. pc'[j] = "list" /\ job'[j].upto = 0 /\ job'[j].user = u /\ token'[u] = 0
    BY <1>2, <1>3, <1>4, <1>6 DEF JobTypes, JobRec, StoreTypes
  <2>2. PullCovers(j)' /\ SaveCovers(j)'
    BY <2>1 DEF PullCovers, SaveCovers
  <2>3. \A v \in User : token'[v] = token[v] \/ token'[v] = 0
    BY <1>3, <1>6 DEF StoreTypes
  <2>4. \A v \in User : ~MissesThen(v, 0)
    <3>. SUFFICES ASSUME NEW v \in User, MissesThen(v, 0) PROVE FALSE
      OBVIOUS
    <3>1. link[v].event \in Used /\ event[link[v].event].rev <= 0
      BY <1>2, <1>3 DEF MissesThen
    <3>2. event[link[v].event].rev \in Nat /\ event[link[v].event].rev # 0
      BY <1>3, <3>1, UsedRecords DEF InPast
    <3>. QED
      BY <3>1, <3>2
  <2>5. \A v \in User : v \notin raced =>
            (link'[v] = link[v] /\ token'[v] = token[v]) \/ ~MissesThen(v, token'[v])
    BY <1>2, <2>3, <2>4
  <2>. QED
    BY <1>1, <1>3, <2>2, <2>5, CoveringOn
<1>7. CASE job' = [job EXCEPT ![j].todo = T, ![j].upto = Latest(u)] /\ Goto(j, "apply") /\ UNCHANGED token
  <2>1. pc'[j] = "apply" /\ job'[j].todo = T /\ job'[j].upto = Latest(u) /\ job'[j].user = u
    BY <1>3, <1>7 DEF JobTypes, JobRec, Goto
  <2>2. SaveCovers(j)'
    BY <2>1 DEF SaveCovers
  <2>3. PullCovers(j)'
    <3>. DEFINE e == link[u].event
    <3>. SUFFICES ASSUME u \notin raced, link[u] # NoLink, e \in Used, event[e].live,
                         event[e].rev > link[u].seen
                  PROVE  <<e, event[e]>> \in T
      BY <1>2, <1>3, <1>4, <2>1 DEF PullCovers, Misses, IsLive, InHand
    <3>1. job[j].upto = token[u]
      BY <1>2, <1>4 DEF Covering, PullCovers
    <3>2. ~(event[e].rev <= token[u])
      BY <1>4 DEF Covering, Misses, IsLive
    <3>3. event[e].rev \in Nat /\ token[u] \in Nat /\ e \in Events(u)
      BY <1>3, <1>4, UsedRecords, LinksThere, NoneIsOther DEF StoreTypes, Has, Events, Used
    <3>4. e \in Changes(u, job[j].upto)
      BY <3>1, <3>2, <3>3 DEF Changes
    <3>. QED
      BY <3>4
  <2>. QED
    BY <1>1, <1>2, <1>3, <1>7, <2>2, <2>3, CoveringOn
<1>. QED
  BY <1>2, <1>5, <1>6, <1>7

\* Looking a change up by its event loses no change.
LEMMA LookUpChangeCovering ==
    ASSUME Base, Base', Accounted, Covering, NEW j \in Job, LookUpChange(j)
    PROVE  Covering'
<1>. DEFINE u == job[j].user
            e == link[u].event
<1>1. Acts(j)
  BY StepActs DEF Step
<1>2. pc[j] = "apply" /\ UNCHANGED <<event, link, token>>
  BY DEF LookUpChange, store
<1>3. PICK x \in job[j].todo :
        \/ /\ ~(link[u] # NoLink /\ link[u].event = x[1] /\ (x[2].live => Newer(x[2], link[u])))
           /\ job' = [job EXCEPT ![j] = [job[j] EXCEPT !.todo = @ \ {x}]] /\ UNCHANGED pc
        \/ /\ link[u].event = x[1]
           /\ job' = [job EXCEPT ![j] = [[job[j] EXCEPT !.todo = @ \ {x}] EXCEPT !.link = link[u], !.new = x[2]]]
           /\ Goto(j, IF x[2].live THEN "task" ELSE "drop")
  BY DEF LookUpChange
<1>4. EventsMove /\ Used' = Used /\ JobTypes /\ StoreTypes /\ job[j] \in JobRec
  BY <1>2, Still, BaseParts, JobFields
<1>5. /\ u \in User /\ job[j].op = "pull" /\ raced' = raced
      /\ x \in Event \X Remote
  BY <1>1, <1>2, PullHolds DEF Pulls, Acts
<1>6. u \notin raced /\ Misses(u, job[j].upto) => <<e, event[e]>> \in job[j].todo
  BY <1>2, <1>5 DEF Covering, PullCovers, InHand, Applies
<1>7. /\ pc'[j] \in {"apply", "task", "drop"} /\ job'[j].user = u /\ job'[j].upto = job[j].upto
      /\ job'[j].todo = job[j].todo \ {x}
      /\ pc'[j] = "apply" => ~(link[u] # NoLink /\ link[u].event = x[1] /\ (x[2].live => Newer(x[2], link[u])))
      /\ pc'[j] # "apply" => job'[j].new = x[2] /\ link[u].event = x[1]
  <2>1. CASE /\ ~(link[u] # NoLink /\ link[u].event = x[1] /\ (x[2].live => Newer(x[2], link[u])))
             /\ job' = [job EXCEPT ![j] = [job[j] EXCEPT !.todo = @ \ {x}]] /\ UNCHANGED pc
    BY <1>2, <1>4, <2>1 DEF JobTypes, JobRec
  <2>2. CASE /\ link[u].event = x[1]
             /\ job' = [job EXCEPT ![j] = [[job[j] EXCEPT !.todo = @ \ {x}] EXCEPT !.link = link[u], !.new = x[2]]]
             /\ Goto(j, IF x[2].live THEN "task" ELSE "drop")
    BY <1>4, <2>2 DEF JobTypes, JobRec, Goto
  <2>. QED
    BY <1>3, <2>1, <2>2
<1>8. SaveCovers(j)'
  BY <1>7 DEF SaveCovers
<1>9. PullCovers(j)'
  <2>. SUFFICES ASSUME u \notin raced, Misses(u, job[j].upto)
                PROVE  \/ <<e, event[e]>> \in job[j].todo \ {x}
                       \/ pc'[j] \in Applies \cup {"drop"} /\ job'[j].new = event[e]
    BY <1>2, <1>4, <1>5, <1>7 DEF PullCovers, Misses, IsLive, InHand
  <2>1. <<e, event[e]>> \in job[j].todo
    BY <1>6
  <2>2. CASE x = <<e, event[e]>>
    <3>1. x[1] = e /\ x[2] = event[e]
      BY <2>2
    <3>2. link[u] # NoLink /\ event[e].live /\ event[e].rev > link[u].seen
      BY DEF Misses, IsLive
    <3>3. Newer(x[2], link[u])
      BY <3>1, <3>2 DEF Newer
    <3>. QED
      BY <1>7, <3>1, <3>2, <3>3 DEF Applies
  <2>. QED
    BY <2>1, <2>2
<1>. QED
  BY <1>1, <1>2, <1>4, <1>8, <1>9, CoveringOn

\* Reading the task of a change, or moving it, loses no change.
LEMMA ApplyCovering ==
    ASSUME Base, Base', Accounted, Covering, NEW j \in Job, ReadTask(j) \/ MoveTask(j)
    PROVE  Covering'
<1>1. Acts(j)
  BY StepActs DEF Step
<1>2. /\ pc[j] \in Applies /\ UNCHANGED <<event, link, token, job>>
      /\ Goto(j, "drop") \/ Goto(j, "move") \/ Goto(j, "seen")
  BY DEF ReadTask, MoveTask, store, Applies
<1>3. EventsMove /\ Used' = Used /\ JobTypes
  BY <1>2, Still, BaseParts
<1>4. pc'[j] \in {"drop", "move", "seen"} /\ raced' = raced
  BY <1>1, <1>2, <1>3 DEF Goto, JobTypes, Acts
<1>5. SaveCovers(j)'
  BY <1>4 DEF SaveCovers
<1>6. PullCovers(j)'
  <2>1. PullCovers(j)
    BY DEF Covering
  <2>. QED
    BY <1>2, <1>3, <1>4, <2>1 DEF PullCovers, Misses, IsLive, InHand, Applies
<1>. QED
  BY <1>1, <1>2, <1>3, <1>5, <1>6, CoveringOn

\* The deletion of one link loses no change.
LEMMA DropLinkCovering ==
    ASSUME Base, Base', Accounted, Covering, NEW j \in Job, DropLink(j)
    PROVE  Covering'
<1>. DEFINE u == job[j].user
<1>1. Acts(j)
  BY StepActs DEF Step
<1>2. /\ pc[j] = "drop" /\ UNCHANGED <<event, token>>
      /\ \/ link' = [link EXCEPT ![u] = NoLink] /\ Goto(j, "apply") /\ UNCHANGED job
         \/ End(j) /\ UNCHANGED link
  BY DEF DropLink
<1>3. EventsMove /\ JobTypes /\ StoreTypes
  BY <1>2, Still, BaseParts
<1>4. u \in User
  BY <1>2, PullHolds DEF Pulls
<1>5. CASE End(j) /\ UNCHANGED link
  <2>1. pc'[j] \notin Pulls \cup {"save"}
    BY <1>3, <1>5, Gone DEF Pulls, Applies
  <2>. QED
    BY <1>1, <1>2, <1>3, <1>5, <2>1, CoversNone, CoveringOn
<1>6. CASE link' = [link EXCEPT ![u] = NoLink] /\ Goto(j, "apply") /\ UNCHANGED job
  <2>1. pc'[j] = "apply" /\ job'[j] = job[j] /\ link'[u] = NoLink
    BY <1>3, <1>4, <1>6 DEF Goto, JobTypes, StoreTypes
  <2>2. PullCovers(j)' /\ SaveCovers(j)'
    BY <2>1 DEF PullCovers, SaveCovers, Misses
  <2>3. \A v \in User : link'[v] = link[v] \/ ~MissesThen(v, token'[v])
    BY <1>3, <1>6 DEF MissesThen, StoreTypes
  <2>. QED
    BY <1>1, <1>2, <1>3, <2>2, <2>3, CoveringOn
<1>. QED
  BY <1>2, <1>5, <1>6

\* The mark that the change was seen loses no change.
LEMMA MarkSeenCovering ==
    ASSUME Base, Base', Accounted, Covering, NEW j \in Job, MarkSeen(j)
    PROVE  Covering'
<1>. DEFINE u == job[j].user
            n == job[j].new.rev
            l == [link[u] EXCEPT !.seen = n]
            e == link[u].event
<1>1. Acts(j)
  BY StepActs DEF Step
<1>2. /\ pc[j] = "seen" /\ UNCHANGED <<event, token>>
      /\ \/ IsThere(job[j].link, u) /\ link' = [link EXCEPT ![u] = l] /\ Goto(j, "apply") /\ UNCHANGED job
         \/ End(j) /\ UNCHANGED link
  BY DEF MarkSeen
<1>3. EventsMove /\ Used' = Used /\ JobTypes /\ StoreTypes
  BY <1>2, Still, BaseParts
<1>4. /\ u \in User /\ job[j].op = "pull" /\ raced' = raced /\ n \in Nat
      /\ Newer(job[j].new, job[j].link)
  BY <1>1, <1>2, PullHolds DEF Pulls, Applies, Acts, ReadAs, Remote
<1>5. CASE End(j) /\ UNCHANGED link
  <2>1. pc'[j] \notin Pulls \cup {"save"}
    BY <1>3, <1>5, Gone DEF Pulls, Applies
  <2>. QED
    BY <1>1, <1>2, <1>3, <1>5, <2>1, CoversNone, CoveringOn
<1>6. CASE IsThere(job[j].link, u) /\ link' = [link EXCEPT ![u] = l] /\ Goto(j, "apply") /\ UNCHANGED job
  <2>1. link[u] \in Link /\ link[u] # NoLink /\ link[u].seen \in Nat
    BY <1>4, <1>6, LinksThere DEF IsThere
  <2>2. l.seen = n /\ l.event = e
    BY <2>1 DEF Link
  <2>3. pc'[j] = "apply" /\ job'[j] = job[j] /\ link'[u] = l /\ \A v \in User : v # u => link'[v] = link[v]
    BY <1>3, <1>4, <1>6 DEF Goto, JobTypes, StoreTypes
  <2>4. u \notin raced => link[u].seen <= n
    <3>1. u \notin raced => link[u] = job[j].link
      BY <1>2 DEF Accounted, ReadThere, Applies
    <3>. HIDE DEF n
    <3>2. u \notin raced => link[u].seen = 0 \/ n > link[u].seen
      BY <1>4, <3>1 DEF Newer, n
    <3>. QED
      BY <1>4, <2>1, <3>2
  <2>. HIDE DEF l, n
  <2>5. MissesThen(u, token'[u]) /\ u \notin raced => Misses(u, token[u])
    <3>. SUFFICES ASSUME MissesThen(u, token'[u]), u \notin raced PROVE Misses(u, token[u])
      OBVIOUS
    <3>1. e \in Used /\ event[e].live /\ event[e].rev <= token[u] /\ event[e].rev > n
      BY <1>2, <1>3, <2>2, <2>3 DEF MissesThen
    <3>2. event[e].rev \in Nat
      BY <1>3, <3>1, UsedRecords
    <3>3. event[e].rev > link[u].seen
      BY <1>4, <2>1, <2>4, <3>1, <3>2
    <3>. QED
      BY <2>1, <3>1, <3>3 DEF Misses, IsLive
  <2>6. \A v \in User : v \notin raced => link'[v] = link[v] \/ ~MissesThen(v, token'[v])
    BY <2>3, <2>5 DEF Covering
  <2>7. SaveCovers(j)'
    BY <2>3 DEF SaveCovers
  <2>8. PullCovers(j)'
    <3>. SUFFICES ASSUME u \notin raced, e \in Used, event[e].live, event[e].rev <= job[j].upto, event[e].rev > n
                  PROVE  <<e, event[e]>> \in job[j].todo
      BY <1>2, <1>3, <1>4, <2>2, <2>3 DEF PullCovers, Misses, IsLive, InHand, Applies
    <3>1. event[e].rev \in Nat
      BY <1>3, UsedRecords
    <3>2. event[e].rev > link[u].seen
      BY <1>4, <2>1, <2>4, <3>1
    <3>3. Misses(u, job[j].upto)
      BY <2>1, <3>2 DEF Misses, IsLive
    <3>4. InHand(j, e)
      BY <1>2, <1>4, <3>3 DEF Covering, PullCovers
    <3>5. job[j].new # event[e]
      BY <1>4, <3>1 DEF n
    <3>. QED
      BY <3>4, <3>5 DEF InHand
  <2>. QED
    BY <1>1, <1>2, <1>3, <2>6, <2>7, <2>8, CoveringOn
<1>. QED
  BY <1>2, <1>5, <1>6

\* The token that is stored loses no change.
LEMMA StoreTokenCovering ==
    ASSUME Base, Base', Accounted, Covering, NEW j \in Job, StoreToken(j)
    PROVE  Covering'
<1>. DEFINE u == job[j].user
<1>1. Acts(j)
  BY StepActs DEF Step
<1>2. /\ pc[j] = "apply" /\ job[j].todo = {} /\ UNCHANGED <<event, link>>
      /\ token' = [token EXCEPT ![u] = job[j].upto] /\ End(j)
  BY DEF StoreToken, AllApplied
<1>3. EventsMove /\ Used' = Used /\ JobTypes /\ StoreTypes
  BY <1>2, Still, BaseParts
<1>4. u \in User /\ job[j].op = "pull"
  BY <1>2, PullHolds DEF Pulls
<1>5. pc'[j] \notin Pulls \cup {"save"}
  BY <1>2, <1>3, Gone DEF Pulls, Applies
<1>6. u \notin raced => ~Misses(u, job[j].upto)
  BY <1>2, <1>4 DEF Covering, PullCovers, InHand, Applies
<1>7. token'[u] = job[j].upto /\ \A v \in User : v # u => token'[v] = token[v]
  BY <1>2, <1>3, <1>4 DEF StoreTypes
<1>8. \A v \in User : v \notin raced => (link'[v] = link[v] /\ token'[v] = token[v]) \/ ~MissesThen(v, token'[v])
  BY <1>2, <1>3, <1>4, <1>6, <1>7 DEF MissesThen, Misses, IsLive
<1>. QED
  BY <1>1, <1>3, <1>5, <1>8, CoversNone, CoveringOn

\* A job that starts loses no change.
LEMMA StartCovering ==
    ASSUME Base, Base', Accounted, Covering, NEW j \in Job,
           (\E o \in Ops : StartTask(j, o)) \/ (\E u \in User : StartPull(j, u) \/ StartDisconnect(j, u))
    PROVE  Covering'
<1>1. UNCHANGED <<event, link, token>> /\ raced \subseteq raced'
  BY DEF StartTask, StartPull, StartDisconnect, store, RaceOthers
<1>2. EventsMove /\ JobTypes
  BY <1>1, Still, BaseParts
<1>3. PICK c, step : job' = [job EXCEPT ![j] = c] /\ Goto(j, step)
  BY DEF StartTask, StartPull, StartDisconnect
<1>4. OthersKept(j)
  BY <1>2, <1>3, Went
<1>5. PullCovers(j)' /\ SaveCovers(j)'
  <2>1. CASE \E u \in User : StartPull(j, u)
    <3>1. PICK u \in User : StartPull(j, u)
      BY <2>1
    <3>. DEFINE d == [Idle EXCEPT !.op = "pull", !.user = u, !.upto = token[u]]
    <3>2. d.user = u /\ d.upto = token[u]
      BY DEF Idle
    <3>3. pc'[j] = "list" /\ job'[j] = d
      BY <1>2, <3>1, Went DEF StartPull
    <3>. HIDE DEF d
    <3>. QED
      BY <1>1, <3>2, <3>3 DEF PullCovers, SaveCovers
  <2>2. CASE (\E o \in Ops : StartTask(j, o)) \/ (\E u \in User : StartDisconnect(j, u))
    <3>1. pc'[j] \in {"find", "write", "forget"}
      BY <1>2, <2>2 DEF StartTask, StartDisconnect, Goto, JobTypes
    <3>2. pc'[j] \notin Pulls \cup {"save"}
      BY <3>1 DEF Pulls, Applies
    <3>. QED
      BY <3>2, CoversNone
  <2>. QED
    BY <2>1, <2>2
<1>. QED
  BY <1>1, <1>2, <1>4, <1>5, CoveringBy DEF OthersKept

\* What happens outside the jobs loses no change.
LEMMA OutsideCovering ==
    ASSUME Base, Base', Covering, EventsMove,
           UNCHANGED vars \/ (\E u \in User : Connect(u)) \/ (\E e \in Event : EditRemote(e)) \/ ArriveLate
    PROVE  Covering'
<1>1. UNCHANGED <<link, pc, job>> /\ raced \subseteq raced'
  BY DEF Connect, EditRemote, ArriveLate, store, ghosts, RaceOthers, vars
<1>2. \A k \in Job : Kept(k)
  BY <1>1 DEF Kept
<1>3. CASE UNCHANGED token
  BY <1>1, <1>2, <1>3, CoveringBy
<1>4. CASE \E u \in User : Connect(u)
  <2>1. PICK u \in User : Connect(u)
    BY <1>4
  <2>2. token' = [token EXCEPT ![u] = 0] /\ RaceOthers({u}) /\ UNCHANGED event
    BY <2>1 DEF Connect
  <2>3. token'[u] = 0 /\ \A v \in User : v # u => token'[v] = token[v]
    BY <2>2, BaseParts DEF StoreTypes
  <2>4. \A k \in InFlight : u \in Work(k) => u \in raced'
    BY <2>2 DEF RaceOthers, InWork, Work
  <2>5. ~MissesThen(u, 0)
    <3>. SUFFICES ASSUME MissesThen(u, 0) PROVE FALSE
      OBVIOUS
    <3>1. link[u].event \in Used /\ event[link[u].event].rev <= 0
      BY <1>1, <2>2, Still DEF MissesThen
    <3>2. event[link[u].event].rev \in Nat /\ event[link[u].event].rev # 0
      BY <3>1, UsedRecords, BaseParts DEF InPast
    <3>. QED
      BY <3>1, <3>2
  <2>6. \A v \in User : v \notin raced' =>
            (link'[v] = link[v] /\ token'[v] = token[v]) \/ ~MissesThen(v, token'[v])
    BY <1>1, <2>3, <2>5
  <2>7. \A k \in Job : /\ Kept(k)
                       /\ k \in InFlight => \A v \in User : v \in Work(k) /\ v \notin raced' =>
                              link'[v] = link[v] /\ token'[v] = token[v]
    BY <1>1, <1>2, <2>3, <2>4
  <2>. QED
    BY <1>1, <2>6, <2>7, CoveringBy
<1>. QED
  BY <1>3, <1>4 DEF EditRemote, ArriveLate, store, vars

\* There are no links at first.
LEMMA CoveringInit == Init => Covering
<1>. SUFFICES ASSUME Init PROVE Covering
  OBVIOUS
<1>1. /\ \A u \in User : link[u] = NoLink
      /\ \A j \in Job : pc[j] = "idle" /\ job[j].op = "none"
  BY IdleTyped DEF Init
<1>. QED
  BY <1>1 DEF Covering, Misses, PullCovers, SaveCovers

\* No step makes a token pass a change that is neither seen nor in hand.
LEMMA CoveringStep == Base /\ Base' /\ Accounted /\ Covering /\ [Next]_vars => Covering'
<1>. SUFFICES ASSUME Base, Base', Accounted, Covering, [Next]_vars PROVE Covering'
  OBVIOUS
<1>0. EventsMove
  BY EventsStep
<1>1. ASSUME NEW j \in Job,
             (\E o \in Ops : StartTask(j, o)) \/ (\E u \in User : StartPull(j, u) \/ StartDisconnect(j, u))
      PROVE  Covering'
  BY <1>1, StartCovering
<1>2. ASSUME NEW j \in Job, Step(j) \/ FailRemoval(j) \/ Fail(j) PROVE Covering'
  BY <1>0, <1>2, PlainCovering, UpsertLinkCovering, PushCovering, SaveLinkCovering,
     RecordPushFailureCovering, DropLinksCovering, ForgetLinksCovering, ListChangesCovering,
     LookUpChangeCovering, ApplyCovering, DropLinkCovering, MarkSeenCovering, StoreTokenCovering DEF Step
<1>3. CASE UNCHANGED vars \/ (\E u \in User : Connect(u)) \/ (\E e \in Event : EditRemote(e)) \/ ArriveLate
  BY <1>0, <1>3, OutsideCovering
<1>. QED
  BY <1>1, <1>2, <1>3 DEF Next

\* A pull that fails, stops or starts anew loses no change: what the token has
\* passed, the link has seen.
THEOREM NoChangeLostHolds == Spec => []NoChangeLost
<1>1. Base /\ Covering => NoChangeLost
  <2>. SUFFICES ASSUME Base, Covering, NEW u \in User \ raced, NEW e \in Events(u),
                       link[u] # NoLink, link[u].event = e, IsLive(e), event[e].rev <= token[u]
                PROVE  event[e].rev <= link[u].seen
    BY DEF NoChangeLost
  <2>1. ~(event[e].rev > link[u].seen)
    BY DEF Covering, Misses
  <2>2. event[e].rev \in Nat /\ link[u].seen \in Nat
    BY UsedRecords, BaseParts, LinksThere DEF IsLive
  <2>. QED
    BY <2>1, <2>2
<1>. QED
  BY <1>1, BaseHolds, AccountedInit, AccountedStep, CoveringInit, CoveringStep, PTL DEF Spec

----------------------------------------------------------------------------
(* In calm states what is owed to the links will be done *)

\* The steps of a handler.
Busy == {"write", "reread", "find"} \cup Pushes \cup Removes

\* What is true of the links once nobody is going to remove them.
Tidy ==
    /\ Closed => Linked = {}
    /\ task # NoTask => Linked \subseteq {task.assignee}

\* Where nothing races, a handler is alone.
LEMMA HandlerAlone ==
    ASSUME Base, Alone, raced = {}, NEW j \in InFlight, job[j].op \in Handlers
    PROVE  \A k \in Job : k # j => pc[k] \in {"idle", "ended"}
<1>. SUFFICES ASSUME NEW k \in InFlight, k # j PROVE FALSE
  BY DEF InFlight
<1>1. j \in Job /\ k \in Job /\ JobTypes /\ Fits(k) /\ pc[k] \notin {"idle", "ended"}
  BY BaseParts DEF InFlight
<1>2. job[k].op \in Handlers \cup {"pull", "disconnect"}
  BY <1>1, JobFields DEF Fits, StepsOf
<1>3. job[k].op \in {"pull", "disconnect"} => job[k].user \in User
  BY <1>1 DEF Fits, PullFits
<1>4. Work(j) = User /\ \E u \in User : u \in Work(k)
  BY <1>1, <1>2, <1>3, Works, SomeUser
<1>. QED
  BY <1>4 DEF Alone

\* What a handler that is alone owes after its step.
LEMMA HandlerSettles ==
    ASSUME Base, Alone, raced = {}, NEW j \in InFlight, job[j].op \in Handlers, OthersKept(j),
           task' = NoTask => Linked' = {},
           HoldsTask(j)',
           WillRemove(j)' \/ (Tidy' /\ (Agree' \/ WillPush(j)'))
    PROVE  Settled'
<1>1. j \in Job /\ \A k \in Job : k # j => pc'[k] \in {"idle", "ended"}
  BY HandlerAlone DEF InFlight, OthersKept, Kept
<1>2. \A k \in Job : HoldsTask(k)'
  <2>. SUFFICES ASSUME NEW k \in Job, k # j PROVE HoldsTask(k)'
    OBVIOUS
  <2>. QED
    BY <1>1 DEF HoldsTask, Pushes, Removes
<1>. QED
  BY <1>1, <1>2 DEF Settled, Tidy

\* What it owed before.
LEMMA HandlerOwed ==
    ASSUME Base, Alone, raced = {}, Settled, NEW j \in InFlight, job[j].op \in Handlers, ~WillRemove(j)
    PROVE  Tidy /\ (Agree \/ WillPush(j))
<1>1. j \in Job /\ \A k \in Job : k # j => pc[k] \in {"idle", "ended"}
  BY HandlerAlone DEF InFlight
<1>2. \A k \in Job : ~WillRemove(k)
  <2>. SUFFICES ASSUME NEW k \in Job, k # j PROVE ~WillRemove(k)
    OBVIOUS
  <2>. QED
    BY <1>1 DEF WillRemove, Removes
<1>3. \A k \in Job : k # j => ~WillPush(k)
  BY <1>1 DEF WillPush, Pushes
<1>. QED
  BY <1>2, <1>3 DEF Settled, Tidy

\* A handler at a step.
LEMMA HandlerAt ==
    ASSUME Base, NEW j \in Job, pc[j] \in Busy
    PROVE  /\ j \in InFlight /\ job[j].op \in Handlers /\ HandlerFits(j)
           /\ JobTypes /\ Fits(j) /\ job[j] \in JobRec
<1>1. JobTypes /\ Fits(j) /\ job[j] \in JobRec
  BY BaseParts, JobFields
<1>2. job[j].op \in Handlers
  BY <1>1, StepsFit DEF Busy
<1>. QED
  BY <1>1, <1>2 DEF Fits, InFlight, Busy, Pushes, Removes

\* The other steps: the task stays, links at most go, and who owed something
\* before still does.
LEMMA SettledBy ==
    ASSUME Settled, UNCHANGED task, Linked' \subseteq Linked, Agree => Agree',
           \A k \in Job : \/ Kept(k)
                          \/ pc[k] \notin Busy /\ pc'[k] \notin Busy \cup {"move", "seen"}
                          \/ pc[k] \notin Busy /\ pc'[k] \in {"move", "seen"} /\ HoldsTask(k)'
    PROVE  Settled'
<1>1. ASSUME NEW k \in Job
      PROVE  HoldsTask(k)' /\ (WillRemove(k)' <=> WillRemove(k)) /\ (WillPush(k)' <=> WillPush(k))
  <2>1. HoldsTask(k)
    BY DEF Settled
  <2>2. CASE Kept(k)
    BY <2>1, <2>2 DEF Kept, HoldsTask, WillRemove, WillPush, LiveTask
  <2>3. CASE pc[k] \notin Busy /\ pc'[k] \notin Busy \cup {"move", "seen"}
    BY <2>3 DEF HoldsTask, WillRemove, WillPush, Busy
  <2>4. CASE pc[k] \notin Busy /\ pc'[k] \in {"move", "seen"} /\ HoldsTask(k)'
    BY <2>4 DEF WillRemove, WillPush, Busy, Pushes, Removes
  <2>. QED
    BY <2>2, <2>3, <2>4
<1>2. Closed' <=> Closed
  BY DEF Closed
<1>. QED
  BY <1>1, <1>2 DEF Settled

\* A link that agreed does so unless its event is changed, and then it is not
\* as the link has seen it.
LEMMA AgreeStays ==
    ASSUME Base, Base', EventsMove, UNCHANGED task, Agree,
           \A u \in User : link'[u] = link[u] \/ link'[u] = NoLink
    PROVE  Agree'
<1>. DEFINE u == task.assignee
            l == link[u]
<1>. SUFFICES ASSUME task # NoTask, link'[u] # NoLink, link'[u].status = "SYNCED",
                     link'[u].event \in Used', event'[link'[u].event].live,
                     event'[link'[u].event].rev = link'[u].seen
              PROVE  event'[link'[u].event].due = task.due
  BY DEF Agree, IsLive
<1>1. u \in User
  BY BaseParts DEF StoreTypes, Row
<1>2. link'[u] = l /\ l # NoLink /\ l \in Link
  BY <1>1, BaseParts DEF StoreTypes
<1>3. l.event \in Event /\ l.event # NoEvent /\ l.seen \in Nat
  BY <1>2, LinkFields, NoneIsOther
<1>4. l.seen <= Latest(u) /\ l.event \in Events(u)
  BY <1>1, <1>2, <1>3, BaseParts DEF InPast
<1>5. l.event \in Used /\ event[l.event].owner = u
  BY <1>4 DEF Events
<1>6. event'[l.event] = event[l.event] \/ event'[l.event].rev > Latest(u)
  BY <1>5 DEF EventsMove
<1>7. event'[l.event].rev = l.seen /\ Latest(u) \in Nat
  BY <1>1, <1>2 DEF EventsMove
<1>8. event'[l.event] = event[l.event]
  BY <1>3, <1>4, <1>6, <1>7
<1>. QED
  BY <1>2, <1>5, <1>8 DEF Agree, IsLive

\* The row of a task.
LEMMA RowFields ==
    ASSUME NEW t \in Row
    PROVE  /\ t.due \in Due \cup {NoDue} /\ t.open \in BOOLEAN /\ t.assignee \in User
           /\ t.deleted \in BOOLEAN /\ t # NoTask
  BY NoneIsOther DEF Row

\* The write makes the handler owe a removal or a push, or owes what it did.
LEMMA WriteTaskSettled ==
    ASSUME Base, Base', Accounted, Calm, Calm', Settled, NEW j \in Job, WriteTask(j)
    PROVE  Settled'
<1>. DEFINE c == job[j]
<1>1. pc[j] = "write" /\ UNCHANGED <<link, event>>
  BY DEF WriteTask
<1>2. /\ j \in InFlight /\ job[j].op \in Handlers /\ HandlerFits(j) /\ JobTypes /\ Fits(j)
      /\ OthersKept(j) /\ Alone /\ raced = {}
  BY <1>1, HandlerAt, StepActs DEF Busy, Step, Acts, Accounted, Calm
<1>3. /\ <<c.op, c.due, c.open, c.assignee>> \in Ops /\ c.op \in Writes
      /\ c.old = task /\ task \in Row \cup {NoTask}
  BY <1>1, <1>2, BaseParts DEF HandlerFits, Settled, HoldsTask, StoreTypes
<1>4. Tidy /\ Agree
  <2>1. ~WillRemove(j) /\ ~WillPush(j)
    BY <1>1 DEF WillRemove, WillPush, Removes, Pushes
  <2>. QED
    BY <1>2, <2>1, HandlerOwed
<1>5. (task = NoTask => Linked = {}) /\ Linked' = Linked
  BY <1>1 DEF Settled, Linked
<1>6. CASE c.op = "create" /\ task = NoTask /\ Goto(j, "reread") /\ UNCHANGED job
           /\ task' = [due |-> c.due, open |-> c.open, assignee |-> c.assignee, deleted |-> FALSE]
  <2>1. pc'[j] = "reread" /\ Linked' = {} /\ task'.deleted = FALSE
    BY <1>2, <1>5, <1>6 DEF Goto, JobTypes
  <2>2. task' \in Row /\ task' # NoTask
    <3>. DEFINE o == <<c.op, c.due, c.open, c.assignee>>
    <3>1. o[1] = "create" => o[2] \in Due \cup {NoDue} /\ o[3] \in BOOLEAN /\ o[4] \in User
      BY <1>3, OpsTyped
    <3>2. c.due \in Due \cup {NoDue} /\ c.open \in BOOLEAN /\ c.assignee \in User
      BY <1>6, <3>1
    <3>3. [due |-> c.due, open |-> c.open, assignee |-> c.assignee, deleted |-> FALSE] \in Row
      <4>1. FALSE \in BOOLEAN
        OBVIOUS
      <4>. QED
        BY <3>2, <4>1, Zenon DEF Row
    <3>4. task' \in Row
      BY <1>6, <3>3
    <3>. QED
      BY <3>4, NoneIsOther
  <2>3. HoldsTask(j)'
    BY <2>1, <2>2 DEF HoldsTask, LiveTask, Pushes, Removes
  <2>4. Tidy' /\ Agree'
    BY <2>1, <2>2, RowFields DEF Tidy, Agree, Linked
  <2>. QED
    BY <1>2, <2>1, <2>3, <2>4, HandlerSettles
<1>7. CASE /\ c.op # "create" /\ LiveTask /\ UNCHANGED job
           /\ task' = [due      |-> Given(c.due, task.due),
                       open     |-> Given(c.open, task.open),
                       assignee |-> Given(c.assignee, task.assignee),
                       deleted  |-> c.op = "delete"]
           /\ missed' = (missed \/ (c.op = "update" /\ task'.assignee # task.assignee))
           /\ Goto(j, IF c.op = "delete" THEN "links" ELSE "reread")
  <2>0. missed' = FALSE
    BY BaseParts DEF Calm, Base, StoreTypes, Store
  <2>2. task \in Row /\ task.deleted = FALSE
    BY <1>3, <1>7, RowFields DEF LiveTask
  <2>1. task' # NoTask
    <3>. DEFINE o == <<c.op, c.due, c.open, c.assignee>>
    <3>1. o[2] \in Due \cup {NoDue, Same} /\ o[3] \in BOOLEAN \cup {Same} /\ o[4] \in User \cup {Same}
      BY <1>3, OpsTyped
    <3>2. /\ c.due \in Due \cup {NoDue, Same} /\ c.open \in BOOLEAN \cup {Same}
          /\ c.assignee \in User \cup {Same}
      BY <3>1
    <3>3. /\ Given(c.due, task.due) \in Due \cup {NoDue} /\ Given(c.open, task.open) \in BOOLEAN
          /\ Given(c.assignee, task.assignee) \in User
      BY <2>2, <3>2, RowFields DEF Given
    <3>4. task' \in Row
      BY <1>7, <3>3 DEF Row
    <3>. QED
      BY <3>4, NoneIsOther
  <2>3. CASE c.op = "delete"
    <3>1. pc'[j] = "links" /\ job'[j].op = "delete"
      BY <1>2, <1>7, <2>3 DEF Goto, JobTypes
    <3>2. HoldsTask(j)' /\ WillRemove(j)'
      BY <3>1 DEF HoldsTask, WillRemove, Pushes, Removes
    <3>. QED
      BY <1>2, <2>1, <3>2, HandlerSettles
  <2>4. CASE c.op # "delete"
    <3>1. pc'[j] = "reread" /\ job'[j] = c
      BY <1>2, <1>7, <2>4 DEF Goto, JobTypes
    <3>2. task'.deleted = FALSE
      BY <1>7, <2>4
    <3>3. HoldsTask(j)'
      BY <2>1, <3>1, <3>2 DEF HoldsTask, LiveTask, Pushes, Removes
    <3>4. CASE Hook(c, task') = "links"
      <4>1. WillRemove(j)'
        BY <3>1, <3>4 DEF WillRemove
      <4>. QED
        BY <1>2, <2>1, <3>3, <4>1, HandlerSettles
    <3>5. CASE Hook(c, task') # "links"
      <4>1. c.op \in {"update", "assign"}
        BY <1>3, <1>7, <2>4, <3>5 DEF Hook, Writes
      <4>2. CASE task' = task
        <5>1. Tidy' /\ Agree'
          BY <1>1, <1>4, <1>5, <4>2 DEF Tidy, Agree, Closed, IsLive, Used
        <5>. QED
          BY <1>2, <2>1, <3>3, <5>1, HandlerSettles
      <4>3. CASE c.op = "assign"
        <5>1. c.due = Same /\ c.open = Same /\ c.assignee \in User
          BY <1>3, <4>3, OpsTyped
        <5>2. c.assignee = task.assignee
          BY <1>3, <3>5, <4>3 DEF Hook
        <5>3. /\ task'.due = task.due /\ task'.open = task.open /\ task'.assignee = task.assignee
              /\ task'.deleted = task.deleted
          BY <1>7, <2>2, <4>3, <5>1, <5>2 DEF Given
        <5>4. task' \in Row
          BY <2>1, BaseParts DEF Base, Store, StoreTypes
        <5>5. task' = task
          BY <2>2, <5>3, <5>4 DEF Row
        <5>. QED
          BY <4>2, <5>5
      <4>4. CASE c.op = "update"
        <5>1. task'.assignee = task.assignee
          BY <1>7, <2>0, <4>4
        <5>2. task'.open /\ ~(task.due # NoDue /\ task'.due = NoDue)
          BY <1>3, <3>5, <4>4 DEF Hook
        <5>3. Tidy'
          BY <1>4, <1>5, <2>2, <3>2, <5>1, <5>2, RowFields DEF Tidy, Closed
        <5>4. CASE task'.due = task.due
          <6>1. Agree'
            BY <1>1, <1>4, <2>2, <5>1, <5>4, RowFields DEF Agree, IsLive, Used
          <6>. QED
            BY <1>2, <2>1, <3>3, <5>3, <6>1, HandlerSettles
        <5>5. CASE task'.due # task.due
          <6>1. Hook(c, task') = "find"
            BY <1>3, <4>4, <5>2, <5>5 DEF Hook
          <6>2. Eligible(task')
            BY <5>2, <5>5 DEF Eligible
          <6>3. WillPush(j)'
            BY <3>1, <6>1, <6>2 DEF WillPush, Eligible
          <6>. QED
            BY <1>2, <2>1, <3>3, <5>3, <6>3, HandlerSettles
        <5>. QED
          BY <5>4, <5>5
      <4>. QED
        BY <4>1, <4>3, <4>4
    <3>. QED
      BY <3>4, <3>5
  <2>. QED
    BY <2>3, <2>4
<1>8. CASE End(j) /\ UNCHANGED task
  <2>1. pc'[j] = "ended"
    BY <1>2, <1>8, Ends
  <2>2. HoldsTask(j)'
    BY <2>1 DEF HoldsTask, Pushes, Removes
  <2>3. Tidy' /\ Agree'
    BY <1>1, <1>4, <1>5, <1>8 DEF Tidy, Agree, Closed, IsLive, Used
  <2>. QED
    BY <1>2, <1>5, <1>8, <2>2, <2>3, HandlerSettles
<1>. QED
  BY <1>6, <1>7, <1>8 DEF WriteTask

\* A handler step that touches neither the task nor links nor events.
LEMMA HandlerOn ==
    ASSUME Base, Accounted, Calm, Settled, NEW j \in Job, pc[j] \in Busy, OthersKept(j),
           UNCHANGED <<task, link>>, HoldsTask(j)',
           WillRemove(j)' \/ (~WillRemove(j) /\ (WillPush(j)' \/ (~WillPush(j) /\ (Agree => Agree'))))
    PROVE  Settled'
<1>1. j \in InFlight /\ job[j].op \in Handlers /\ Alone /\ raced = {}
  BY HandlerAt DEF Accounted, Calm
<1>2. ~WillRemove(j) => Tidy /\ (Agree \/ WillPush(j))
  BY <1>1, HandlerOwed
<1>3. Tidy => Tidy'
  BY DEF Tidy, Closed, Linked
<1>4. task' = NoTask => Linked' = {}
  BY DEF Settled, Linked
<1>. QED
  BY <1>1, <1>2, <1>3, <1>4, HandlerSettles

\* The hook that is chosen does what the handler owes.
LEMMA RereadSettled ==
    ASSUME Base, Base', Accounted, Calm, Calm', Settled, NEW j \in Job, Reread(j)
    PROVE  Settled'
<1>1. pc[j] = "reread" /\ UNCHANGED <<task, link, event>>
  BY DEF Reread, store
<1>2. pc[j] \in Busy /\ JobTypes /\ OthersKept(j) /\ Fits(j) /\ job[j] \in JobRec
  BY <1>1, HandlerAt, StepActs DEF Busy, Step, Acts
<1>3. LiveTask
  BY <1>1 DEF Settled, HoldsTask
<1>4. Agree => Agree'
  BY <1>1 DEF Agree, IsLive, Used
<1>5. CASE Hook(job[j], task) = "ended" /\ End(j)
  <2>1. pc'[j] = "ended"
    BY <1>2, <1>5, Ends
  <2>2. HoldsTask(j)'
    BY <2>1 DEF HoldsTask, Pushes, Removes
  <2>3. ~WillRemove(j) /\ ~WillPush(j)
    BY <1>1, <1>5 DEF WillRemove, WillPush, Pushes, Removes
  <2>. QED
    BY <1>1, <1>2, <1>4, <2>2, <2>3, HandlerOn
<1>6. CASE /\ Hook(job[j], task) # "ended" /\ Goto(j, Hook(job[j], task))
           /\ job' = [job EXCEPT ![j] = [Idle EXCEPT !.op = job[j].op, !.new = task]]
  <2>1. pc'[j] = Hook(job[j], task) /\ job'[j].new = task
    BY <1>2, <1>6 DEF Goto, JobTypes, Idle
  <2>2. Hook(job[j], task) \in {"links", "find"}
    <3>1. job[j].op \in Writes /\ job[j].op # "delete"
      BY <1>1, <1>2, HandlerAt DEF HandlerFits
    <3>. QED
      BY <1>6, <3>1 DEF Hook, Writes
  <2>3. HoldsTask(j)'
    BY <1>1, <1>3, <2>1, <2>2 DEF HoldsTask, LiveTask, Pushes, Removes
  <2>4. CASE Hook(job[j], task) = "links"
    <3>1. WillRemove(j)'
      BY <2>1, <2>4 DEF WillRemove, Removes
    <3>. QED
      BY <1>1, <1>2, <2>3, <3>1, HandlerOn
  <2>5. CASE Hook(job[j], task) = "find"
    <3>1. ~WillRemove(j)
      BY <1>1, <2>5 DEF WillRemove, Removes
    <3>2. Eligible(task) => WillPush(j)'
      BY <2>1, <2>5 DEF WillPush
    <3>3. ~Eligible(task) => ~WillPush(j)
      BY <1>1 DEF WillPush, Pushes
    <3>. QED
      BY <1>1, <1>2, <1>4, <2>3, <3>1, <3>2, <3>3, HandlerOn
  <2>. QED
    BY <2>2, <2>4, <2>5
<1>. QED
  BY <1>3, <1>5, <1>6 DEF Reread

\* A push that is due either goes on or is counted as missed.
LEMMA FindConnectionSettled ==
    ASSUME Base, Base', Accounted, Calm, Calm', Settled, NEW j \in Job, FindConnection(j)
    PROVE  Settled'
<1>1. pc[j] = "find" /\ UNCHANGED <<task, link, event>>
  BY DEF FindConnection, store
<1>2. pc[j] \in Busy /\ JobTypes /\ OthersKept(j) /\ job[j] \in JobRec
  BY <1>1, HandlerAt, StepActs DEF Busy, Step, Acts
<1>3. job[j].new = task /\ LiveTask /\ ~WillRemove(j)
  BY <1>1 DEF Settled, HoldsTask, WillRemove, Removes
<1>4. Agree => Agree'
  BY <1>1 DEF Agree, IsLive, Used
<1>5. CASE job' = [job EXCEPT ![j].user = job[j].new.assignee] /\ Goto(j, "upsert")
  <2>1. pc'[j] = "upsert" /\ job'[j].new = task
    BY <1>2, <1>3, <1>5 DEF Goto, JobTypes
  <2>2. HoldsTask(j)' /\ WillPush(j)'
    BY <1>1, <1>3, <2>1 DEF HoldsTask, WillPush, LiveTask, Pushes, Removes
  <2>. QED
    BY <1>1, <1>2, <1>3, <2>2, HandlerOn
<1>6. CASE End(j) /\ missed' = (missed \/ Eligible(job[j].new))
  <2>1. pc'[j] = "ended"
    BY <1>2, <1>6, Ends
  <2>2. HoldsTask(j)'
    BY <2>1 DEF HoldsTask, Pushes, Removes
  <2>3. ~Eligible(job[j].new)
    BY <1>6 DEF Calm
  <2>4. ~WillPush(j)
    BY <1>1, <2>3 DEF WillPush, Pushes
  <2>. QED
    BY <1>1, <1>2, <1>3, <1>4, <2>2, <2>4, HandlerOn
<1>. QED
  BY <1>5, <1>6 DEF FindConnection

\* The row of a link is found or made for the assignee, and nobody else's.
LEMMA UpsertLinkSettled ==
    ASSUME Base, Base', Accounted, Calm, Calm', Settled, NEW j \in Job, UpsertLink(j)
    PROVE  Settled'
<1>. DEFINE u == job[j].user
<1>1. /\ pc[j] = "upsert" /\ UNCHANGED task /\ Goto(j, "push")
      /\ link' = link \/ \E l : link' = [link EXCEPT ![u] = l]
      /\ job' = [job EXCEPT ![j].link = link'[u]]
  BY DEF UpsertLink
<1>2. /\ j \in InFlight /\ job[j].op \in Handlers /\ HandlerFits(j) /\ JobTypes /\ job[j] \in JobRec
      /\ OthersKept(j) /\ Alone /\ raced = {} /\ Fits(j)
  BY <1>1, HandlerAt, StepActs DEF Busy, Pushes, Step, Acts, Accounted, Calm
<1>3. job[j].new = task /\ LiveTask /\ Eligible(task) /\ u = task.assignee
  BY <1>1, <1>2 DEF Settled, HoldsTask, HandlerFits, Pushes
<1>4. ~WillRemove(j)
  BY <1>1 DEF WillRemove, Removes
<1>5. Tidy
  BY <1>2, <1>4, HandlerOwed
<1>6. Linked' \subseteq Linked \cup {u}
  BY <1>1, BaseParts DEF Linked, StoreTypes
<1>7. Tidy'
  BY <1>1, <1>3, <1>5, <1>6 DEF Tidy, Closed, LiveTask, Eligible
<1>8. pc'[j] = "push" /\ job'[j].new = task
  BY <1>1, <1>2, <1>3 DEF Goto, JobTypes
<1>9. HoldsTask(j)' /\ WillPush(j)'
  BY <1>1, <1>3, <1>8 DEF HoldsTask, WillPush, LiveTask, Pushes, Removes
<1>. QED
  BY <1>1, <1>2, <1>3, <1>7, <1>9, HandlerSettles DEF LiveTask

\* A push that was carried out, or failed, is still to be recorded.
LEMMA PushSettled ==
    ASSUME Base, Base', Accounted, Calm, Calm', Settled, NEW j \in Job, PushNew(j) \/ PushKnown(j)
    PROVE  Settled'
<1>1. pc[j] = "push" /\ UNCHANGED <<task, link>>
  BY DEF PushNew, PushKnown
<1>2. pc[j] \in Busy /\ JobTypes /\ OthersKept(j) /\ job[j] \in JobRec
  BY <1>1, HandlerAt, StepActs DEF Busy, Pushes, Step, Acts
<1>3. pc'[j] \in {"save", "failed"} /\ job'[j].new = job[j].new
  <2>1. CASE PushNew(j)
    <3>1. \/ \E e \in Event : \E n : job' = [job EXCEPT ![j].link.event = e, ![j].upto = n] /\ Goto(j, "save")
          \/ Goto(j, "failed") /\ UNCHANGED job
      BY <2>1 DEF PushNew
    <3>2. ASSUME NEW e \in Event, NEW n, job' = [job EXCEPT ![j].link.event = e, ![j].upto = n], Goto(j, "save")
          PROVE  pc'[j] \in {"save", "failed"} /\ job'[j].new = job[j].new
      BY <1>2, <3>2 DEF Goto, JobTypes
    <3>3. CASE Goto(j, "failed") /\ UNCHANGED job
      BY <1>2, <3>3 DEF Goto, JobTypes
    <3>. QED
      BY <3>1, <3>2, <3>3
  <2>2. CASE PushKnown(j)
    <3>1. \/ \E n : job' = [job EXCEPT ![j].upto = n] /\ Goto(j, "save")
          \/ Goto(j, "failed") /\ UNCHANGED job
      BY <2>2 DEF PushKnown
    <3>2. ASSUME NEW n, job' = [job EXCEPT ![j].upto = n], Goto(j, "save")
          PROVE  pc'[j] \in {"save", "failed"} /\ job'[j].new = job[j].new
      BY <1>2, <3>2 DEF Goto, JobTypes
    <3>3. CASE Goto(j, "failed") /\ UNCHANGED job
      BY <1>2, <3>3 DEF Goto, JobTypes
    <3>. QED
      BY <3>1, <3>2, <3>3
  <2>. QED
    BY <2>1, <2>2
<1>4. job[j].new = task /\ LiveTask
  BY <1>1 DEF Settled, HoldsTask, Pushes
<1>5. HoldsTask(j)' /\ WillPush(j)' /\ ~WillRemove(j)
  BY <1>1, <1>3, <1>4 DEF HoldsTask, WillPush, WillRemove, LiveTask, Pushes, Removes
<1>. QED
  BY <1>1, <1>2, <1>5, HandlerOn

\* The link is written: it says what was pushed, or that it failed.
LEMMA SaveLinkSettled ==
    ASSUME Base, Base', Accounted, Calm, Calm', Settled, NEW j \in Job, SaveLink(j)
    PROVE  Settled'
<1>. DEFINE u == job[j].user
<1>1. /\ pc[j] = "save" /\ UNCHANGED <<task, event>>
      /\ \/ link' = [link EXCEPT ![u] = Saved(job[j])] /\ End(j)
         \/ Goto(j, "failed") /\ UNCHANGED <<link, job>>
  BY DEF SaveLink
<1>2. /\ j \in InFlight /\ job[j].op \in Handlers /\ HandlerFits(j) /\ JobTypes /\ job[j] \in JobRec
      /\ OthersKept(j) /\ Alone /\ raced = {} /\ Fits(j) /\ pc[j] \in Busy
  BY <1>1, HandlerAt, StepActs DEF Busy, Pushes, Step, Acts, Accounted, Calm
<1>3. job[j].new = task /\ LiveTask /\ u = task.assignee /\ ~WillRemove(j) /\ Eligible(task)
  BY <1>1, <1>2 DEF Settled, HoldsTask, HandlerFits, Pushes, WillRemove, Removes
<1>4. CASE Goto(j, "failed") /\ UNCHANGED <<link, job>>
  <2>1. pc'[j] = "failed" /\ job'[j].new = task
    BY <1>2, <1>3, <1>4 DEF Goto, JobTypes
  <2>2. HoldsTask(j)' /\ WillPush(j)'
    BY <1>1, <1>3, <2>1 DEF HoldsTask, WillPush, LiveTask, Pushes, Removes
  <2>. QED
    BY <1>1, <1>2, <1>3, <1>4, <2>2, HandlerOn
<1>5. CASE link' = [link EXCEPT ![u] = Saved(job[j])] /\ End(j)
  <2>1. pc'[j] = "ended"
    BY <1>2, <1>5, Ends
  <2>2. HoldsTask(j)'
    BY <2>1 DEF HoldsTask, Pushes, Removes
  <2>3. u \in User /\ job[j].link \in Link
    BY <1>1, <1>2, <1>3, BaseParts DEF HandlerFits, Pushes, StoreTypes, LiveTask, Row
  <2>4. Linked' \subseteq Linked \cup {u}
    BY <1>5, BaseParts DEF Linked, StoreTypes
  <2>5. Tidy'
    <3>1. Tidy
      BY <1>2, <1>3, HandlerOwed
    <3>. QED
      BY <1>1, <1>3, <2>4, <3>1 DEF Tidy, Closed, LiveTask, Eligible
  <2>6. link'[u].event = job[j].link.event /\ link'[u].seen = job[j].upto
    <3>1. link'[u] = Saved(job[j])
      BY <1>5, <2>3, BaseParts DEF StoreTypes
    <3>2. job[j].link.event = job[j].link.event /\ Saved(job[j]) = [job[j].link EXCEPT !.status = "SYNCED", !.seen = job[j].upto]
      BY DEF Saved
    <3>. QED
      BY <2>3, <3>1, <3>2 DEF Link
  <2>7. job[j].upto = event[job[j].link.event].rev => event[job[j].link.event].due = task.due
    BY <1>1, <1>2, <1>3 DEF HandlerFits
  <2>8. Agree'
    BY <1>1, <1>3, <2>6, <2>7 DEF Agree, IsLive, Used
  <2>. QED
    BY <1>1, <1>2, <1>3, <2>2, <2>5, <2>8, HandlerSettles DEF LiveTask
<1>. QED
  BY <1>1, <1>4, <1>5

\* A push that failed leaves a link that says so.
LEMMA RecordPushFailureSettled ==
    ASSUME Base, Base', Accounted, Calm, Calm', Settled, NEW j \in Job, RecordPushFailure(j)
    PROVE  Settled'
<1>. DEFINE u == job[j].user
<1>1. /\ pc[j] = "failed" /\ UNCHANGED <<task, event>> /\ End(j)
      /\ link' = IF IsThere(job[j].link, u) THEN [link EXCEPT ![u].status = "FAILED"] ELSE link
  BY DEF RecordPushFailure
<1>2. /\ j \in InFlight /\ job[j].op \in Handlers /\ HandlerFits(j) /\ JobTypes
      /\ OthersKept(j) /\ Alone /\ raced = {} /\ Fits(j)
  BY <1>1, HandlerAt, StepActs DEF Busy, Pushes, Step, Acts, Accounted, Calm
<1>3. job[j].new = task /\ LiveTask /\ u = task.assignee /\ ~WillRemove(j) /\ Eligible(task)
  BY <1>1, <1>2 DEF Settled, HoldsTask, HandlerFits, Pushes, WillRemove, Removes
<1>4. u \in User
  BY <1>3, BaseParts DEF StoreTypes, LiveTask, Row
<1>5. link[u] # NoLink /\ link[u].id = job[j].link.id
  BY <1>1, <1>2, <1>4 DEF Accounted, ReadThere
<1>6. link' = [link EXCEPT ![u].status = "FAILED"]
  BY <1>1, <1>5 DEF IsThere
<1>7. link[u] \in Link
  BY <1>4, <1>5, BaseParts DEF StoreTypes
<1>8. link'[u].status = "FAILED"
  BY <1>4, <1>6, <1>7, BaseParts DEF StoreTypes, Link
<1>9. Linked' \subseteq Linked \cup {u}
  BY <1>6, BaseParts DEF Linked, StoreTypes
<1>10. Tidy' /\ Agree'
  <2>1. Tidy
    BY <1>2, <1>3, HandlerOwed
  <2>. QED
    BY <1>1, <1>3, <1>8, <1>9, <2>1 DEF Tidy, Closed, LiveTask, Eligible, Agree
<1>11. HoldsTask(j)'
  <2>1. pc'[j] = "ended"
    BY <1>1, <1>2, Ends
  <2>. QED
    BY <2>1 DEF HoldsTask, Pushes, Removes
<1>. QED
  BY <1>1, <1>2, <1>3, <1>10, <1>11, HandlerSettles DEF LiveTask

\* What a removal goes on with is what the assign read.
LEMMA AfterRemovalHolds ==
    ASSUME Base, Settled, UNCHANGED task, NEW j \in Job, pc[j] \in Removes, AfterRemoval(j)
    PROVE  HoldsTask(j)'
<1>1. JobTypes /\ job[j] \in JobRec
  BY BaseParts, JobFields
<1>2. CASE job[j].op = "assign" /\ Goto(j, "find") /\ job' = [job EXCEPT ![j].todo = {}]
  <2>1. pc'[j] = "find" /\ job'[j].new = job[j].new
    BY <1>1, <1>2 DEF Goto, JobTypes
  <2>2. job[j].new = task /\ LiveTask
    BY <1>2 DEF Settled, HoldsTask
  <2>. QED
    BY <2>1, <2>2 DEF HoldsTask, LiveTask, Pushes, Removes
<1>3. CASE End(j)
  <2>1. pc'[j] = "ended"
    BY <1>1, <1>3, Ends
  <2>. QED
    BY <2>1 DEF HoldsTask, Pushes, Removes
<1>. QED
  BY <1>2, <1>3 DEF AfterRemoval

\* A removal removes all links before it is done.
LEMMA RemovalSettled ==
    ASSUME Base, Base', Accounted, Calm, Calm', Settled, NEW j \in Job,
           FindLinks(j) \/ DeleteEvent(j) \/ DropLinks(j)
    PROVE  Settled'
<1>1. pc[j] \in Removes /\ UNCHANGED task
  BY DEF FindLinks, DeleteEvent, DropLinks, Removes, store
<1>2. /\ j \in InFlight /\ job[j].op \in Handlers /\ JobTypes /\ job[j] \in JobRec
      /\ OthersKept(j) /\ Alone /\ raced = {}
  BY <1>1, HandlerAt, StepActs DEF Busy, Step, Acts, Accounted, Calm
<1>3. CASE AfterRemoval(j) /\ Linked' = {}
  <2>1. HoldsTask(j)'
    BY <1>1, <1>3, AfterRemovalHolds
  <2>2. Tidy'
    BY <1>3 DEF Tidy
  <2>3. Agree'
    <3>. SUFFICES ASSUME task' # NoTask, link'[task'.assignee] # NoLink PROVE FALSE
      BY DEF Agree
    <3>1. task'.assignee \in User
      BY RowFields DEF Base, Store, StoreTypes
    <3>. QED
      BY <1>3, <3>1 DEF Linked
  <2>. QED
    BY <1>2, <1>3, <2>1, <2>2, <2>3, HandlerSettles
<1>4. CASE /\ UNCHANGED link /\ pc'[j] = "unlink"
           /\ job'[j].new = job[j].new /\ job'[j].op = job[j].op
  <2>1. HoldsTask(j)' /\ WillRemove(j)'
    BY <1>1, <1>4 DEF Settled, HoldsTask, WillRemove, LiveTask, Pushes, Removes
  <2>2. task' = NoTask => Linked' = {}
    BY <1>1, <1>4 DEF Settled, Linked
  <2>. QED
    BY <1>2, <2>1, <2>2, HandlerSettles
<1>5. CASE FindLinks(j)
  <2>1. /\ UNCHANGED link
        /\ \/ Linked = {} /\ AfterRemoval(j)
           \/ \E T : job' = [job EXCEPT ![j].todo = T] /\ Goto(j, "unlink")
    BY <1>5 DEF FindLinks, store
  <2>2. CASE Linked = {} /\ AfterRemoval(j)
    BY <1>3, <2>1, <2>2 DEF Linked
  <2>3. CASE \E T : job' = [job EXCEPT ![j].todo = T] /\ Goto(j, "unlink")
    BY <1>2, <1>4, <2>1, <2>3 DEF Goto, JobTypes
  <2>. QED
    BY <2>1, <2>2, <2>3
<1>6. CASE DeleteEvent(j)
  <2>1. UNCHANGED <<link, pc>> /\ pc[j] = "unlink" /\ \E T : job' = [job EXCEPT ![j].todo = T]
    BY <1>6 DEF DeleteEvent
  <2>. QED
    BY <1>2, <1>4, <2>1 DEF JobTypes
<1>7. CASE DropLinks(j)
  <2>1. AfterRemoval(j) /\ link' = [u \in User |-> NoLink]
    BY <1>7 DEF DropLinks
  <2>2. Linked' = {}
    BY <2>1 DEF Linked
  <2>. QED
    BY <1>3, <2>1, <2>2
<1>. QED
  BY <1>5, <1>6, <1>7

\* While a calendar is pulled, no handler is under way.
LEMMA PullAlone ==
    ASSUME Base, Alone, raced = {}, Settled, NEW j \in Job, pc[j] \in Pulls
    PROVE  /\ \A k \in Job : pc[k] \notin Busy
           /\ Tidy /\ Agree
<1>1. j \in InFlight /\ job[j].op = "pull"
  BY PullHolds DEF InFlight, Pulls, Applies
<1>2. ASSUME NEW k \in Job, pc[k] \in Busy PROVE FALSE
  <2>1. k \in InFlight /\ job[k].op \in Handlers
    BY <1>2, HandlerAt
  <2>2. j # k
    BY <1>1, <2>1 DEF Handlers, Writes
  <2>. QED
    BY <1>1, <2>1, <2>2, HandlerAlone DEF InFlight
<1>3. \A k \in Job : ~WillRemove(k) /\ ~WillPush(k)
  BY <1>2 DEF WillRemove, WillPush, Busy
<1>. QED
  BY <1>2, <1>3 DEF Settled, Tidy

\* A pull that has a change in hand has it for the assignee, and it is newer
\* than what the link has seen.
LEMMA PullsAssignee ==
    ASSUME Base, Accounted, Calm, Settled, NEW j \in Job, pc[j] \in {"move", "seen"}
    PROVE  LET u == job[j].user IN
           /\ LiveTask /\ task \in Row /\ u \in User /\ u = task.assignee
           /\ link[u] = job[j].link /\ link[u] \in Link /\ link[u].event \in Event
           /\ link[u].event \in Used /\ job[j].new \in Remote
           /\ event[link[u].event].rev # link[u].seen
           /\ job[j].new.rev = event[link[u].event].rev => job[j].new = event[link[u].event]
           /\ job[j].new.due \in Due
<1>. DEFINE u == job[j].user
            l == link[u]
            r == job[j].new
<1>1. /\ Alone /\ raced = {} /\ pc[j] \in Pulls /\ pc[j] \in Applies /\ ReadThere(j) /\ HoldsTask(j)
  BY DEF Pulls, Applies, Accounted, Calm, Settled
<1>2. u \in User /\ PullFits(j) /\ LiveTask
  <2>1. LiveTask
    BY <1>1 DEF HoldsTask
  <2>. QED
    BY <1>1, <2>1, PullHolds DEF PullFits
<1>3. l = job[j].link /\ l \in Link /\ ReadAs(u, l.event, r) /\ Newer(r, l)
  BY <1>1, <1>2 DEF PullFits, ReadThere
<1>4. l # NoLink /\ u \in Linked /\ l.seen \in Nat
  BY <1>2, <1>3, LinkFields DEF Linked
<1>5. Tidy
  BY <1>1, PullAlone
<1>6. u = task.assignee /\ task \in Row
  BY <1>2, <1>4, <1>5, BaseParts DEF Tidy, LiveTask, StoreTypes
<1>7. /\ l.event \in Used /\ l.event \in Event /\ r \in Remote /\ r.rev <= event[l.event].rev
      /\ r.rev = event[l.event].rev => r = event[l.event]
  BY <1>3 DEF ReadAs, Has, Used
<1>8. r.rev \in Nat /\ r.due \in Due /\ event[l.event].rev \in Nat /\ event[l.event].rev # 0
  BY <1>7, UsedRecords, BaseParts DEF Remote, InPast
<1>9. event[l.event].rev # l.seen
  BY <1>3, <1>4, <1>7, <1>8 DEF Newer
<1>. QED
  BY <1>2, <1>3, <1>6, <1>7, <1>8, <1>9

\* The task moves; what the link has seen is older than its event.
LEMMA MoveTaskSettled ==
    ASSUME Base, Base', Accounted, Calm, Settled, NEW j \in Job, MoveTask(j)
    PROVE  Settled'
<1>. DEFINE u == job[j].user
<1>1. pc[j] = "move" /\ Goto(j, "seen") /\ UNCHANGED <<link, event, job>>
  BY DEF MoveTask
<1>2. /\ LiveTask /\ task \in Row /\ u \in User /\ u = task.assignee /\ link[u] \in Link
      /\ event[link[u].event].rev # link[u].seen
  BY <1>1, PullsAssignee
<1>3. /\ Alone /\ raced = {} /\ pc[j] \in Pulls
      /\ JobTypes /\ OthersKept(j) /\ j \in InFlight /\ job[j].op = "pull"
  BY <1>1, PullHolds, BaseParts, StepActs DEF Pulls, Applies, Accounted, Calm, Step, Acts
<1>4. (\A k \in Job : pc[k] \notin Busy) /\ Tidy /\ Agree
  BY <1>3, PullAlone
<1>5. task' = [task EXCEPT !.due = job[j].new.due]
  BY <1>2 DEF MoveTask
<1>6. /\ task'.due = job[j].new.due /\ task'.open = task.open /\ task'.assignee = task.assignee
      /\ task'.deleted = task.deleted
  BY <1>2, <1>5 DEF Row
<1>7. task' # NoTask /\ LiveTask'
  <2>1. task' \in Row
    BY <1>1, <1>2, <1>5, PullsAssignee DEF Row
  <2>. QED
    BY <1>2, <1>6, <2>1, RowFields DEF LiveTask
<1>8. pc'[j] = "seen" /\ \A k \in Job : k # j => pc'[k] = pc[k]
  BY <1>1, <1>3 DEF Goto, JobTypes
<1>9. ASSUME NEW k \in Job PROVE HoldsTask(k)'
  <2>1. CASE k = j
    BY <1>1, <1>6, <1>7, <1>8, <2>1 DEF HoldsTask, Pushes, Removes
  <2>2. CASE k # j
    <3>1. pc'[k] # "seen"
      <4>. SUFFICES ASSUME pc[k] = "seen" PROVE FALSE
        BY <1>8, <2>2
      <4>1. job[k].user = u /\ job[k].op = "pull" /\ k \in InFlight
        BY <1>2, PullsAssignee, PullHolds DEF Pulls, Applies, InFlight
      <4>2. u \in Work(j) \cap Work(k)
        BY <1>3, <4>1, Works
      <4>. QED
        BY <1>3, <2>2, <4>1, <4>2 DEF Alone
    <3>2. pc'[k] \notin Busy
      BY <1>4, <1>8, <2>2
    <3>. QED
      BY <1>7, <3>1, <3>2 DEF HoldsTask, Busy
  <2>. QED
    BY <2>1, <2>2
<1>10. Tidy'
  BY <1>1, <1>2, <1>4, <1>6 DEF Tidy, Closed, Linked, LiveTask
<1>11. Agree'
  BY <1>1, <1>2, <1>6 DEF Agree, IsLive, Used
<1>. QED
  BY <1>7, <1>9, <1>10, <1>11 DEF Settled, Tidy, LiveTask

\* The link has seen the change, and the task says what it says.
LEMMA MarkSeenSettled ==
    ASSUME Base, Base', Accounted, Calm, Settled, NEW j \in Job, MarkSeen(j)
    PROVE  Settled'
<1>. DEFINE u == job[j].user
            l == link[u]
<1>1. /\ pc[j] = "seen" /\ UNCHANGED <<task, event>>
      /\ \/ link' = [link EXCEPT ![u].seen = job[j].new.rev] /\ Goto(j, "apply")
         \/ link' = link /\ End(j)
  BY DEF MarkSeen
<1>2. /\ LiveTask /\ u \in User /\ u = task.assignee /\ l \in Link /\ job[j].new \in Remote
      /\ job[j].new.rev = event[l.event].rev => job[j].new = event[l.event]
  BY <1>1, PullsAssignee
<1>3. JobTypes /\ OthersKept(j)
  BY BaseParts, StepActs DEF Step, Acts
<1>4. pc'[j] \in {"apply", "ended"}
  BY <1>1, <1>3, Ends DEF Goto, JobTypes
<1>5. task.due = job[j].new.due
  BY <1>1 DEF Settled, HoldsTask
<1>6. Linked' \subseteq Linked /\ (Agree => Agree')
  <2>1. CASE link' = link
    BY <1>1, <2>1 DEF Linked, Agree, IsLive, Used
  <2>2. CASE link' = [link EXCEPT ![u].seen = job[j].new.rev]
    <3>1. \A v \in User : v # u => link'[v] = link[v]
      BY <2>2, BaseParts DEF StoreTypes
    <3>2. link'[u] = [l EXCEPT !.seen = job[j].new.rev]
      BY <1>2, <2>2, BaseParts DEF StoreTypes
    <3>3. link'[u].event = l.event /\ link'[u].seen = job[j].new.rev
      BY <1>2, <3>2 DEF Link
    <3>4. u \in Linked
      BY <1>2, LinkFields DEF Linked
    <3>5. Linked' \subseteq Linked
      BY <3>1, <3>4 DEF Linked
    <3>6. Agree'
      BY <1>1, <1>2, <1>5, <3>3 DEF Agree, IsLive, Used
    <3>. QED
      BY <3>5, <3>6
  <2>. QED
    BY <1>1, <2>1, <2>2
<1>7. \A k \in Job : Kept(k) \/ (pc[k] \notin Busy /\ pc'[k] \notin Busy \cup {"move", "seen"})
  BY <1>1, <1>3, <1>4 DEF OthersKept, Busy, Pushes, Removes
<1>. QED
  BY <1>1, <1>6, <1>7, SettledBy

\* The other steps of a pull, and that of a disconnection.
LEMMA PullSettled ==
    ASSUME Base, Base', Settled, EventsMove, NEW j \in Job,
           \/ ListChanges(j) \/ LookUpChange(j) \/ DropLink(j) \/ ReadTask(j) \/ StoreToken(j)
           \/ ForgetLinks(j)
    PROVE  Settled'
<1>1. UNCHANGED task /\ \A u \in User : link'[u] = link[u] \/ link'[u] = NoLink
  <2>1. UNCHANGED task /\ (link' = link \/ \E u : link' = [link EXCEPT ![u] = NoLink])
    BY DEF ListChanges, LookUpChange, DropLink, ReadTask, StoreToken, ForgetLinks, store
  <2>. QED
    BY <2>1, BaseParts DEF StoreTypes
<1>2. Linked' \subseteq Linked /\ (Agree => Agree')
  BY <1>1, AgreeStays DEF Linked
<1>3. JobTypes /\ OthersKept(j) /\ job[j] \in JobRec
  BY BaseParts, JobFields, StepActs DEF Step, Acts
<1>4. pc[j] \in {"list", "apply", "drop", "task", "forget"}
  BY DEF ListChanges, LookUpChange, DropLink, ReadTask, StoreToken, ForgetLinks
<1>5. CASE ReadTask(j)
  <2>1. /\ UNCHANGED job
        /\ \/ pc'[j] = "drop"
           \/ pc'[j] = "move" /\ LiveTask
           \/ pc'[j] = "seen" /\ LiveTask /\ task.due = job[j].new.due
    BY <1>3, <1>5 DEF ReadTask, Goto, JobTypes
  <2>2. pc'[j] \in {"move", "seen"} => HoldsTask(j)'
    BY <1>1, <2>1 DEF HoldsTask, LiveTask, Pushes, Removes
  <2>3. pc[j] \notin Busy /\ pc'[j] \notin Busy
    BY <1>4, <2>1 DEF Busy, Pushes, Removes
  <2>. QED
    BY <1>1, <1>2, <1>3, <2>2, <2>3, SettledBy DEF OthersKept
<1>6. CASE ~ReadTask(j)
  <2>1. pc'[j] \in {"list", "apply", "task", "drop", "ended"}
    BY <1>3, <1>4, <1>6 DEF ListChanges, LookUpChange, DropLink, StoreToken, ForgetLinks, End, Goto, JobTypes
  <2>2. pc[j] \notin Busy /\ pc'[j] \notin Busy \cup {"move", "seen"}
    BY <1>4, <2>1 DEF Busy, Pushes, Removes
  <2>. QED
    BY <1>1, <1>2, <1>3, <2>2, SettledBy DEF OthersKept
<1>. QED
  BY <1>5, <1>6

\* A handler that fails misses its hook; what else fails owes nothing.
LEMMA FailSettled ==
    ASSUME Base, Base', Calm', Settled, EventsMove, NEW j \in Job, Fail(j)
    PROVE  Settled'
<1>1. /\ UNCHANGED <<task, link>> /\ End(j)
      /\ missed' = (missed \/ job[j].op \notin {"pull", "disconnect"})
  BY DEF Fail, store
<1>2. job[j].op \in {"pull", "disconnect"}
  BY <1>1 DEF Calm
<1>3. JobTypes /\ OthersKept(j) /\ pc'[j] = "ended"
  BY <1>1, BaseParts, Ends
<1>4. pc[j] \notin Busy
  BY <1>2, HandlerAt DEF Handlers, Writes
<1>5. Linked' \subseteq Linked /\ (Agree => Agree')
  BY <1>1, AgreeStays DEF Linked
<1>6. pc'[j] \notin Busy \cup {"move", "seen"}
  BY <1>3 DEF Busy, Pushes, Removes
<1>. QED
  BY <1>1, <1>3, <1>4, <1>5, <1>6, SettledBy DEF OthersKept

\* A removal that fails is a hook that is missed.
LEMMA FailRemovalSettled ==
    ASSUME Calm', NEW j \in Job, FailRemoval(j)
    PROVE  Settled'
  BY DEF Calm, FailRemoval

\* A handler that starts finds nobody at work, and holds the task as it is.
LEMMA StartTaskSettled ==
    ASSUME Base, Base', Calm', Settled, EventsMove, NEW j \in Job, NEW o \in Ops, StartTask(j, o)
    PROVE  Settled'
<1>1. /\ UNCHANGED <<task, link, event>> /\ pc[j] = "idle" /\ RaceOthers(User)
      /\ o[1] = "create" \/ LiveTask
      /\ Goto(j, IF o[1] = "sync" THEN "find" ELSE "write")
  BY DEF StartTask, CanStart, store
<1>2. \A k \in Job : pc[k] \in {"idle", "ended"}
  <2>. SUFFICES ASSUME NEW k \in Job, pc[k] \notin {"idle", "ended"} PROVE FALSE
    OBVIOUS
  <2>1. k \in InFlight /\ JobTypes /\ Fits(k)
    BY BaseParts DEF InFlight
  <2>2. job[k].op \in Handlers \cup {"pull", "disconnect"}
    BY <2>1, JobFields DEF Fits, StepsOf
  <2>3. job[k].op \in {"pull", "disconnect"} => job[k].user \in User
    BY <2>1 DEF Fits, PullFits
  <2>4. \E u \in User : u \in Work(k)
    BY <2>2, <2>3, Works, SomeUser
  <2>5. User \cap InWork = {}
    BY <1>1 DEF RaceOthers, Calm
  <2>. QED
    BY <2>1, <2>4, <2>5 DEF InWork, Work
<1>3. Tidy /\ Agree
  <2>1. \A k \in Job : ~WillRemove(k) /\ ~WillPush(k)
    BY <1>2 DEF WillRemove, WillPush, Pushes, Removes
  <2>. QED
    BY <2>1 DEF Settled, Tidy
<1>4. pc'[j] = (IF o[1] = "sync" THEN "find" ELSE "write") /\ \A k \in Job : k # j => pc'[k] = pc[k]
  BY <1>1, BaseParts DEF Goto, JobTypes
<1>5. job'[j].old = task /\ (o[1] = "sync" => job'[j].new = task)
  <2>. DEFINE c == [Idle EXCEPT !.op = o[1], !.due = o[2], !.open = o[3], !.assignee = o[4],
                      !.old = task, !.new = IF o[1] = "sync" THEN task ELSE NoTask]
  <2>1. c.old = task /\ (o[1] = "sync" => c.new = task)
    BY DEF Idle
  <2>2. job'[j] = c
    BY BaseParts DEF StartTask, JobTypes
  <2>. HIDE DEF c
  <2>. QED
    BY <2>1, <2>2
<1>6. ASSUME NEW k \in Job PROVE HoldsTask(k)' /\ ~WillRemove(k)'
  <2>1. CASE k = j
    BY <1>1, <1>4, <1>5, <2>1 DEF HoldsTask, WillRemove, LiveTask, Pushes, Removes
  <2>2. CASE k # j
    BY <1>2, <1>4, <2>2 DEF HoldsTask, WillRemove, Pushes, Removes
  <2>. QED
    BY <2>1, <2>2
<1>7. Tidy' /\ Agree'
  BY <1>1, <1>3 DEF Tidy, Closed, Linked, Agree, IsLive, Used
<1>. QED
  BY <1>1, <1>6, <1>7 DEF Settled, Tidy, Linked

\* What is started for one user, and what happens outside jobs.
LEMMA ElseSettled ==
    ASSUME Base, Base', Settled, EventsMove,
           \/ \E j \in Job, u \in User : StartPull(j, u) \/ StartDisconnect(j, u)
           \/ UNCHANGED vars \/ (\E u \in User : Connect(u)) \/ (\E e \in Event : EditRemote(e)) \/ ArriveLate
    PROVE  Settled'
<1>1. UNCHANGED <<task, link>>
  BY DEF StartPull, StartDisconnect, Connect, EditRemote, ArriveLate, store, vars
<1>2. Linked' \subseteq Linked /\ (Agree => Agree')
  BY <1>1, AgreeStays DEF Linked
<1>3. CASE UNCHANGED <<pc, job>>
  <2>1. \A k \in Job : Kept(k)
    BY <1>3 DEF Kept
  <2>. QED
    BY <1>1, <1>2, <2>1, SettledBy
<1>4. CASE \E j \in Job, u \in User : StartPull(j, u) \/ StartDisconnect(j, u)
  <2>1. PICK j \in Job, u \in User : StartPull(j, u) \/ StartDisconnect(j, u)
    BY <1>4
  <2>2. JobTypes
    BY BaseParts
  <2>3. pc[j] = "idle" /\ pc'[j] \in {"list", "forget"}
    BY <2>1, <2>2 DEF StartPull, StartDisconnect, CanStart, Goto, JobTypes
  <2>4. \A k \in Job : k # j => Kept(k)
    BY <2>1, <2>2 DEF StartPull, StartDisconnect, Goto, JobTypes, Kept
  <2>5. pc[j] \notin Busy /\ pc'[j] \notin Busy \cup {"move", "seen"}
    BY <2>3 DEF Busy, Pushes, Removes
  <2>. QED
    BY <1>1, <1>2, <2>4, <2>5, SettledBy
<1>. QED
  BY <1>3, <1>4 DEF Connect, EditRemote, ArriveLate, vars, ghosts

\* What has raced or was missed is not forgotten.
LEMMA CalmBefore ==
    ASSUME Base, [Next]_vars, Calm'
    PROVE  Calm
<1>. DEFINE Grow == raced \subseteq raced' /\ (~missed' => ~missed)
<1>1. ASSUME NEW j \in Job, WriteTask(j) PROVE Grow
  <2>1. /\ UNCHANGED raced
        /\ \/ UNCHANGED missed
           \/ missed' = (missed \/ (job[j].op = "update" /\ task'.assignee # task.assignee))
    BY <1>1 DEF WriteTask
  <2>2. ASSUME ~missed', missed PROVE FALSE
    <3>1. missed \/ (job[j].op = "update" /\ task'.assignee # task.assignee)
      BY <2>2
    <3>. QED
      BY <2>1, <2>2, <3>1
  <2>. QED
    BY <2>1, <2>2
<1>2. ASSUME NEW j \in Job, Step(j), ~WriteTask(j) PROVE Grow
  <2>1. CASE Reread(j)
    BY <2>1 DEF Reread
  <2>2. CASE FindConnection(j)
    <3>1. raced' = raced /\ (missed' = missed \/ missed' = (missed \/ Eligible(job[j].new)))
      BY <2>2 DEF FindConnection
    <3>2. ASSUME ~missed', missed PROVE FALSE
      <4>1. missed \/ Eligible(job[j].new)
        BY <3>2
      <4>. QED
        BY <3>1, <3>2, <4>1
    <3>. QED
      BY <3>1, <3>2
  <2>3. CASE ~Reread(j) /\ ~FindConnection(j)
    <3>1. raced' = raced /\ missed' = missed
      BY <1>2, <2>3 DEF Step, UpsertLink, PushNew, PushKnown, SaveLink, RecordPushFailure, FindLinks,
                        DeleteEvent, DropLinks, ListChanges, LookUpChange, DropLink, ReadTask, MoveTask,
                        MarkSeen, StoreToken, ForgetLinks, ghosts
    <3>. QED
      BY <3>1
  <2>. QED
    BY <2>1, <2>2, <2>3
<1>3. ASSUME NEW j \in Job, FailRemoval(j) \/ Fail(j) PROVE Grow
  BY <1>3 DEF FailRemoval, Fail
<1>4. ASSUME NEW j \in Job, NEW o \in Ops, StartTask(j, o) PROVE Grow
  BY <1>4 DEF StartTask, RaceOthers
<1>5. ASSUME NEW u \in User, Connect(u) \/ \E j \in Job : StartPull(j, u) \/ StartDisconnect(j, u) PROVE Grow
  BY <1>5 DEF StartPull, StartDisconnect, Connect, RaceOthers
<1>6. ASSUME UNCHANGED vars \/ (\E e \in Event : EditRemote(e)) \/ ArriveLate PROVE Grow
  BY <1>6 DEF vars, EditRemote, ArriveLate, ghosts
<1>7. Grow
  BY <1>1, <1>2, <1>3, <1>4, <1>5, <1>6 DEF Next
<1>. QED
  BY <1>7 DEF Calm

\* There is nothing to owe at first.
LEMMA CalmlyInit == Init => Calmly
  BY DEF Init, Calmly, Settled, Linked, HoldsTask, Closed, Agree, Pushes, Removes

\* Every step that leaves the state calm pays what it owes, or passes it on.
LEMMA CalmlyStep == Base /\ Base' /\ Accounted /\ Calmly /\ [Next]_vars => Calmly'
<1>. SUFFICES ASSUME Base, Base', Accounted, Calmly, [Next]_vars, Calm' PROVE Settled'
  BY DEF Calmly
<1>1. EventsMove /\ Calm /\ Settled
  BY EventsStep, CalmBefore DEF Calmly
<1>2. ASSUME NEW j \in Job, NEW o \in Ops, StartTask(j, o) PROVE Settled'
  BY <1>1, <1>2, StartTaskSettled
<1>3. ASSUME NEW j \in Job, Step(j) \/ FailRemoval(j) \/ Fail(j) PROVE Settled'
  BY <1>1, <1>3, WriteTaskSettled, RereadSettled, FindConnectionSettled, UpsertLinkSettled, PushSettled,
     SaveLinkSettled, RecordPushFailureSettled, RemovalSettled, PullSettled, MoveTaskSettled,
     MarkSeenSettled, FailRemovalSettled, FailSettled DEF Step
<1>4. CASE \/ \E j \in Job, u \in User : StartPull(j, u) \/ StartDisconnect(j, u)
           \/ UNCHANGED vars \/ (\E u \in User : Connect(u)) \/ (\E e \in Event : EditRemote(e)) \/ ArriveLate
  BY <1>1, <1>4, ElseSettled
<1>. QED
  BY <1>2, <1>3, <1>4 DEF Next

\* Once nobody is at work, nothing is owed.
LEMMA QuietSettled ==
    ASSUME Calmly, Quiet, raced = {}, ~missed
    PROVE  Tidy /\ Agree
<1>1. Settled /\ \A j \in Job : ~WillRemove(j) /\ ~WillPush(j)
  BY DEF Calmly, Calm, Quiet, InFlight, WillRemove, WillPush, Pushes, Removes
<1>. QED
  BY <1>1 DEF Settled, Tidy

\* A link that says SYNCED, of an event that nothing has touched since, says
\* the truth, unless jobs raced or a hook was missed.
THEOREM SyncedAgreesHolds == Spec => []SyncedAgrees
<1>1. Calmly => SyncedAgrees
  <2>. SUFFICES ASSUME Calmly, Quiet, raced = {}, ~missed, task # NoTask,
                       LET l == link[task.assignee] IN
                       Linked = {task.assignee} /\ l.status = "SYNCED"
                       /\ IsLive(l.event) /\ event[l.event].rev = l.seen
                PROVE  event[link[task.assignee].event].due = task.due
    BY DEF SyncedAgrees
  <2>1. Agree
    BY QuietSettled
  <2>2. link[task.assignee] # NoLink
    BY DEF Linked
  <2>. QED
    BY <2>1, <2>2 DEF Agree
<1>. QED
  BY <1>1, BaseHolds, AccountedInit, AccountedStep, CalmlyInit, CalmlyStep, PTL DEF Spec

\* A task that was closed or deleted is in no calendar any more, whoever it was
\* assigned to over its life, unless jobs raced or a hook was missed.
THEOREM ClosedUnlinkedHolds == Spec => []ClosedUnlinked
<1>1. Calmly => ClosedUnlinked
  BY QuietSettled DEF ClosedUnlinked, Tidy, Closed
<1>. QED
  BY <1>1, BaseHolds, AccountedInit, AccountedStep, CalmlyInit, CalmlyStep, PTL DEF Spec
============================================================================
