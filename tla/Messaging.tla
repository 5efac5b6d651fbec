------------------------------ MODULE Messaging ------------------------------
(***************************************************************************)
(* One customer's thread with a Facebook page and the conversation that    *)
(* mirrors it in the inbox of one workspace: FacebookService (webhooks),   *)
(* FacebookHistorySyncService (passes), MessagesService.sendMessage with   *)
(* the FacebookChannelDispatcherService behind it, and the status calls of *)
(* ConversationsService.                                                   *)
(*                                                                         *)
(* A message of the thread is known by its place, which is its mid.  The   *)
(* webhook of a message may be delivered never, once or more often, at any *)
(* time; it is always acknowledged, so a message that was not stored is    *)
(* left to the next pass.  A pass reads the thread, newest message first,  *)
(* down to the watermark of the conversation.  A reply is stored, posted   *)
(* by a call of OutboundCall and given its mid afterwards.                 *)
(*                                                                         *)
(* A message carries the time Facebook gave it, a whole second of a clock  *)
(* of its own; the watermark is the server's.  Facebook's clock does not   *)
(* go back, and how far it is from the server's is a parameter.            *)
(*                                                                         *)
(* Postbacks do what inbound messages do, with a key of their own.  The    *)
(* contact is made under a unique key: who comes second takes the first    *)
(* one's, and nothing here can tell.                                       *)
(***************************************************************************)
EXTENDS Integers, Sequences, FiniteSets

CONSTANTS Job, Conv,
          Skew,          \* what a message's time may be before or after the server's
          MaxAttempts,   \* attempts of one call of the Graph API
          MaxThread,     \* bound on the messages of the thread
          MaxRows,       \* bound on the messages stored
          MaxAtWork,     \* bound on jobs at work at a time
          MaxFaults,     \* bound on what goes wrong
          NoConv

\* Conversation rows.
ConvRow == [status : {"OPEN", "RESOLVED", "ARCHIVED"}, last : Nat, synced : Nat]

ASSUME BoundsAreNat == MaxAttempts \in Nat /\ MaxThread \in Nat

ASSUME SkewIsInt == Skew \subseteq Int

ASSUME NoConvIsNoRow == NoConv \notin ConvRow

VARIABLES
    thread,    \* the messages at Facebook: who wrote them, when, for which row
    now,       \* the server's clock
    conv,      \* Conversation rows: status, lastMessageAt and lastSyncedAt
    late,      \* rows whose reply was given up on and may still be posted
    rows,      \* Message rows: conversation, mid (0 for none), sentAt, source
    pc, job,   \* the next step of a job, and its locals
    faults,    \* how often something went wrong
    raced,     \* mids two jobs had to do with at a time
    crowded,   \* two jobs looked for the conversation at a time
    crossed,   \* conversations two transactions wrote to at a time
    lost,      \* mids of replies that were posted and not told so
    mistimed   \* mids whose time a pass or a watermark has passed already, or cannot read

ghosts == <<raced, crowded, crossed, lost, mistimed>>
vars == <<thread, now, conv, late, rows, pc, job, faults, raced, crowded, crossed, lost, mistimed>>

Idle == [op |-> "none", mid |-> 0, conv |-> NoConv, reopen |-> FALSE, since |-> 0,
         at |-> 0, last |-> 0, row |-> 0, todo |-> {}, began |-> 0, failed |-> FALSE]

Init ==
    /\ thread = <<>> /\ now = 1
    /\ conv = [c \in Conv |-> NoConv]
    /\ rows = <<>> /\ late = {}
    /\ pc = [j \in Job |-> "idle"] /\ job = [j \in Job |-> Idle]
    /\ faults = 0
    /\ raced = {} /\ crowded = FALSE /\ crossed = {} /\ lost = {} /\ mistimed = {}

----------------------------------------------------------------------------
(* The thread at Facebook *)

Live == {c \in Conv : conv[c] # NoConv}

Post(from, via, at) == [from |-> from, at |-> at, via |-> via]

\* The times Facebook may give to what is posted next.
Times == {at \in {now + 1 + s : s \in Skew} \cap (Nat \ {0}) :
             thread # <<>> => thread[Len(thread)].at <= at}

\* A time that a watermark has passed, or will when the pass at work is done
\* that has listed the thread already.
Passed(at) ==
    \/ \E c \in Live : at <= conv[c].synced
    \/ \E j \in Job : job[j].op = "pass" /\ pc[j] # "list" /\ ~job[j].failed /\ at <= job[j].began

\* The thread grew, by messages of this time.
Mistime(at) ==
    mistimed' = IF Passed(at) THEN mistimed \cup (DOMAIN thread' \ DOMAIN thread) ELSE mistimed

\* The customer writes, or somebody answers him in the page's own inbox.
Write(from) ==
    /\ Len(thread) < MaxThread /\ (from = "page" => thread # <<>>)
    /\ \E at \in Times :
        /\ thread' = Append(thread, Post(from, 0, at))
        /\ Mistime(at)
    /\ now' = now + 1
    /\ UNCHANGED <<conv, late, rows, pc, job, faults, raced, crowded, crossed, lost>>

----------------------------------------------------------------------------
(* Jobs *)

InFlight == {j \in Job : pc[j] \notin {"idle", "ended"}}

CanStart(j) == pc[j] = "idle" /\ Cardinality(InFlight) < MaxAtWork

\* What a job may store, or give a mid to.
Handles(j) ==
    CASE job[j].op \in {"inbound", "echo"} -> {job[j].mid}
      [] job[j].op = "pass" -> 1 .. MaxThread
      [] job[j].op = "send" -> {m \in DOMAIN thread : thread[m].via # 0 /\ thread[m].via = job[j].row}
      [] OTHER -> {}

Race(M) == raced' = raced \cup (M \cap UNION {Handles(j) : j \in InFlight})

\* The job is between its start and a conversation.
Looks(j) == job[j].op \in {"inbound", "pass"} /\ pc[j] \in {"list", "find", "create"}

Crowd == crowded' = (crowded \/ \E j \in Job : Looks(j))

Goto(j, step) == pc' = [pc EXCEPT ![j] = step]

End(j) ==
    /\ Goto(j, "ended")
    /\ job' = [job EXCEPT ![j] = Idle]

\* What goes wrong is counted.
Fault(wrong) == IF wrong THEN faults < MaxFaults /\ faults' = faults + 1 ELSE UNCHANGED faults

Begin(j, step, locals) ==
    /\ Goto(j, step)
    /\ job' = [job EXCEPT ![j] = locals]
    /\ UNCHANGED <<thread, late, conv, rows, faults, crossed, lost, mistimed>>

\* handleInboundMessagingEvent, for a message of the customer.
StartInbound(j, m) ==
    /\ CanStart(j)
    /\ m \in DOMAIN thread /\ thread[m].from = "customer"
    /\ Begin(j, "find", [Idle EXCEPT !.op = "inbound", !.mid = m])
    /\ Race({m}) /\ Crowd
    /\ UNCHANGED now

\* handleEchoEvent: nothing is made for it.
StartEcho(j, m) ==
    /\ CanStart(j)
    /\ m \in DOMAIN thread /\ thread[m].from = "page"
    /\ \E c \in Live : Begin(j, "dedupe", [Idle EXCEPT !.op = "echo", !.mid = m, !.conv = c])
    /\ Race({m})
    /\ UNCHANGED <<now, crowded>>

\* An agent replies.
StartSend(j) ==
    /\ CanStart(j)
    /\ \E c \in Live : Begin(j, "send", [Idle EXCEPT !.op = "send", !.conv = c])
    /\ UNCHANGED <<now, raced, crowded>>

\* resolveConversation and archiveConversation: only what is open.
StartMark(j, status) ==
    /\ CanStart(j)
    /\ \E c \in Live : conv[c].status = "OPEN" /\ Begin(j, status, [Idle EXCEPT !.op = "mark", !.conv = c])
    /\ UNCHANGED <<now, raced, crowded>>

Mark(j) ==
    /\ pc[j] \in {"RESOLVED", "ARCHIVED"}
    /\ conv' = [conv EXCEPT ![job[j].conv].status = pc[j]]
    /\ End(j)
    /\ UNCHANGED <<thread, late, now, rows, faults, ghosts>>

\* Mutant: rounded up to the next second.
PassStartedAt_RoundedUp == now + 1

PassStartedAt == now

\* syncConnection; its start is stamped before the first call.
StartPass(j) ==
    /\ CanStart(j)
    /\ Begin(j, "list", [Idle EXCEPT !.op = "pass", !.began = PassStartedAt])
    /\ Race(1 .. MaxThread) /\ Crowd
    /\ UNCHANGED now

----------------------------------------------------------------------------
(* The conversation *)

\* Mutant: archived conversations are not found.
Found_NotArchived == {c \in Live : conv[c].status # "ARCHIVED"}

\* findFirst: any of them.
Found == Live

\* findOrCreateConversation: an archived one is opened again; a webhook does so
\* with a resolved one too, a pass only when it has something to store.
Find(j) ==
    /\ pc[j] = "find"
    /\ \/ \E c \in Found :
             LET reopen == conv[c].status = "ARCHIVED"
                           \/ (job[j].op = "inbound" /\ conv[c].status = "RESOLVED")
             IN /\ job' = [job EXCEPT ![j].conv = c, ![j].since = conv[c].synced,
                                      ![j].reopen = conv[c].status = "RESOLVED"]
                /\ Goto(j, IF reopen THEN "reopen" ELSE IF job[j].op = "pass" THEN "next" ELSE "dedupe")
       \/ /\ Found = {}
          /\ Goto(j, "create")
          /\ UNCHANGED job
    /\ UNCHANGED <<thread, late, now, conv, rows, faults, ghosts>>

\* No key forbids a second one.
Create(j) ==
    /\ pc[j] = "create"
    /\ \E c \in Conv \ Live :
        /\ conv' = [conv EXCEPT ![c] = [status |-> "OPEN", last |-> 0, synced |-> 0]]
        /\ job' = [job EXCEPT ![j].conv = c]
    /\ Goto(j, IF job[j].op = "pass" THEN "next" ELSE "dedupe")
    /\ UNCHANGED <<thread, late, now, rows, faults, ghosts>>

Reopen(j) ==
    /\ pc[j] = "reopen"
    /\ conv' = [conv EXCEPT ![job[j].conv].status = "OPEN"]
    /\ Goto(j, CASE job[j].op = "inbound" -> "dedupe"
                 [] job[j].op = "pass" /\ job[j].mid = 0 -> "next"
                 [] job[j].op = "pass" /\ job[j].mid # 0 -> "send")
    /\ UNCHANGED <<thread, late, now, rows, job, faults, ghosts>>

----------------------------------------------------------------------------
(* A message *)

\* What follows a message that is stored: a pass has more of them, and the
\* conversation is known to be open.
Done(j) ==
    IF job[j].op = "pass" THEN Goto(j, "next") /\ job' = [job EXCEPT ![j].reopen = FALSE]
    ELSE End(j)

\* An exception: a webhook acknowledges it all the same, a pass notes it.
Thrown(j) ==
    IF job[j].op = "pass" THEN Goto(j, "next") /\ job' = [job EXCEPT ![j].failed = TRUE]
    ELSE End(j)

StoredIn(c, m) == \E r \in DOMAIN rows : rows[r].conv = c /\ rows[r].mid = m

\* Mutant: a message of the page's own is not looked up.
IsDuplicateByMid_Inbound(c, m) == thread[m].from = "customer" /\ StoredIn(c, m)

IsDuplicateByMid(c, m) == StoredIn(c, m)

\* The lookup for a webhook.
Dedupe(j) ==
    /\ pc[j] = "dedupe"
    /\ IF IsDuplicateByMid(job[j].conv, job[j].mid) THEN End(j) ELSE Goto(j, "send") /\ UNCHANGED job
    /\ UNCHANGED <<thread, late, now, conv, rows, faults, ghosts>>

\* sendMessage, the transaction: what it reads, and the time of the message.
Send(j) ==
    /\ pc[j] = "send" /\ Len(rows) < MaxRows
    /\ LET c == job[j].conv IN
       \/ /\ conv[c].status \in {"RESOLVED", "ARCHIVED"}
          /\ Thrown(j)
          /\ UNCHANGED crossed
       \/ /\ conv[c].status \notin {"RESOLVED", "ARCHIVED"}
          /\ job' = [job EXCEPT ![j].last = conv[c].last,
                        ![j].at = IF job[j].op = "pass" THEN thread[job[j].mid].at ELSE now]
          /\ Goto(j, "commit")
          /\ crossed' = IF \E k \in Job : pc[k] = "commit" /\ job[k].conv = c
                        THEN crossed \cup {c} ELSE crossed
    /\ UNCHANGED <<thread, late, now, conv, rows, faults, raced, crowded, lost, mistimed>>

\* Mutant: lastMessageAt is the time of the message.
NextLast_Message(c) == c.at

NextLast(c) == IF c.last > c.at THEN c.last ELSE c.at

\* What came from Facebook is not sent there.
SkipsDispatch(op) == op # "send"

\* The transaction writes, or it is rolled back.
Commit(j) ==
    /\ pc[j] = "commit"
    /\ LET c == job[j].conv IN
       \/ /\ Len(rows) < MaxRows
          /\ rows' = Append(rows, [conv |-> c, mid |-> job[j].mid, at |-> job[j].at, op |-> job[j].op])
          /\ conv' = [conv EXCEPT ![c].last = NextLast(job[j])]
          /\ IF SkipsDispatch(job[j].op) THEN Done(j)
             ELSE Goto(j, "dispatch") /\ job' = [job EXCEPT ![j].row = Len(rows')]
          /\ Fault(FALSE)
       \/ /\ Fault(TRUE)
          /\ Thrown(j)
          /\ UNCHANGED <<rows, conv>>
    /\ UNCHANGED <<thread, late, now, ghosts>>

----------------------------------------------------------------------------
(* The dispatch of a reply *)

\* Between a pass and a post, who comes first is not known.
RacePass(M) ==
    raced' = IF \E k \in InFlight : job[k].op = "pass" THEN raced \cup M ELSE raced

PostReply(row, n) ==
    /\ Len(thread) + n <= MaxThread
    /\ \E at \in Times :
        /\ thread' = thread \o [i \in 1 .. n |-> Post("page", row, at)]
        /\ Mistime(at)
    /\ now' = IF n > 0 THEN now + 1 ELSE now
    /\ RacePass(Len(thread) + 1 .. Len(thread'))

\* It is posted once, or as often as there are attempts, perhaps late; an error
\* is recorded in the row, and the reply has no mid then.
Dispatch(j) ==
    /\ pc[j] = "dispatch"
    /\ \E n \in 0 .. MaxAttempts :
        /\ PostReply(job[j].row, n)
        /\ LET posted == Len(thread) + 1 .. Len(thread) + n IN
           \/ \E m \in posted :
                /\ job' = [job EXCEPT ![j].mid = m]
                /\ lost' = lost \cup (posted \ {m})
                /\ Goto(j, "merge")
           \/ /\ lost' = lost \cup posted
              /\ End(j)
        /\ late' \in {late} \cup (IF n < MaxAttempts THEN {late \cup {job[j].row}} ELSE {})
        /\ Fault(n # 1 \/ pc'[j] = "ended" \/ late' # late)
    /\ UNCHANGED <<conv, rows, crowded, crossed>>

PostLate ==
    \E r \in late :
        /\ PostReply(r, 1)
        /\ late' = late \ {r}
        /\ lost' = lost \cup {Len(thread')}
        /\ UNCHANGED <<conv, rows, pc, job, faults, crowded, crossed>>

Merge(j) ==
    /\ pc[j] = "merge"
    /\ rows' = [rows EXCEPT ![job[j].row].mid = job[j].mid]
    /\ End(j)
    /\ UNCHANGED <<thread, late, now, conv, faults, ghosts>>

----------------------------------------------------------------------------
(* A pass *)

List(j) ==
    /\ pc[j] = "list"
    /\ \/ /\ thread = <<>>
          /\ End(j)
       \/ /\ thread # <<>>
          /\ job' = [job EXCEPT ![j].todo = DOMAIN thread]
          /\ Goto(j, "find")
    /\ UNCHANGED <<thread, late, now, conv, rows, faults, ghosts>>

Newest(M) == CHOOSE m \in M : \A n \in M : n <= m

\* There is nothing left, or the watermark has passed it.
Drained(c) == c.todo # {} => c.since # 0 /\ thread[Newest(c.todo)].at <= c.since

\* Mutant: the conversation is opened before the message is looked up.
NextMessage_ReopenFirst(j) ==
    /\ pc[j] = "next" /\ ~Drained(job[j])
    /\ LET m == Newest(job[j].todo)
           rest == [job EXCEPT ![j].todo = @ \ {m}]
       IN \/ /\ job[j].reopen
             /\ job' = [rest EXCEPT ![j].mid = m]
             /\ Goto(j, "reopen")
          \/ /\ ~job[j].reopen
             /\ job' = [rest EXCEPT ![j].mid = m]
             /\ Goto(j, IF StoredIn(job[j].conv, m) THEN "next" ELSE "send")
    /\ UNCHANGED <<thread, late, now, conv, rows, faults, ghosts>>

Drop(j) == [job EXCEPT ![j].todo = @ \ {Newest(@)}]

\* A time that is no date is not compared with the watermark: the message is
\* passed over, and the pass is none the worse for it.
SkipUnreadable(j) ==
    /\ pc[j] = "next" /\ job[j].todo # {}
    /\ job' = Drop(j)
    /\ mistimed' = mistimed \cup {Newest(job[j].todo)}
    /\ Fault(TRUE)
    /\ UNCHANGED <<thread, late, now, conv, rows, pc, raced, crowded, crossed, lost>>

\* persistHistoryMessage: the next message, the newest first, is looked up.
NextMessage(j) ==
    /\ pc[j] = "next" /\ ~Drained(job[j])
    /\ LET m == Newest(job[j].todo)
           rest == [job EXCEPT ![j].todo = @ \ {m}]
       IN \/ /\ IsDuplicateByMid(job[j].conv, m)
             /\ job' = rest
             /\ UNCHANGED pc
          \/ /\ ~IsDuplicateByMid(job[j].conv, m)
             /\ job' = [rest EXCEPT ![j].mid = m]
             /\ Goto(j, IF job[j].reopen THEN "reopen" ELSE "send")
    /\ UNCHANGED <<thread, late, now, conv, rows, faults, ghosts>>

\* It throws, in its look-up, its opening of the conversation or before the
\* transaction: the pass notes it and goes on with the next message.
Stumble(j) ==
    /\ job[j].op = "pass"
    /\ \/ /\ pc[j] = "next" /\ ~Drained(job[j])
          /\ job' = [Drop(j) EXCEPT ![j].failed = TRUE]
          /\ UNCHANGED pc
       \/ /\ pc[j] \in {"reopen", "send"} /\ job[j].mid # 0
          /\ Thrown(j)
    /\ Fault(TRUE)
    /\ UNCHANGED <<thread, late, now, conv, rows, ghosts>>

\* Mutant: a pass that could not store a message moves the watermark.
Clean_Always(c) == TRUE

Clean(c) == ~c.failed

Advance(j) ==
    /\ pc[j] = "next" /\ Drained(job[j])
    /\ conv' = IF Clean(job[j]) THEN [conv EXCEPT ![job[j].conv].synced = job[j].began] ELSE conv
    /\ End(j)
    /\ UNCHANGED <<thread, late, now, rows, faults, ghosts>>

----------------------------------------------------------------------------
\* A query or a call that a job does not go on without fails, the rate limiter
\* pauses a pass, or the process stops: the rest of the job is not done.
Fail(j) ==
    /\ j \in InFlight
    /\ Fault(TRUE)
    /\ lost' = IF pc[j] = "merge" THEN lost \cup {job[j].mid} ELSE lost
    /\ End(j)
    /\ UNCHANGED <<thread, late, now, conv, rows, raced, crowded, crossed, mistimed>>

Next ==
    \/ \E from \in {"customer", "page"} : Write(from)
    \/ PostLate
    \/ \E j \in Job :
        \/ \E m \in 1 .. MaxThread : StartInbound(j, m) \/ StartEcho(j, m)
        \/ StartSend(j) \/ StartPass(j)
        \/ \E s \in {"RESOLVED", "ARCHIVED"} : StartMark(j, s)
        \/ Mark(j) \/ Find(j) \/ Create(j) \/ Reopen(j)
        \/ Dedupe(j) \/ Send(j) \/ Commit(j) \/ Dispatch(j) \/ Merge(j)
        \/ List(j) \/ SkipUnreadable(j) \/ NextMessage(j) \/ Stumble(j) \/ Advance(j)
        \/ Fail(j)

Spec == Init /\ [][Next]_vars

----------------------------------------------------------------------------
TypeOK ==
    /\ now \in Nat
    /\ thread \in Seq([from : {"customer", "page"}, at : Nat, via : Nat])
    /\ conv \in [Conv -> [status : {"OPEN", "RESOLVED", "ARCHIVED"}, last : Nat, synced : 0 .. now]
                         \cup {NoConv}]
    /\ rows \in Seq([conv : Live, mid : 0 .. Len(thread), at : Nat,
                     op : {"inbound", "echo", "send", "pass"}])
    /\ late \subseteq DOMAIN rows /\ mistimed \subseteq DOMAIN thread
    /\ DOMAIN pc = Job /\ DOMAIN job = Job

\* The rows a message has: those with its mid, and the reply it was posted for.
Copies(m) == {r \in DOMAIN rows : rows[r].mid = m \/ thread[m].via = r}

\* However often it is delivered, echoed or listed, a message is stored once,
\* and a reply in its own row, unless two jobs had to do with it at a time, it
\* was posted and the caller not told its mid, or there are two conversations
\* to look it up in.
StoredOnce ==
    Cardinality(Live) <= 1 =>
        \A m \in DOMAIN thread \ (raced \cup lost) : \A r, s \in Copies(m) : r = s

\* A customer has one conversation, whatever agents do to its status, unless
\* two jobs looked for it at a time.
OneConversation == ~crowded => Cardinality(Live) <= 1

\* Nothing that the watermark has passed is missing: no message is skipped for
\* good because a pass failed or stopped, two passes ran at a time, or it came
\* during a pass.  What is exempt is the message whose time had been passed when
\* it was posted, and the one whose time is no date.
WatermarkCovers ==
    \A c \in Live : \A m \in DOMAIN thread \ mistimed :
        thread[m].at <= conv[c].synced => \E r \in DOMAIN rows : rows[r].mid = m

\* "a message that lands mid-pass is never skipped: it'll be > passStartedAt next
\* time", says the comment on the start of a pass: a pass that stops at the
\* watermark leaves no message of the customer that is not stored.
NoneSkipped ==
    \A j \in Job : pc[j] = "next" /\ Drained(job[j]) =>
        \A m \in job[j].todo : thread[m].from = "customer" => \E r \in DOMAIN rows : rows[r].mid = m

\* lastMessageAt is that of the newest message stored, unless two transactions
\* wrote to the conversation at a time.
LastIsNewest ==
    \A c \in Live \ crossed :
        /\ \A r \in DOMAIN rows : rows[r].conv = c => rows[r].at <= conv[c].last
        /\ conv[c].last # 0 => \E r \in DOMAIN rows : rows[r].conv = c /\ rows[r].at = conv[c].last

\* A pass does not open a conversation that was resolved for a message that is
\* there already, unless somebody else handled it at the same time.
ResolvedStays ==
    \A j \in Job : (pc[j] = "reopen" /\ job[j].op = "pass" /\ job[j].mid \notin raced \cup {0})
        => ~StoredIn(job[j].conv, job[j].mid)
============================================================================
