-------------------------- MODULE Messaging_proofs --------------------------
(***************************************************************************)
(* Messaging, for every set of jobs and of conversations and every bound:  *)
(* what is stored fits together (Base, Replies), and on that lastMessageAt *)
(* (Crossing), the one conversation (Crowding), a message is stored once   *)
(* (Handling), and the watermark of a pass (Passing).  Each is inductive   *)
(* over those before it; what an action does is proved once, field by      *)
(* field, and each invariant has one step per action after that.           *)
(***************************************************************************)
EXTENDS Messaging, TLAPS, SequenceTheorems, FiniteSetTheorems

\* The steps a job can be at.
Steps == {"idle", "ended", "list", "find", "create", "reopen", "next", "dedupe",
          "send", "commit", "dispatch", "merge", "RESOLVED", "ARCHIVED"}

\* Those of a job that does op.
StepsOf(op) ==
    CASE op = "none" -> {"idle", "ended"}
      [] op = "inbound" -> {"find", "create", "reopen", "dedupe", "send", "commit"}
      [] op = "echo" -> {"dedupe", "send", "commit"}
      [] op = "send" -> {"send", "commit", "dispatch", "merge"}
      [] op = "mark" -> {"RESOLVED", "ARCHIVED"}
      [] op = "pass" -> {"list", "find", "create", "reopen", "next", "send", "commit"}

\* A message of the thread.
Posted == [from : {"customer", "page"}, at : Nat, via : Nat]

\* A Message row.
RowRec == [conv : Conv, mid : Nat, at : Nat, op : {"inbound", "echo", "send", "pass"}]

\* The locals of a job.
JobRec == [op : {"none", "inbound", "echo", "send", "mark", "pass"}, mid : Nat,
           conv : Conv \cup {NoConv}, reopen : BOOLEAN, since : Nat, at : Nat, last : Nat,
           row : Nat, todo : SUBSET Nat, began : Nat, failed : BOOLEAN]

\* What is stored has its type, whatever the bounds of a run.
DataTypes ==
    /\ now \in Nat
    /\ thread \in Seq(Posted) /\ Len(thread) <= MaxThread
    /\ conv \in [Conv -> ConvRow \cup {NoConv}]
    /\ rows \in Seq(RowRec)
    /\ late \subseteq DOMAIN rows /\ mistimed \subseteq DOMAIN thread

\* So has what a job holds.
JobTypes ==
    /\ pc \in [Job -> Steps]
    /\ job \in [Job -> JobRec]
    /\ crowded \in BOOLEAN

\* Conversations are made one at a time, so there are finitely many.
LiveFinite == IsFiniteSet(Live)

\* The thread is in the order of its times, whatever the server's clock says, and
\* a reply was posted for a row.
ThreadInOrder ==
    \A m \in DOMAIN thread :
        /\ thread[m].via \in 0 .. Len(rows)
        /\ thread[m].at \in Nat \ {0}
        /\ \A n \in DOMAIN thread : n <= m => thread[n].at <= thread[m].at

\* A row refers to a conversation and a message that are there.
RowsRefer ==
    \A r \in DOMAIN rows :
        rows[r].conv \in Live /\ rows[r].mid \in 0 .. Len(thread)

\* The watermark of a conversation is not in the server's future.
ConvInTime == \A c \in Live : conv[c].synced \in 0 .. now

\* What is stored fits together.
Data == DataTypes /\ LiveFinite /\ ThreadInOrder /\ RowsRefer /\ ConvInTime

\* The job has found or made its conversation.
HasConv(j) == pc[j] \notin {"idle", "ended", "list", "find", "create"}

\* A job holds no stamp of the server's future.
JobInTime(j) == job[j].since \in 0 .. now /\ job[j].began \in 0 .. now

\* A job refers to what is there: a pass has left to do the messages up to
\* one, since it takes the newest first.
JobRefers(j) ==
    /\ HasConv(j) => job[j].conv \in Live
    /\ job[j].mid \in 0 .. Len(thread)
    /\ job[j].op \in {"inbound", "echo"} => job[j].mid # 0
    /\ job[j].op = "pass" =>
        /\ pc[j] \in {"list", "find", "create"} => job[j].mid = 0
        /\ pc[j] \in {"send", "commit"} => job[j].mid # 0
        /\ \E n \in 0 .. Len(thread) : job[j].todo = 1 .. n

\* The locals of a job fit its step.
JobFits(j) == pc[j] \in StepsOf(job[j].op) /\ JobInTime(j) /\ JobRefers(j)

\* All that the rest of the argument takes for granted of a state.
Base == Data /\ JobTypes /\ \A j \in Job : JobFits(j)

\* The job has stored a reply that has no mid yet.
Owns(j) == pc[j] \in {"dispatch", "merge"}

\* Where the job of a reply is with it.
ReplyFits(j) ==
    job[j].op = "send" =>
        /\ pc[j] \in {"send", "commit"} => job[j].mid = 0 /\ job[j].row = 0
        /\ Owns(j) => job[j].row \in DOMAIN rows /\ rows[job[j].row].mid = 0
        /\ pc[j] = "dispatch" => job[j].mid = 0
        /\ pc[j] = "merge" => job[j].mid \in DOMAIN thread /\ thread[job[j].mid].via = job[j].row

\* A reply is dispatched by one job, for a row of its own.
Replies ==
    /\ \A j \in Job : ReplyFits(j)
    /\ \A j, k \in Job : Owns(j) /\ Owns(k) /\ job[j].row = job[k].row => j = k

\* LastIsNewest, with why a transaction keeps it: nobody else has written to
\* the conversation since it read lastMessageAt.
Crossing ==
    /\ LastIsNewest
    /\ \A j \in Job : pc[j] = "commit" /\ job[j].conv \notin crossed =>
          job[j].last = conv[job[j].conv].last
    /\ \A j, k \in Job : pc[j] = "commit" /\ pc[k] = "commit" /\ job[j].conv = job[k].conv =>
          j = k \/ job[j].conv \in crossed

\* OneConversation, with why a job may make one: nobody else is looking.
Crowding ==
    ~crowded =>
        /\ \A c, d \in Live : c = d
        /\ \A j, k \in Job : Looks(j) /\ Looks(k) => j = k
        /\ \A j \in Job : pc[j] = "create" => Live = {}

\* Two jobs in flight have no message in common that is not marked.
Apart == \A j, k \in InFlight : j # k => Handles(j) \cap Handles(k) \subseteq raced

\* The job has looked its message up and is going to store it.
Stores(j) ==
    /\ job[j].op \in {"inbound", "echo", "pass"}
    /\ pc[j] \in {"send", "commit"} \/ (pc[j] = "reopen" /\ job[j].op = "pass" /\ job[j].mid # 0)

\* Some row has the mid m.
Stored(m) == \E r \in DOMAIN rows : rows[r].mid = m

\* What was not found when it was looked up is still not there.
LookedUp ==
    /\ \A j \in Job : Stores(j) /\ job[j].mid \notin raced => ~StoredIn(job[j].conv, job[j].mid)
    /\ \A j \in Job : pc[j] = "merge" /\ job[j].mid \notin raced => ~Stored(job[j].mid)

\* A reply that was posted has its mid in its row, or is about to.
RepliesTold ==
    \A m \in DOMAIN thread \ lost : thread[m].via # 0 =>
        \/ rows[thread[m].via].mid = m
        \/ \E j \in Job : pc[j] = "merge" /\ job[j].row = thread[m].via /\ job[j].mid = m

\* No conversation holds a message twice.
OncePerConv ==
    \A r, s \in DOMAIN rows :
        rows[r].conv = rows[s].conv /\ rows[r].mid = rows[s].mid
          /\ rows[r].mid \notin raced \cup {0} => r = s

\* Why StoredOnce and ResolvedStays hold.
Handling == Apart /\ LookedUp /\ RepliesTold /\ OncePerConv

\* The pass is still to store m, or to find it stored.
Pending(j, m) == m \in job[j].todo \/ (pc[j] \in {"reopen", "send", "commit"} /\ m = job[j].mid)

\* What the watermark a pass started from covers is stored; what was there
\* when it began is stored or pending, unless it noted a failure.
PassCovers(j) ==
    job[j].op = "pass" =>
        IF pc[j] = "list" THEN job[j].since = 0
        ELSE \A m \in DOMAIN thread \ mistimed :
                /\ m \in job[j].todo /\ thread[m].at <= job[j].since => Stored(m)
                /\ thread[m].at <= job[j].began /\ ~job[j].failed => Stored(m) \/ Pending(j, m)

\* WatermarkCovers, with why a pass that advances the watermark keeps it.
Passing == WatermarkCovers /\ \A j \in Job : PassCovers(j)

----------------------------------------------------------------------------
\* Nothing is taken away, and time does not go back.
Grows ==
    /\ Len(thread) <= Len(thread') /\ now <= now' /\ Len(rows) <= Len(rows')
    /\ \A c \in Live : c \in Live'
    /\ mistimed \subseteq mistimed'

\* The step is not one of the job k.
Kept(k) == pc'[k] = pc[k] /\ job'[k] = job[k]

\* Messages appended to the thread.
Longer(from, row) ==
    /\ thread' \in Seq(Posted)
    /\ Len(thread) <= Len(thread') /\ Len(thread') <= MaxThread
    /\ \A m \in 1 .. Len(thread) : thread'[m] = thread[m]
    /\ \E at \in Times :
        /\ \A m \in 1 .. Len(thread') : m > Len(thread) => thread'[m] = Post(from, row, at)
        /\ Mistime(at)
    /\ now' = IF Len(thread') > Len(thread) THEN now + 1 ELSE now

\* A time of Facebook's is no nought and none before the last.
LEMMA TimesFit ==
    ASSUME NEW at \in Times
    PROVE  at \in Nat \ {0} /\ (thread # <<>> => thread[Len(thread)].at <= at)
BY DEF Times

\* A message that is written lengthens the thread by itself.
LEMMA WriteLonger ==
    ASSUME DataTypes, NEW from \in {"customer", "page"}, Write(from)
    PROVE  Longer(from, 0)
<1>1. PICK at \in Times : thread' = Append(thread, Post(from, 0, at)) /\ Mistime(at)
  BY DEF Write
<1>2. Post(from, 0, at) \in Posted
  BY TimesFit DEF Post, Posted
<1>3. Len(thread) \in Nat /\ Len(thread) < MaxThread /\ MaxThread \in Nat /\ now' = now + 1
  BY BoundsAreNat DEF DataTypes, Write
<1>. QED
  BY <1>1, <1>2, <1>3 DEF Longer, DataTypes

\* A reply lengthens the thread by as many messages as it was posted times.
LEMMA PostReplyLonger ==
    ASSUME DataTypes, NEW row \in Nat, NEW n \in Nat, PostReply(row, n)
    PROVE  Longer("page", row) /\ Len(thread') = Len(thread) + n
<1>0. PICK at \in Times : thread' = thread \o [i \in 1 .. n |-> Post("page", row, at)] /\ Mistime(at)
  BY DEF PostReply
<1>. DEFINE more == [i \in 1 .. n |-> Post("page", row, at)]
<1>1. Post("page", row, at) \in Posted
  BY TimesFit DEF Post, Posted
<1>2. more \in Seq(Posted) /\ Len(more) = n /\ \A i \in 1 .. n : more[i] = Post("page", row, at)
  BY <1>1
<1>3. Len(thread) \in Nat /\ MaxThread \in Nat
  BY BoundsAreNat DEF DataTypes
<1>4. thread' = thread \o more /\ Len(thread) + n <= MaxThread /\ now' = IF n > 0 THEN now + 1 ELSE now
  BY <1>0 DEF PostReply
<1>. HIDE DEF more
<1>5. thread' \in Seq(Posted) /\ Len(thread') = Len(thread) + n
  <2>1. thread \in Seq(Posted)
    BY DEF DataTypes
  <2>. QED
    BY <1>2, <1>4, <2>1, ConcatProperties, Zenon
<1>6. ASSUME NEW m \in 1 .. Len(thread) PROVE thread'[m] = thread[m]
  BY <1>2, <1>3, <1>4 DEF DataTypes
<1>7. ASSUME NEW m \in 1 .. Len(thread'), m > Len(thread) PROVE thread'[m] = Post("page", row, at)
  <2>1. m - Len(thread) \in 1 .. n /\ m \in Nat
    BY <1>3, <1>5, <1>7
  <2>2. thread'[m] = more[m - Len(thread)]
    BY <1>2, <1>3, <1>4, <1>7, <2>1 DEF DataTypes
  <2>. QED
    BY <1>2, <2>1, <2>2
<1>. QED
  BY <1>0, <1>3, <1>4, <1>5, <1>6, <1>7 DEF Longer

\* A thread that is lengthened at a time that is not before its last is in order.
LEMMA LongerInOrder ==
    ASSUME Base, NEW from, NEW row \in 0 .. Len(rows), Longer(from, row), Len(rows) <= Len(rows'),
           rows' \in Seq(RowRec)
    PROVE  /\ ThreadInOrder' /\ now' \in Nat /\ now <= now'
           /\ mistimed \subseteq mistimed' /\ mistimed' \subseteq DOMAIN thread'
<1>1. now \in Nat /\ Len(thread) \in Nat /\ Len(thread') \in Nat /\ Len(rows) \in Nat /\ Len(rows') \in Nat
  BY DEF Base, Data, DataTypes, JobTypes, Longer
<1>2. DOMAIN thread = 1 .. Len(thread) /\ DOMAIN thread' = 1 .. Len(thread')
  BY DEF Base, Data, DataTypes, JobTypes, Longer
<1>3. now' \in Nat /\ now <= now' /\ Len(thread) <= Len(thread')
  BY <1>1 DEF Longer
<1>. PICK at \in Times :
        /\ \A m \in 1 .. Len(thread') : m > Len(thread) => thread'[m] = Post(from, row, at)
        /\ Mistime(at)
  BY DEF Longer
<1>4. at \in Nat \ {0} /\ (thread # <<>> => thread[Len(thread)].at <= at)
  BY TimesFit
<1>5. ASSUME NEW m \in DOMAIN thread'
      PROVE  thread'[m].via \in 0 .. Len(rows') /\ thread'[m].at \in Nat \ {0}
  <2>1. CASE m <= Len(thread)
    BY <1>1, <1>2, <2>1 DEF Longer, Base, Data, ThreadInOrder
  <2>2. CASE m > Len(thread)
    BY <1>1, <1>2, <1>4, <2>2 DEF Post
  <2>. QED
    BY <1>1, <1>2, <2>1, <2>2
<1>6. ASSUME NEW m \in DOMAIN thread', NEW n \in DOMAIN thread', n <= m
      PROVE  thread'[n].at <= thread'[m].at
  <2>1. CASE m <= Len(thread)
    BY <1>1, <1>2, <1>6, <2>1 DEF Longer, Base, Data, ThreadInOrder
  <2>2. CASE m > Len(thread) /\ n > Len(thread)
    BY <1>1, <1>2, <1>4, <2>2 DEF Post
  <2>3. CASE m > Len(thread) /\ n <= Len(thread)
    <3>1. n \in DOMAIN thread /\ Len(thread) \in DOMAIN thread /\ thread # <<>>
      BY <1>1, <1>2, <2>3 DEF Base, Data, DataTypes
    <3>2. thread'[n] = thread[n] /\ thread'[m].at = at
      BY <1>1, <1>2, <2>3, <3>1 DEF Longer, Post
    <3>3. thread[n].at <= thread[Len(thread)].at /\ thread[n].at \in Nat /\ thread[Len(thread)].at \in Nat
      BY <1>1, <1>2, <3>1 DEF Base, Data, ThreadInOrder
    <3>. QED
      BY <1>4, <3>1, <3>2, <3>3
  <2>. QED
    BY <1>1, <1>2, <2>1, <2>2, <2>3
<1>7. mistimed \subseteq mistimed' /\ mistimed' \subseteq DOMAIN thread'
  BY <1>1, <1>2, <1>3 DEF Mistime, Base, Data, DataTypes
<1>. QED
  BY <1>3, <1>5, <1>6, <1>7 DEF ThreadInOrder

\* A job that does not move still fits what has grown.
LEMMA OthersFit ==
    ASSUME Base, DataTypes', Grows, NEW k \in Job, Kept(k)
    PROVE  JobFits(k)'
<1>1. now \in Nat /\ now' \in Nat /\ Len(thread) \in Nat /\ Len(thread') \in Nat
  BY DEF Base, Data, DataTypes, JobTypes
<1>2. DOMAIN thread = 1 .. Len(thread) /\ DOMAIN thread' = 1 .. Len(thread')
  BY DEF Base, Data, DataTypes, JobTypes
<1>3. JobFits(k) /\ job[k] \in JobRec
  BY DEF Base, Data, DataTypes, JobTypes
<1>4. JobInTime(k)'
  BY <1>1, <1>3 DEF JobFits, JobInTime, Grows, Kept, JobRec
<1>5. JobRefers(k)'
  BY <1>1, <1>2, <1>3 DEF JobFits, JobRefers, Grows, Kept, HasConv
<1>. QED
  BY <1>3, <1>4, <1>5 DEF JobFits, Kept

\* A step that moves one job keeps Base when the job fits afterwards.
LEMMA JobMoves ==
    ASSUME Base, Data', Grows, crowded' \in BOOLEAN,
           NEW j \in Job, NEW step \in Steps, NEW locals \in JobRec,
           pc' = [pc EXCEPT ![j] = step], job' = [job EXCEPT ![j] = locals], JobFits(j)'
    PROVE  Base'
<1>1. JobTypes'
  BY DEF Base, JobTypes
<1>2. ASSUME NEW k \in Job PROVE JobFits(k)'
  <2>1. CASE k = j
    BY <2>1
  <2>2. CASE k # j
    BY <2>2, OthersFit DEF Kept, Base, JobTypes, Data
  <2>. QED
    BY <2>1, <2>2
<1>. QED
  BY <1>1, <1>2 DEF Base

\* A job that has ended holds nothing.
LEMMA IdleIsLocals == Idle \in JobRec /\ Idle.op = "none"
  BY DEF Idle, JobRec

\* A job may end at any time.
LEMMA EndMoves ==
    ASSUME Base, Data', Grows, crowded' \in BOOLEAN, NEW j \in Job, End(j)
    PROVE  Base'
<1>1. pc'[j] = "ended" /\ job'[j] = Idle
  BY DEF End, Goto, Base, JobTypes
<1>2. JobInTime(j)'
  BY <1>1 DEF JobInTime, Idle, Data, DataTypes
<1>3. JobFits(j)'
  BY <1>1, <1>2 DEF JobFits, JobRefers, HasConv, Idle, StepsOf
<1>. QED
  BY <1>3, IdleIsLocals, JobMoves DEF End, Goto, Steps

\* What is not written stays as it was.
LEMMA SameData ==
    ASSUME Data, UNCHANGED <<thread, now, conv, rows, late, mistimed>>
    PROVE  Data' /\ Grows
<1>1. Live' = Live
  BY DEF Live
<1>. QED
  BY <1>1 DEF Data, DataTypes, LiveFinite, ThreadInOrder, RowsRefer, ConvInTime, Grows

\* A row of a conversation is written, or made.
LEMMA ConvData ==
    ASSUME Data, UNCHANGED <<thread, now, rows, late, mistimed>>, NEW c \in Conv, NEW row \in ConvRow,
           conv' = [conv EXCEPT ![c] = row], row.synced <= now
    PROVE  Data' /\ Grows /\ Live' = Live \cup {c} /\ conv'[c] = row
           /\ \A d \in Conv \ {c} : conv'[d] = conv[d]
<1>1. conv \in [Conv -> ConvRow \cup {NoConv}]
  BY DEF Data, DataTypes
<1>2. conv'[c] = row /\ \A d \in Conv \ {c} : conv'[d] = conv[d]
  BY <1>1
<1>3. Live' = Live \cup {c}
  BY <1>2, NoConvIsNoRow DEF Live
<1>4. LiveFinite'
  BY <1>3, FS_AddElement DEF Data, LiveFinite
<1>5. DataTypes'
  BY <1>1 DEF Data, DataTypes
<1>6. ConvInTime'
  BY <1>2, <1>3 DEF Data, DataTypes, ConvInTime, ConvRow, Live
<1>7. ThreadInOrder' /\ RowsRefer'
  BY <1>3 DEF Data, ThreadInOrder, RowsRefer
<1>8. Grows
  BY <1>3 DEF Data, DataTypes, Grows
<1>. QED
  BY <1>2, <1>3, <1>4, <1>5, <1>6, <1>7, <1>8 DEF Data

\* A live conversation has a row.
LEMMA LiveRow ==
    ASSUME DataTypes, NEW c \in Live
    PROVE  c \in Conv /\ conv[c] \in ConvRow
  BY DEF DataTypes, Live

\* A message that is written keeps Base.
LEMMA WriteBase == ASSUME Base, NEW from \in {"customer", "page"}, Write(from) PROVE Base'
<1>1. Longer(from, 0)
  BY WriteLonger DEF Base, Data
<1>2. Live' = Live /\ rows' = rows /\ Len(rows) \in Nat
  BY DEF Live, Write, Base, Data, DataTypes
<1>3. ThreadInOrder' /\ now' \in Nat /\ now <= now'
      /\ mistimed \subseteq mistimed' /\ mistimed' \subseteq DOMAIN thread'
  BY <1>1, <1>2, LongerInOrder DEF Base, Data, DataTypes
<1>4. DataTypes' /\ now \in Nat /\ Len(thread) \in Nat /\ Len(thread') \in Nat
  BY <1>1, <1>2, <1>3 DEF Base, Data, DataTypes, Longer, Write
<1>5. RowsRefer' /\ ConvInTime' /\ LiveFinite' /\ Grows
  BY <1>1, <1>2, <1>3, <1>4 DEF Base, Data, RowsRefer, ConvInTime, LiveFinite, Grows, Longer, Write
<1>6. JobTypes'
  BY DEF Base, JobTypes, Write, ghosts
<1>7. ASSUME NEW k \in Job PROVE JobFits(k)'
  BY <1>4, <1>5, OthersFit DEF Kept, Write
<1>. QED
  BY <1>3, <1>4, <1>5, <1>6, <1>7 DEF Base, Data

\* A reply for a row that is there fits the thread.
LEMMA PostData ==
    ASSUME Base, NEW row \in DOMAIN rows, NEW n \in Nat, PostReply(row, n), UNCHANGED <<rows, conv>>,
           late' \subseteq DOMAIN rows
    PROVE  Data' /\ Grows
<1>1. row \in Nat /\ row \in 0 .. Len(rows) /\ Len(rows) \in Nat
  BY DEF Base, Data, DataTypes
<1>2. Longer("page", row)
  BY <1>1, PostReplyLonger DEF Base, Data
<1>3. Live' = Live
  BY DEF Live
<1>4. ThreadInOrder' /\ now' \in Nat /\ now <= now'
      /\ mistimed \subseteq mistimed' /\ mistimed' \subseteq DOMAIN thread'
  BY <1>1, <1>2, LongerInOrder DEF Base, Data, DataTypes
<1>5. DataTypes' /\ now \in Nat /\ Len(thread) \in Nat /\ Len(thread') \in Nat
  BY <1>2, <1>4 DEF Base, Data, DataTypes, Longer
<1>6. RowsRefer' /\ ConvInTime' /\ LiveFinite' /\ Grows
  BY <1>1, <1>2, <1>3, <1>4, <1>5 DEF Base, Data, RowsRefer, ConvInTime, LiveFinite, Grows, Longer
<1>. QED
  BY <1>4, <1>5, <1>6 DEF Data

\* A reply that is posted after it was given up on keeps Base.
LEMMA PostLateBase == ASSUME Base, PostLate PROVE Base'
<1>1. PICK r \in late : PostReply(r, 1) /\ late' = late \ {r}
                        /\ UNCHANGED <<conv, rows, pc, job, faults, crowded, crossed>>
  BY DEF PostLate
<1>2. Data' /\ Grows
  BY <1>1, PostData DEF Base, Data, DataTypes
<1>3. JobTypes'
  BY <1>1 DEF Base, JobTypes
<1>4. ASSUME NEW k \in Job PROVE JobFits(k)'
  BY <1>1, <1>2, OthersFit DEF Kept, Data
<1>. QED
  BY <1>2, <1>3, <1>4 DEF Base

\* A job starts with these locals.
LEMMA StartMoves ==
    ASSUME Base, NEW j \in Job, NEW step, NEW locals \in JobRec,
           locals.op \in {"inbound", "echo", "send", "mark", "pass"}, step \in StepsOf(locals.op),
           step \notin {"create", "reopen", "commit", "dispatch", "merge"},
           locals.since = 0, locals.at = 0, locals.last = 0, locals.began \in 0 .. now,
           IF locals.op \in {"inbound", "echo"} THEN locals.mid \in DOMAIN thread ELSE locals.mid = 0,
           step \notin {"list", "find"} => locals.conv \in Live,
           locals.op = "pass" => step = "list" /\ locals.todo = {},
           Begin(j, step, locals), now' = now, crowded' \in BOOLEAN
    PROVE  Base'
<1>1. Data' /\ Grows /\ Live' = Live /\ thread' = thread
  BY SameData DEF Base, Begin, Live
<1>2. now \in Nat /\ Len(thread) \in Nat /\ DOMAIN thread = 1 .. Len(thread)
  BY DEF Base, Data, DataTypes
<1>3. pc' = [pc EXCEPT ![j] = step] /\ job' = [job EXCEPT ![j] = locals] /\ step \in Steps
  BY DEF Begin, Goto, StepsOf, Steps
<1>4. pc'[j] = step /\ job'[j] = locals
  BY <1>3 DEF Base, JobTypes
<1>5. JobInTime(j)'
  BY <1>2, <1>4 DEF JobInTime
<1>6. /\ {} = 1 .. 0 /\ 0 \in 0 .. Len(thread) /\ locals.mid \in 0 .. Len(thread)
      /\ locals.op \in {"inbound", "echo"} => locals.mid # 0
      /\ locals.op = "pass" => locals.mid = 0 /\ locals.todo = {}
  BY <1>2
<1>7. JobRefers(j)'
  BY <1>1, <1>2, <1>4, <1>6 DEF JobRefers, HasConv
<1>8. JobFits(j)'
  BY <1>4, <1>5, <1>7 DEF JobFits
<1>. QED
  BY <1>1, <1>3, <1>8, JobMoves

\* A webhook that starts keeps Base: its message is in the thread.
LEMMA StartInboundBase ==
    ASSUME Base, NEW j \in Job, NEW m \in 1 .. MaxThread, StartInbound(j, m)
    PROVE  Base'
<1>. DEFINE locals == [Idle EXCEPT !.op = "inbound", !.mid = m]
<1>1. m \in DOMAIN thread /\ m \in Nat /\ crowded' \in BOOLEAN /\ 0 \in 0 .. now /\ now' = now
  BY BoundsAreNat DEF StartInbound, Crowd, Base, Data, DataTypes, JobTypes
<1>2. Begin(j, "find", locals)
  BY DEF StartInbound
<1>3. /\ locals \in JobRec /\ locals.op = "inbound" /\ locals.mid = m
      /\ locals.since = 0 /\ locals.at = 0 /\ locals.last = 0 /\ locals.began = 0
  BY <1>1 DEF Idle, JobRec
<1>. HIDE DEF locals
<1>. QED
  BY <1>1, <1>2, <1>3, StartMoves DEF StepsOf

\* An echo that starts keeps Base: its conversation is live.
LEMMA StartEchoBase ==
    ASSUME Base, NEW j \in Job, NEW m \in 1 .. MaxThread, StartEcho(j, m)
    PROVE  Base'
<1>1. PICK c \in Live : Begin(j, "dedupe", [Idle EXCEPT !.op = "echo", !.mid = m, !.conv = c])
  BY DEF StartEcho
<1>. DEFINE locals == [Idle EXCEPT !.op = "echo", !.mid = m, !.conv = c]
<1>2. m \in DOMAIN thread /\ m \in Nat /\ crowded' \in BOOLEAN /\ 0 \in 0 .. now /\ now' = now
  BY BoundsAreNat DEF StartEcho, Base, Data, DataTypes, JobTypes
<1>3. c \in Conv
  BY LiveRow DEF Base, Data
<1>4. /\ locals \in JobRec /\ locals.op = "echo" /\ locals.mid = m /\ locals.conv = c
      /\ locals.since = 0 /\ locals.at = 0 /\ locals.last = 0 /\ locals.began = 0
  BY <1>2, <1>3 DEF Idle, JobRec
<1>5. Begin(j, "dedupe", locals)
  BY <1>1
<1>. HIDE DEF locals
<1>. QED
  BY <1>2, <1>4, <1>5, StartMoves DEF StepsOf

\* A reply that starts keeps Base.
LEMMA StartSendBase == ASSUME Base, NEW j \in Job, StartSend(j) PROVE Base'
<1>1. PICK c \in Live : Begin(j, "send", [Idle EXCEPT !.op = "send", !.conv = c])
  BY DEF StartSend
<1>. DEFINE locals == [Idle EXCEPT !.op = "send", !.conv = c]
<1>2. crowded' \in BOOLEAN /\ 0 \in 0 .. now /\ now' = now
  BY DEF StartSend, Base, Data, DataTypes, JobTypes
<1>3. c \in Conv
  BY LiveRow DEF Base, Data
<1>4. /\ locals \in JobRec /\ locals.op = "send" /\ locals.conv = c /\ locals.mid = 0
      /\ locals.since = 0 /\ locals.at = 0 /\ locals.last = 0 /\ locals.began = 0
  BY <1>2, <1>3 DEF Idle, JobRec
<1>5. Begin(j, "send", locals)
  BY <1>1
<1>. HIDE DEF locals
<1>. QED
  BY <1>2, <1>4, <1>5, StartMoves DEF StepsOf

\* A change of status that starts keeps Base.
LEMMA StartMarkBase ==
    ASSUME Base, NEW j \in Job, NEW s \in {"RESOLVED", "ARCHIVED"}, StartMark(j, s)
    PROVE  Base'
<1>1. PICK c \in Live : Begin(j, s, [Idle EXCEPT !.op = "mark", !.conv = c])
  BY DEF StartMark
<1>. DEFINE locals == [Idle EXCEPT !.op = "mark", !.conv = c]
<1>2. crowded' \in BOOLEAN /\ 0 \in 0 .. now /\ now' = now
  BY DEF StartMark, Base, Data, DataTypes, JobTypes
<1>3. c \in Conv
  BY LiveRow DEF Base, Data
<1>4. /\ locals \in JobRec /\ locals.op = "mark" /\ locals.conv = c /\ locals.mid = 0
      /\ locals.since = 0 /\ locals.at = 0 /\ locals.last = 0 /\ locals.began = 0
  BY <1>2, <1>3 DEF Idle, JobRec
<1>5. Begin(j, s, locals)
  BY <1>1
<1>. HIDE DEF locals
<1>. QED
  BY <1>2, <1>4, <1>5, StartMoves DEF StepsOf

\* A pass that starts keeps Base: it has nothing to do yet.
LEMMA StartPassBase == ASSUME Base, NEW j \in Job, StartPass(j) PROVE Base'
<1>. DEFINE locals == [Idle EXCEPT !.op = "pass", !.began = now]
<1>1. crowded' \in BOOLEAN /\ now \in Nat /\ now \in 0 .. now /\ now' = now
  BY DEF StartPass, Crowd, Base, Data, DataTypes, JobTypes
<1>2. Begin(j, "list", locals)
  BY DEF StartPass, PassStartedAt
<1>3. /\ locals \in JobRec /\ locals.op = "pass" /\ locals.mid = 0 /\ locals.todo = {}
      /\ locals.since = 0 /\ locals.at = 0 /\ locals.last = 0 /\ locals.began = now
  BY <1>1 DEF Idle, JobRec
<1>. HIDE DEF locals
<1>. QED
  BY <1>1, <1>2, <1>3, StartMoves DEF StepsOf

\* Setting a status keeps Base.
LEMMA MarkBase == ASSUME Base, NEW j \in Job, Mark(j) PROVE Base'
<1>. DEFINE c == job[j].conv
            row == [conv[c] EXCEPT !.status = pc[j]]
<1>1. c \in Live /\ c \in Conv /\ conv[c] \in ConvRow
  BY LiveRow DEF Mark, Base, Data, JobFits, JobRefers, HasConv
<1>2. conv' = [conv EXCEPT ![c] = row]
  BY DEF Mark
<1>3. row \in ConvRow /\ row.last = conv[c].last /\ row.synced = conv[c].synced
  BY <1>1 DEF Mark, ConvRow
<1>4. conv[c].synced <= now
  BY <1>1 DEF Base, Data, ConvInTime
<1>5. Data' /\ Grows
  <2>. HIDE DEF row, c
  <2>. QED
    BY <1>1, <1>2, <1>3, <1>4, ConvData DEF Base, Mark, ghosts
<1>. QED
  BY <1>5, EndMoves DEF Mark, Base, JobTypes, ghosts

\* Looking for the conversation keeps Base: what is found is live.
LEMMA FindBase == ASSUME Base, NEW j \in Job, Find(j) PROVE Base'
<1>1. Data' /\ Grows /\ Live' = Live /\ thread' = thread /\ now' = now /\ crowded' \in BOOLEAN
  BY SameData DEF Base, JobTypes, Find, Live, ghosts
<1>2. /\ pc[j] = "find" /\ job[j] \in JobRec /\ JobFits(j)
      /\ now \in Nat /\ conv \in [Conv -> ConvRow \cup {NoConv}]
  BY DEF Base, Data, DataTypes, JobTypes, Find
<1>3. job[j].op \in {"inbound", "pass"}
  BY <1>2 DEF JobFits, StepsOf, JobRec
<1>4. ASSUME NEW c \in Live, NEW step \in {"reopen", "next", "dedupe"},
             step = "next" => job[j].op = "pass", step = "dedupe" => job[j].op = "inbound",
             pc' = [pc EXCEPT ![j] = step],
             job' = [job EXCEPT ![j].conv = c, ![j].since = conv[c].synced,
                                ![j].reopen = conv[c].status = "RESOLVED"]
      PROVE  Base'
  <2>. DEFINE locals == [job[j] EXCEPT !.conv = c, !.since = conv[c].synced,
                                       !.reopen = conv[c].status = "RESOLVED"]
  <2>1. c \in Conv /\ conv[c] \in ConvRow /\ conv[c].synced \in 0 .. now
    BY LiveRow DEF Base, Data, ConvInTime
  <2>2. job' = [job EXCEPT ![j] = locals]
    BY <1>4
  <2>3. /\ locals \in JobRec /\ locals.op = job[j].op /\ locals.mid = job[j].mid
        /\ locals.conv = c /\ locals.since = conv[c].synced /\ locals.at = job[j].at
        /\ locals.last = job[j].last /\ locals.began = job[j].began /\ locals.todo = job[j].todo
    BY <1>2, <2>1 DEF JobRec, ConvRow
  <2>. HIDE DEF locals
  <2>4. job'[j] = locals /\ pc'[j] = step
    BY <1>4, <2>2 DEF Base, JobTypes
  <2>5. JobInTime(j)'
    BY <1>1, <1>2, <2>1, <2>3, <2>4 DEF JobInTime, JobFits
  <2>6. JobRefers(j)'
    <3>1. JobRefers(j) /\ Len(thread) \in Nat
      BY <1>2 DEF JobFits, Base, Data, DataTypes
    <3>2. job[j].op = "pass" => job[j].mid = 0 /\ \E n \in 0 .. Len(thread) : job[j].todo = 1 .. n
      BY <1>2, <3>1 DEF JobRefers
    <3>3. job[j].mid \in 0 .. Len(thread) /\ (job[j].op = "inbound" => job[j].mid # 0)
      BY <3>1 DEF JobRefers
    <3>4. pc'[j] \notin {"list", "find", "create", "send", "commit"} /\ c \in Live'
      BY <1>1, <2>4
    <3>5. job'[j].op = job[j].op /\ job'[j].mid = job[j].mid /\ job'[j].conv = c
          /\ job'[j].todo = job[j].todo
      BY <2>3, <2>4
    <3>. QED
      BY <1>1, <1>3, <3>1, <3>2, <3>3, <3>4, <3>5 DEF JobRefers, HasConv
  <2>7. JobFits(j)'
    BY <1>3, <1>4, <2>3, <2>4, <2>5, <2>6 DEF JobFits, StepsOf
  <2>. QED
    BY <1>1, <1>4, <2>2, <2>3, <2>7, JobMoves DEF Steps
<1>5. CASE Found = {} /\ Goto(j, "create") /\ UNCHANGED job
  <2>1. pc' = [pc EXCEPT ![j] = "create"] /\ pc'[j] = "create" /\ job' = job
    BY <1>5 DEF Goto, Base, JobTypes
  <2>2. JobFits(j)'
    BY <1>1, <1>2, <1>3, <2>1 DEF JobFits, StepsOf, JobInTime, JobRefers, HasConv
  <2>3. job' = [job EXCEPT ![j] = job[j]]
    BY <2>1 DEF Base, JobTypes
  <2>. QED
    BY <1>1, <1>2, <2>1, <2>2, <2>3, JobMoves DEF Steps
<1>. QED
  BY <1>3, <1>4, <1>5 DEF Find, Goto, Found

\* Making a conversation keeps Base: one that was not live becomes so.
LEMMA CreateBase == ASSUME Base, NEW j \in Job, Create(j) PROVE Base'
<1>. DEFINE row == [status |-> "OPEN", last |-> 0, synced |-> 0]
            step == IF job[j].op = "pass" THEN "next" ELSE "dedupe"
<1>1. PICK c \in Conv \ Live : conv' = [conv EXCEPT ![c] = row] /\ job' = [job EXCEPT ![j].conv = c]
  BY DEF Create
<1>2. row \in ConvRow /\ row.last = 0 /\ row.synced = 0
  BY DEF ConvRow
<1>3. now \in Nat /\ pc[j] = "create" /\ job[j] \in JobRec /\ JobFits(j)
  BY DEF Create, Base, Data, DataTypes, JobTypes
<1>4. UNCHANGED <<thread, now, rows, late, mistimed>> /\ crowded' \in BOOLEAN
  BY DEF Create, Base, JobTypes, ghosts
<1>5. Data' /\ Grows /\ Live' = Live \cup {c}
  <2>1. row.synced <= now
    BY <1>2, <1>3
  <2>2. Data /\ conv' = [conv EXCEPT ![c] = row]
    BY <1>1 DEF Base
  <2>. HIDE DEF row
  <2>. QED
    BY <1>2, <1>4, <2>1, <2>2, ConvData
<1>. DEFINE locals == [job[j] EXCEPT !.conv = c]
<1>6. job' = [job EXCEPT ![j] = locals] /\ pc' = [pc EXCEPT ![j] = step]
  BY <1>1 DEF Create, Goto
<1>7. /\ locals \in JobRec /\ locals.op = job[j].op /\ locals.mid = job[j].mid
      /\ locals.conv = c /\ locals.since = job[j].since /\ locals.at = job[j].at
      /\ locals.last = job[j].last /\ locals.began = job[j].began /\ locals.todo = job[j].todo
  BY <1>3 DEF JobRec
<1>8. job[j].op \in {"inbound", "pass"}
  BY <1>3 DEF JobFits, StepsOf, JobRec
<1>. HIDE DEF locals
<1>9. job'[j] = locals /\ pc'[j] = step
  BY <1>6 DEF Base, JobTypes
<1>10. JobInTime(j)'
  BY <1>3, <1>4, <1>7, <1>9 DEF JobInTime, JobFits
<1>11. JobRefers(j)'
  BY <1>3, <1>4, <1>5, <1>7, <1>9 DEF JobRefers, JobFits, HasConv
<1>12. JobFits(j)'
  BY <1>7, <1>8, <1>9, <1>10, <1>11 DEF JobFits, StepsOf
<1>13. step \in Steps
  BY DEF Steps
<1>. HIDE DEF step
<1>. QED
  BY <1>4, <1>5, <1>6, <1>7, <1>12, <1>13, JobMoves

\* Opening a conversation again keeps Base.
LEMMA ReopenBase == ASSUME Base, NEW j \in Job, Reopen(j) PROVE Base'
<1>. DEFINE c == job[j].conv
            row == [conv[c] EXCEPT !.status = "OPEN"]
            locals == job[j]
<1>1. c \in Live /\ c \in Conv /\ conv[c] \in ConvRow
  BY LiveRow DEF Reopen, Base, Data, JobFits, JobRefers, HasConv
<1>2. conv' = [conv EXCEPT ![c] = row]
  BY DEF Reopen
<1>3. row \in ConvRow /\ row.last = conv[c].last /\ row.synced = conv[c].synced
  BY <1>1 DEF ConvRow
<1>4. conv[c].synced <= now
  BY <1>1 DEF Base, Data, ConvInTime
<1>5. UNCHANGED <<thread, now, rows, late, mistimed>> /\ crowded' \in BOOLEAN
  BY DEF Reopen, Base, JobTypes, ghosts
<1>6. Data' /\ Grows /\ c \in Live'
  <2>. HIDE DEF row, c
  <2>. QED
    BY <1>1, <1>2, <1>3, <1>4, <1>5, ConvData DEF Base
<1>7. pc[j] = "reopen" /\ job[j] \in JobRec /\ JobFits(j) /\ now \in Nat /\ Len(thread) \in Nat
  BY DEF Reopen, Base, Data, DataTypes, JobTypes
<1>8. job[j].op \in {"inbound", "pass"}
  BY <1>7 DEF JobFits, StepsOf, JobRec
<1>9. /\ locals \in JobRec /\ locals.op = job[j].op /\ locals.mid = job[j].mid
      /\ locals.conv = c /\ locals.since = job[j].since /\ locals.at = job[j].at
      /\ locals.last = job[j].last /\ locals.began = job[j].began /\ locals.todo = job[j].todo
  BY <1>7 DEF JobRec
<1>10. PICK step \in {"dedupe", "next", "send"} :
            /\ pc' = [pc EXCEPT ![j] = step]
            /\ job[j].op = "inbound" => step = "dedupe"
            /\ job[j].op = "pass" => step \in {"next", "send"}
            /\ job[j].op = "pass" /\ step = "send" => job[j].mid # 0
  BY <1>8 DEF Reopen, Goto
<1>11. job' = [job EXCEPT ![j] = locals]
  BY DEF Reopen, Base, JobTypes
<1>. HIDE DEF locals, row
<1>12. job'[j] = locals /\ pc'[j] = step
  BY <1>10, <1>11 DEF Base, JobTypes
<1>13. JobInTime(j)'
  BY <1>5, <1>7, <1>9, <1>12 DEF JobInTime, JobFits
<1>14. JobRefers(j)'
  BY <1>5, <1>6, <1>7, <1>9, <1>10, <1>12 DEF JobRefers, JobFits, HasConv
<1>15. JobFits(j)'
  BY <1>8, <1>9, <1>10, <1>12, <1>13, <1>14 DEF JobFits, StepsOf
<1>. QED
  BY <1>5, <1>6, <1>9, <1>10, <1>11, <1>15, JobMoves DEF Steps

\* The lookup of a message for a webhook keeps Base.
LEMMA DedupeBase == ASSUME Base, NEW j \in Job, Dedupe(j) PROVE Base'
<1>1. Data' /\ Grows /\ Live' = Live /\ thread' = thread /\ now' = now /\ crowded' \in BOOLEAN
  BY SameData DEF Base, JobTypes, Dedupe, Live, ghosts
<1>2. pc[j] = "dedupe" /\ job[j] \in JobRec /\ JobFits(j) /\ now \in Nat
  BY DEF Base, Data, DataTypes, JobTypes, Dedupe
<1>3. job[j].op \in {"inbound", "echo"}
  BY <1>2 DEF JobFits, StepsOf, JobRec
<1>4. CASE End(j)
  BY <1>1, <1>4, EndMoves
<1>5. CASE Goto(j, "send") /\ UNCHANGED job
  <2>1. pc' = [pc EXCEPT ![j] = "send"] /\ pc'[j] = "send" /\ job' = job
    BY <1>5 DEF Goto, Base, JobTypes
  <2>2. JobFits(j)'
    BY <1>1, <1>2, <1>3, <2>1 DEF JobFits, StepsOf, JobInTime, JobRefers, HasConv
  <2>3. job' = [job EXCEPT ![j] = job[j]]
    BY <2>1 DEF Base, JobTypes
  <2>. QED
    BY <1>1, <1>2, <2>1, <2>2, <2>3, JobMoves DEF Steps
<1>. QED
  BY <1>4, <1>5 DEF Dedupe

\* A job that has its conversation goes on with it.
LEMMA StepMoves ==
    ASSUME Base, Data', Grows, crowded' \in BOOLEAN, NEW j \in Job, HasConv(j),
           NEW step, NEW locals \in JobRec, pc' = [pc EXCEPT ![j] = step],
           job' = [job EXCEPT ![j] = locals],
           locals.op = job[j].op, locals.conv = job[j].conv, locals.since = job[j].since,
           locals.began = job[j].began,
           job[j].op # "none",
           step \in StepsOf(job[j].op), step \notin {"list", "find", "create"},
           locals.mid \in 0 .. Len(thread'),
           locals.op \in {"inbound", "echo"} => locals.mid = job[j].mid,
           locals.op = "pass" => /\ step \in {"send", "commit"} => locals.mid # 0
                                 /\ \E n \in 0 .. Len(thread) : locals.todo = 1 .. n
    PROVE  Base'
<1>1. pc'[j] = step /\ job'[j] = locals /\ JobFits(j) /\ job[j] \in JobRec
  BY DEF Base, JobTypes
<1>2. now \in Nat /\ now' \in Nat /\ Len(thread) \in Nat /\ Len(thread') \in Nat
      /\ DOMAIN thread = 1 .. Len(thread) /\ DOMAIN thread' = 1 .. Len(thread')
  BY DEF Base, Data, DataTypes
<1>3. locals.at \in Nat /\ locals.last \in Nat
  BY DEF JobRec
<1>4. JobInTime(j)'
  BY <1>1, <1>2, <1>3 DEF JobFits, JobInTime, Grows
<1>5. job[j].conv \in Live /\ (job[j].op \in {"inbound", "echo"} => job[j].mid # 0)
  BY <1>1 DEF JobFits, JobRefers
<1>6. JobRefers(j)'
  BY <1>1, <1>2, <1>5 DEF JobRefers, Grows, HasConv
<1>7. JobFits(j)'
  BY <1>1, <1>4, <1>6 DEF JobFits
<1>8. step \in Steps
  BY DEF StepsOf, Steps, JobRec
<1>. QED
  BY <1>7, <1>8, JobMoves

\* The locals of a job, where they are within what is known.
LEMMA JobKnown ==
    ASSUME Base, NEW j \in Job
    PROVE  /\ job[j] \in JobRec
           /\ HasConv(j) => job[j].conv \in Live
           /\ job[j].mid \in 0 .. Len(thread)
           /\ job[j].op = "pass" => \E n \in 0 .. Len(thread) : job[j].todo = 1 .. n
  BY DEF Base, JobTypes, JobFits, JobInTime, JobRefers

\* So are they after the step, when it takes nothing away.
LEMMA StillKnown ==
    ASSUME Base, Data', Grows, NEW j \in Job
    PROVE  job[j].mid \in 0 .. Len(thread')
<1>1. now \in Nat /\ now' \in Nat /\ Len(thread) \in Nat /\ Len(thread') \in Nat
  BY DEF Base, Data, DataTypes
<1>2. job[j].mid \in 0 .. Len(thread)
  BY DEF Base, JobFits, JobRefers
<1>. QED
  BY <1>1, <1>2 DEF Grows

\* A job that threw goes on with its next message, or ends.
LEMMA ThrownMoves ==
    ASSUME Base, Data', Grows, crowded' \in BOOLEAN, NEW j \in Job, HasConv(j), Thrown(j)
    PROVE  Base'
<1>1. CASE job[j].op = "pass"
  <2>. DEFINE locals == [job[j] EXCEPT !.failed = TRUE]
  <2>1. /\ locals \in JobRec /\ locals.op = job[j].op /\ locals.mid = job[j].mid
        /\ locals.conv = job[j].conv /\ locals.since = job[j].since /\ locals.at = job[j].at
        /\ locals.last = job[j].last /\ locals.began = job[j].began /\ locals.todo = job[j].todo
    BY JobKnown DEF JobRec
  <2>2. job' = [job EXCEPT ![j] = locals] /\ pc' = [pc EXCEPT ![j] = "next"]
    BY <1>1 DEF Thrown, Goto
  <2>. HIDE DEF locals
  <2>. QED
    BY <1>1, <2>1, <2>2, JobKnown, StillKnown, StepMoves DEF StepsOf
<1>2. CASE job[j].op # "pass"
  BY <1>2, EndMoves DEF Thrown
<1>. QED
  BY <1>1, <1>2

\* So does one that is done with a message.
LEMMA DoneMoves ==
    ASSUME Base, Data', Grows, crowded' \in BOOLEAN, NEW j \in Job, HasConv(j), Done(j)
    PROVE  Base'
<1>1. CASE job[j].op = "pass"
  <2>. DEFINE locals == [job[j] EXCEPT !.reopen = FALSE]
  <2>1. /\ locals \in JobRec /\ locals.op = job[j].op /\ locals.mid = job[j].mid
        /\ locals.conv = job[j].conv /\ locals.since = job[j].since /\ locals.at = job[j].at
        /\ locals.last = job[j].last /\ locals.began = job[j].began /\ locals.todo = job[j].todo
    BY JobKnown DEF JobRec
  <2>2. job' = [job EXCEPT ![j] = locals] /\ pc' = [pc EXCEPT ![j] = "next"]
    BY <1>1 DEF Done, Goto
  <2>. HIDE DEF locals
  <2>. QED
    BY <1>1, <2>1, <2>2, JobKnown, StillKnown, StepMoves DEF StepsOf
<1>2. CASE job[j].op # "pass"
  BY <1>2, EndMoves DEF Done
<1>. QED
  BY <1>1, <1>2

\* The transaction keeps Base when it reads.
LEMMA SendBase == ASSUME Base, NEW j \in Job, Send(j) PROVE Base'
<1>1. Data' /\ Grows /\ Live' = Live /\ thread' = thread /\ now' = now /\ crowded' \in BOOLEAN
  BY SameData DEF Base, JobTypes, Send, Live, ghosts
<1>2. pc[j] = "send" /\ job[j] \in JobRec /\ JobFits(j) /\ now \in Nat /\ HasConv(j)
  BY DEF Base, Data, DataTypes, JobTypes, Send, HasConv
<1>3. CASE Thrown(j)
  BY <1>1, <1>2, <1>3, ThrownMoves
<1>4. CASE /\ job' = [job EXCEPT ![j].last = conv[job[j].conv].last,
                       ![j].at = IF job[j].op = "pass" THEN thread[job[j].mid].at ELSE now]
           /\ Goto(j, "commit")
  <2>. DEFINE at == IF job[j].op = "pass" THEN thread[job[j].mid].at ELSE now
              last == conv[job[j].conv].last
              locals == [job[j] EXCEPT !.last = last, !.at = at]
  <2>1. last \in Nat
    <3>1. job[j].conv \in Live
      BY <1>2 DEF JobFits, JobRefers
    <3>. QED
      BY <3>1, LiveRow DEF Base, Data, ConvRow
  <2>2. at \in Nat
    <3>1. job[j].op = "pass" => job[j].mid \in DOMAIN thread
      BY <1>2 DEF JobFits, JobRefers, Base, Data, DataTypes
    <3>. QED
      BY <1>2, <3>1 DEF Base, Data, ThreadInOrder
  <2>3. job' = [job EXCEPT ![j] = locals] /\ pc' = [pc EXCEPT ![j] = "commit"]
    BY <1>4 DEF Goto
  <2>. HIDE DEF at, last
  <2>4. /\ locals \in JobRec /\ locals.op = job[j].op /\ locals.mid = job[j].mid
        /\ locals.conv = job[j].conv /\ locals.since = job[j].since /\ locals.at = at
        /\ locals.last = last /\ locals.began = job[j].began /\ locals.todo = job[j].todo
    BY <2>1, <2>2, JobKnown DEF JobRec
  <2>. HIDE DEF locals
  <2>5. job[j].op \in {"inbound", "echo", "send", "pass"}
    BY <1>2 DEF JobFits, StepsOf, JobRec
  <2>6. job[j].op = "pass" => job[j].mid # 0
    BY <1>2 DEF JobFits, JobRefers
  <2>7. "commit" \in StepsOf(job[j].op)
    BY <2>5 DEF StepsOf
  <2>. QED
    BY <1>1, <1>2, <2>3, <2>4, <2>5, <2>6, <2>7, JobKnown, StillKnown, StepMoves
<1>. QED
  BY <1>3, <1>4 DEF Send

\* It keeps Base when it writes, and when it is rolled back.
LEMMA CommitBase == ASSUME Base, NEW j \in Job, Commit(j) PROVE Base'
<1>. DEFINE c == job[j].conv
            written == [conv[c] EXCEPT !.last = NextLast(job[j])]
            new == [conv |-> c, mid |-> job[j].mid, at |-> job[j].at, op |-> job[j].op]
<1>1. pc[j] = "commit" /\ job[j] \in JobRec /\ JobFits(j) /\ now \in Nat /\ HasConv(j)
      /\ UNCHANGED <<thread, now, late, mistimed>> /\ crowded' \in BOOLEAN
  BY DEF Base, Data, DataTypes, JobTypes, Commit, HasConv, ghosts
<1>2. c \in Live /\ c \in Conv /\ conv[c] \in ConvRow
  BY <1>1, JobKnown, LiveRow DEF Base, Data
<1>3. job[j].op \in {"inbound", "echo", "send", "pass"}
  BY <1>1 DEF JobFits, StepsOf, JobRec
<1>4. CASE UNCHANGED <<rows, conv>> /\ Thrown(j)
  BY <1>1, <1>4, SameData, ThrownMoves DEF Base
<1>5. CASE /\ rows' = Append(rows, new) /\ conv' = [conv EXCEPT ![c].last = NextLast(job[j])]
           /\ IF SkipsDispatch(job[j].op) THEN Done(j)
              ELSE Goto(j, "dispatch") /\ job' = [job EXCEPT ![j].row = Len(rows')]
  <2>1. NextLast(job[j]) \in Nat
    BY <1>1 DEF NextLast, JobRec
  <2>2. written \in ConvRow /\ written.last = NextLast(job[j]) /\ written.synced = conv[c].synced
    BY <1>1, <1>2, <2>1 DEF ConvRow
  <2>3. conv' = [conv EXCEPT ![c] = written]
    BY <1>5
  <2>4. conv'[c] = written /\ \A d \in Conv \ {c} : conv'[d] = conv[d]
    BY <1>2, <2>3 DEF Base, Data, DataTypes
  <2>5. Live' = Live
    BY <1>2, <2>2, <2>4, NoConvIsNoRow DEF Live
  <2>6. new \in RowRec /\ new.conv = c /\ new.mid = job[j].mid /\ new.at = job[j].at
    BY <1>1, <1>2, <1>3 DEF JobRec, RowRec
  <2>. HIDE DEF new, written
  <2>7. rows' \in Seq(RowRec) /\ Len(rows') = Len(rows) + 1 /\ Len(rows) \in Nat
        /\ DOMAIN rows = 1 .. Len(rows) /\ DOMAIN rows' = 1 .. Len(rows) + 1
    BY <1>5, <2>6 DEF Base, Data, DataTypes
  <2>8. rows'[Len(rows) + 1] = new /\ \A r \in DOMAIN rows : rows'[r] = rows[r]
    BY <1>5, <2>6, <2>7 DEF Base, Data, DataTypes
  <2>9. DataTypes'
    BY <1>1, <1>2, <2>2, <2>3, <2>7 DEF Base, Data, DataTypes
  <2>10. job[j].mid \in 0 .. Len(thread)
    BY JobKnown
  <2>11. RowsRefer'
    BY <1>1, <1>2, <2>1, <2>5, <2>6, <2>7, <2>8, <2>10 DEF Base, Data, RowsRefer
  <2>12. ThreadInOrder'
    BY <1>1, <2>7 DEF Base, Data, DataTypes, ThreadInOrder
  <2>13. ConvInTime'
    BY <1>1, <2>1, <2>2, <2>4, <2>5, LiveRow DEF Base, Data, ConvInTime
  <2>14. Data' /\ Grows
    BY <1>1, <2>5, <2>7, <2>9, <2>11, <2>12, <2>13 DEF Base, Data, LiveFinite, Grows
  <2>15. CASE Done(j)
    BY <1>1, <2>14, <2>15, DoneMoves
  <2>16. CASE Goto(j, "dispatch") /\ job' = [job EXCEPT ![j].row = Len(rows')] /\ job[j].op = "send"
    <3>. DEFINE locals == [job[j] EXCEPT !.row = Len(rows')]
    <3>1. /\ locals \in JobRec /\ locals.op = job[j].op /\ locals.mid = job[j].mid
          /\ locals.conv = job[j].conv /\ locals.since = job[j].since /\ locals.at = job[j].at
          /\ locals.last = job[j].last /\ locals.began = job[j].began /\ locals.todo = job[j].todo
      <4>1. Len(rows') \in Nat
        BY <2>7
      <4>. QED
        BY <4>1, JobKnown DEF JobRec
    <3>2. job' = [job EXCEPT ![j] = locals] /\ pc' = [pc EXCEPT ![j] = "dispatch"]
      BY <2>16 DEF Goto
    <3>. HIDE DEF locals
    <3>. QED
      BY <1>1, <2>14, <2>16, <3>1, <3>2, JobKnown, StillKnown, StepMoves DEF StepsOf
  <2>. QED
    BY <1>3, <1>5, <2>15, <2>16 DEF SkipsDispatch
<1>. QED
  BY <1>4, <1>5 DEF Commit

\* Posting a reply keeps Base, however often it is posted.
LEMMA DispatchBase == ASSUME Base, NEW j \in Job, ReplyFits(j), Dispatch(j) PROVE Base'
<1>1. PICK n \in 0 .. MaxAttempts :
        /\ PostReply(job[j].row, n)
        /\ LET posted == Len(thread) + 1 .. Len(thread) + n IN
           \/ \E m \in posted :
                /\ job' = [job EXCEPT ![j].mid = m]
                /\ lost' = lost \cup (posted \ {m})
                /\ Goto(j, "merge")
           \/ /\ lost' = lost \cup posted
              /\ End(j)
        /\ late' \in {late} \cup (IF n < MaxAttempts THEN {late \cup {job[j].row}} ELSE {})
  BY DEF Dispatch
<1>2. /\ pc[j] = "dispatch" /\ job[j] \in JobRec /\ JobFits(j) /\ HasConv(j) /\ n \in Nat
      /\ crowded' \in BOOLEAN /\ UNCHANGED <<rows, conv>> /\ Len(thread) \in Nat
  BY BoundsAreNat DEF Dispatch, Base, Data, DataTypes, JobTypes, HasConv
<1>3. job[j].op = "send"
  BY <1>2 DEF JobFits, StepsOf, JobRec
<1>4. job[j].row \in DOMAIN rows
  BY <1>2, <1>3 DEF ReplyFits, Owns
<1>5. Data' /\ Grows
  <2>1. late' \subseteq DOMAIN rows
    BY <1>1, <1>4 DEF Base, Data, DataTypes
  <2>. QED
    BY <1>1, <1>2, <1>4, <2>1, PostData
<1>6. Len(thread') = Len(thread) + n
  <2>1. job[j].row \in Nat /\ PostReply(job[j].row, n) /\ DataTypes
    BY <1>1, <1>2 DEF JobRec, Base, Data
  <2>. QED
    BY <1>2, <2>1, PostReplyLonger
<1>7. CASE End(j)
  BY <1>2, <1>5, <1>7, EndMoves
<1>8. ASSUME NEW m \in Len(thread) + 1 .. Len(thread) + n,
             job' = [job EXCEPT ![j].mid = m], Goto(j, "merge")
      PROVE  Base'
  <2>. DEFINE locals == [job[j] EXCEPT !.mid = m]
  <2>1. m \in Nat /\ m \in 0 .. Len(thread')
    BY <1>2, <1>6
  <2>2. /\ locals \in JobRec /\ locals.op = job[j].op /\ locals.mid = m
        /\ locals.conv = job[j].conv /\ locals.since = job[j].since /\ locals.at = job[j].at
        /\ locals.last = job[j].last /\ locals.began = job[j].began /\ locals.todo = job[j].todo
    BY <1>2, <2>1 DEF JobRec
  <2>3. job' = [job EXCEPT ![j] = locals] /\ pc' = [pc EXCEPT ![j] = "merge"]
    BY <1>8 DEF Goto
  <2>. HIDE DEF locals
  <2>. QED
    BY <1>2, <1>3, <1>5, <2>1, <2>2, <2>3, StepMoves DEF StepsOf
<1>. QED
  BY <1>1, <1>7, <1>8

\* Giving a reply its mid keeps Base: the row and the message are there.
LEMMA MergeBase == ASSUME Base, NEW j \in Job, ReplyFits(j), Merge(j) PROVE Base'
<1>. DEFINE row == job[j].row
            new == [rows[row] EXCEPT !.mid = job[j].mid]
<1>1. /\ pc[j] = "merge" /\ job[j] \in JobRec /\ JobFits(j) /\ HasConv(j)
      /\ crowded' \in BOOLEAN /\ UNCHANGED <<thread, now, late, conv, mistimed>>
      /\ rows \in Seq(RowRec) /\ now \in Nat /\ Len(thread) \in Nat
  BY DEF Merge, Base, Data, DataTypes, JobTypes, HasConv, ghosts
<1>2. job[j].op = "send" /\ job[j].mid \in 0 .. Len(thread)
  BY <1>1, JobKnown DEF JobFits, StepsOf, JobRec
<1>3. row \in DOMAIN rows
  BY <1>1, <1>2 DEF ReplyFits, Owns
<1>4. rows' = [rows EXCEPT ![row] = new] /\ End(j)
  BY DEF Merge
<1>5. rows[row] \in RowRec /\ DOMAIN rows = 1 .. Len(rows)
  BY <1>1, <1>3
<1>6. /\ new \in RowRec /\ new.conv = rows[row].conv /\ new.at = rows[row].at
      /\ new.mid = job[j].mid
  BY <1>2, <1>5 DEF RowRec
<1>. HIDE DEF row, new
<1>7. rows' \in Seq(RowRec) /\ Len(rows') = Len(rows) /\ DOMAIN rows' = DOMAIN rows /\ Len(rows) \in Nat
  BY <1>1, <1>3, <1>4, <1>6, ExceptSeq
<1>8. rows'[row] = new /\ \A r \in DOMAIN rows : r # row => rows'[r] = rows[r]
  BY <1>1, <1>3, <1>4
<1>9. Live' = Live
  BY <1>1 DEF Live
<1>10. DataTypes'
  BY <1>1, <1>7 DEF Base, Data, DataTypes
<1>11. RowsRefer'
  BY <1>1, <1>2, <1>3, <1>6, <1>7, <1>8, <1>9 DEF Base, Data, RowsRefer
<1>12. ThreadInOrder' /\ ConvInTime' /\ LiveFinite'
  BY <1>1, <1>7, <1>9 DEF Base, Data, ThreadInOrder, ConvInTime, LiveFinite
<1>13. Data' /\ Grows
  BY <1>1, <1>7, <1>9, <1>10, <1>11, <1>12 DEF Data, Grows
<1>. QED
  BY <1>1, <1>4, <1>13, EndMoves

\* Listing the thread keeps Base: a pass has all of it left to do.
LEMMA ListBase == ASSUME Base, NEW j \in Job, List(j) PROVE Base'
<1>1. Data' /\ Grows /\ Live' = Live /\ thread' = thread /\ now' = now /\ crowded' \in BOOLEAN
  BY SameData DEF Base, JobTypes, List, Live, ghosts
<1>2. pc[j] = "list" /\ job[j] \in JobRec /\ JobFits(j) /\ now \in Nat /\ Len(thread) \in Nat
      /\ DOMAIN thread = 1 .. Len(thread)
  BY DEF Base, Data, DataTypes, JobTypes, List
<1>3. CASE End(j)
  BY <1>1, <1>3, EndMoves
<1>4. CASE job' = [job EXCEPT ![j].todo = DOMAIN thread] /\ Goto(j, "find")
  <2>. DEFINE locals == [job[j] EXCEPT !.todo = DOMAIN thread]
  <2>1. /\ locals \in JobRec /\ locals.op = job[j].op /\ locals.mid = job[j].mid
        /\ locals.since = job[j].since /\ locals.at = job[j].at
        /\ locals.last = job[j].last /\ locals.began = job[j].began /\ locals.todo = DOMAIN thread
    BY <1>2 DEF JobRec
  <2>2. job' = [job EXCEPT ![j] = locals] /\ pc' = [pc EXCEPT ![j] = "find"]
    BY <1>4 DEF Goto
  <2>. HIDE DEF locals
  <2>3. job'[j] = locals /\ pc'[j] = "find"
    BY <2>2 DEF Base, JobTypes
  <2>4. job[j].op = "pass"
    BY <1>2 DEF JobFits, StepsOf, JobRec
  <2>5. JobInTime(j)'
    BY <1>1, <1>2, <2>1, <2>3 DEF JobFits, JobInTime
  <2>6. JobRefers(j)'
    BY <1>1, <1>2, <2>1, <2>3, <2>4 DEF JobFits, JobRefers, HasConv
  <2>7. JobFits(j)'
    BY <2>1, <2>3, <2>4, <2>5, <2>6 DEF JobFits, StepsOf
  <2>. QED
    BY <1>1, <2>1, <2>2, <2>7, JobMoves DEF Steps
<1>. QED
  BY <1>3, <1>4 DEF List

\* The newest of the first n messages is the last of them.
LEMMA NewestOfFirst == ASSUME NEW n \in Nat, n # 0 PROVE Newest(1 .. n) = n
<1>1. n \in 1 .. n /\ \A m \in 1 .. n : m <= n
  OBVIOUS
<1>2. \A k \in 1 .. n : (\A m \in 1 .. n : m <= k) => k = n
  OBVIOUS
<1>. QED
  BY <1>1, <1>2 DEF Newest

\* What a pass has left to do: the messages up to one, which is the newest.
LEMMA NewestTodo ==
    ASSUME Base, NEW j \in Job, job[j].op = "pass", job[j].todo # {}
    PROVE  \E n \in 1 .. Len(thread) :
              /\ job[j].todo = 1 .. n /\ Newest(job[j].todo) = n
              /\ job[j].todo \ {n} = 1 .. n - 1
<1>1. PICK n \in 0 .. Len(thread) : job[j].todo = 1 .. n
  BY DEF Base, JobFits, JobRefers
<1>2. Len(thread) \in Nat /\ n # 0 /\ n \in Nat
  BY <1>1 DEF Base, Data, DataTypes
<1>3. (1 .. n) \ {n} = 1 .. n - 1
  BY <1>2
<1>. QED
  BY <1>1, <1>2, <1>3, NewestOfFirst

\* Taking the newest message keeps Base: the ones before it are left.
LEMMA NextMessageBase == ASSUME Base, NEW j \in Job, NextMessage(j) PROVE Base'
<1>1. Data' /\ Grows /\ Live' = Live /\ thread' = thread /\ now' = now /\ crowded' \in BOOLEAN
  BY SameData DEF Base, JobTypes, NextMessage, Live, ghosts
<1>2. pc[j] = "next" /\ job[j] \in JobRec /\ JobFits(j) /\ HasConv(j) /\ Len(thread) \in Nat
  BY DEF Base, Data, DataTypes, JobTypes, NextMessage, HasConv
<1>3. job[j].op = "pass" /\ job[j].todo # {}
  BY <1>2 DEF JobFits, StepsOf, JobRec, NextMessage, Drained
<1>4. PICK m \in 1 .. Len(thread) :
         /\ Newest(job[j].todo) = m /\ job[j].todo \ {m} = 1 .. m - 1
  BY <1>3, NewestTodo
<1>5. m - 1 \in 0 .. Len(thread) /\ m \in 0 .. Len(thread') /\ m # 0 /\ m \in Nat
  BY <1>1, <1>2
<1>6. CASE job' = [job EXCEPT ![j].todo = @ \ {m}] /\ UNCHANGED pc
  <2>. DEFINE locals == [job[j] EXCEPT !.todo = @ \ {m}]
  <2>1. /\ locals \in JobRec /\ locals.op = job[j].op /\ locals.mid = job[j].mid
        /\ locals.conv = job[j].conv /\ locals.since = job[j].since /\ locals.at = job[j].at
        /\ locals.last = job[j].last /\ locals.began = job[j].began
        /\ locals.todo = job[j].todo \ {m}
    BY <1>2 DEF JobRec
  <2>2. job' = [job EXCEPT ![j] = locals] /\ pc' = [pc EXCEPT ![j] = "next"]
    BY <1>2, <1>6 DEF Base, JobTypes
  <2>. HIDE DEF locals
  <2>3. "next" \in StepsOf(job[j].op)
    BY <1>3 DEF StepsOf
  <2>. QED
    BY <1>1, <1>2, <1>3, <1>4, <1>5, <2>1, <2>2, <2>3, StillKnown, StepMoves
<1>7. ASSUME NEW step \in {"reopen", "send"}, Goto(j, step),
             job' = [[job EXCEPT ![j].todo = @ \ {m}] EXCEPT ![j].mid = m]
      PROVE  Base'
  <2>. DEFINE locals == [job[j] EXCEPT !.todo = @ \ {m}, !.mid = m]
  <2>1. /\ locals \in JobRec /\ locals.op = job[j].op /\ locals.mid = m
        /\ locals.conv = job[j].conv /\ locals.since = job[j].since /\ locals.at = job[j].at
        /\ locals.last = job[j].last /\ locals.began = job[j].began
        /\ locals.todo = job[j].todo \ {m}
    BY <1>2, <1>5 DEF JobRec
  <2>2. job' = [job EXCEPT ![j] = locals] /\ pc' = [pc EXCEPT ![j] = step]
    BY <1>7 DEF Goto, Base, JobTypes
  <2>. HIDE DEF locals
  <2>3. step \in StepsOf(job[j].op)
    BY <1>3 DEF StepsOf
  <2>. QED
    BY <1>1, <1>2, <1>3, <1>4, <1>5, <2>1, <2>2, <2>3, StillKnown, StepMoves
<1>. QED
  BY <1>4, <1>6, <1>7 DEF NextMessage

\* So does passing it over, noted or not.
LEMMA DropBase ==
    ASSUME Base, NEW j \in Job, pc[j] = "next", job[j].todo # {}, Data', Grows, crowded' \in BOOLEAN,
           UNCHANGED pc, NEW locals \in JobRec, job' = [job EXCEPT ![j] = locals],
           locals.op = job[j].op, locals.mid = job[j].mid, locals.conv = job[j].conv,
           locals.since = job[j].since, locals.began = job[j].began,
           locals.todo = job[j].todo \ {Newest(job[j].todo)}
    PROVE  Base'
<1>1. job[j] \in JobRec /\ JobFits(j) /\ HasConv(j) /\ Len(thread) \in Nat
  BY DEF Base, Data, DataTypes, JobTypes, HasConv
<1>2. job[j].op = "pass"
  BY <1>1 DEF JobFits, StepsOf, JobRec
<1>3. PICK m \in 1 .. Len(thread) :
         /\ Newest(job[j].todo) = m /\ job[j].todo \ {m} = 1 .. m - 1
  BY <1>2, NewestTodo
<1>4. m - 1 \in 0 .. Len(thread)
  BY <1>1
<1>5. pc' = [pc EXCEPT ![j] = "next"] /\ "next" \in StepsOf(job[j].op) /\ "next" \in Steps
  BY <1>2 DEF Base, JobTypes, StepsOf, Steps
<1>6. \E n \in 0 .. Len(thread) : locals.todo = 1 .. n
  BY <1>3, <1>4
<1>7. locals.mid \in 0 .. Len(thread')
  BY StillKnown
<1>. QED
  BY <1>1, <1>2, <1>5, <1>6, <1>7, StepMoves

\* Passing a message over keeps Base: it is in the thread.
LEMMA SkipUnreadableBase == ASSUME Base, NEW j \in Job, SkipUnreadable(j) PROVE Base'
<1>1. pc[j] = "next" /\ job[j].todo # {} /\ crowded' = crowded /\ crowded \in BOOLEAN
      /\ job[j] \in JobRec /\ UNCHANGED <<thread, now, conv, rows, late, pc>>
  BY DEF SkipUnreadable, Base, JobTypes
<1>2. job[j].op = "pass"
  BY <1>1 DEF Base, JobFits, StepsOf, JobTypes, JobRec
<1>3. Newest(job[j].todo) \in 1 .. Len(thread) /\ DOMAIN thread = 1 .. Len(thread)
  BY <1>1, <1>2, NewestTodo DEF Base, Data, DataTypes
<1>4. Live' = Live
  BY <1>1 DEF Live
<1>5. mistimed' = mistimed \cup {Newest(job[j].todo)}
  BY DEF SkipUnreadable
<1>6. DataTypes'
  BY <1>1, <1>3, <1>5 DEF Base, Data, DataTypes
<1>7. Data' /\ Grows
  BY <1>1, <1>4, <1>5, <1>6 DEF Base, Data, DataTypes, LiveFinite, ThreadInOrder, RowsRefer,
     ConvInTime, Grows
<1>. DEFINE locals == [job[j] EXCEPT !.todo = @ \ {Newest(@)}]
<1>8. /\ locals \in JobRec /\ locals.op = job[j].op /\ locals.mid = job[j].mid
      /\ locals.conv = job[j].conv /\ locals.since = job[j].since /\ locals.began = job[j].began
      /\ locals.todo = job[j].todo \ {Newest(job[j].todo)}
  BY <1>1 DEF JobRec
<1>9. job' = [job EXCEPT ![j] = locals] /\ UNCHANGED pc
  BY <1>1 DEF SkipUnreadable, Drop
<1>. HIDE DEF locals
<1>. QED
  BY <1>1, <1>7, <1>8, <1>9, DropBase

\* So does stumbling over one.
LEMMA StumbleBase == ASSUME Base, NEW j \in Job, Stumble(j) PROVE Base'
<1>1. Data' /\ Grows /\ crowded' \in BOOLEAN /\ job[j].op = "pass"
  BY SameData DEF Base, JobTypes, Stumble, ghosts
<1>2. CASE pc[j] = "next" /\ ~Drained(job[j]) /\ job' = [Drop(j) EXCEPT ![j].failed = TRUE]
           /\ UNCHANGED pc
  <2>1. job[j].todo # {}
    BY <1>2 DEF Drained
  <2>. DEFINE locals == [job[j] EXCEPT !.todo = @ \ {Newest(@)}, !.failed = TRUE]
  <2>2. /\ locals \in JobRec /\ locals.op = job[j].op /\ locals.mid = job[j].mid
        /\ locals.conv = job[j].conv /\ locals.since = job[j].since /\ locals.began = job[j].began
        /\ locals.todo = job[j].todo \ {Newest(job[j].todo)}
    BY JobKnown DEF JobRec
  <2>3. job' = [job EXCEPT ![j] = locals]
    BY <1>2 DEF Drop, Base, JobTypes
  <2>. HIDE DEF locals
  <2>. QED
    BY <1>1, <1>2, <2>1, <2>2, <2>3, DropBase
<1>3. CASE pc[j] \in {"reopen", "send"} /\ Thrown(j)
  BY <1>1, <1>3, ThrownMoves DEF HasConv
<1>. QED
  BY <1>2, <1>3 DEF Stumble

\* Moving the watermark keeps Base: a pass began in the past.
LEMMA AdvanceBase == ASSUME Base, NEW j \in Job, Advance(j) PROVE Base'
<1>. DEFINE c == job[j].conv
            row == [conv[c] EXCEPT !.synced = job[j].began]
<1>1. /\ c \in Live /\ c \in Conv /\ conv[c] \in ConvRow /\ End(j) /\ job[j].began \in 0 .. now
      /\ now \in Nat
  BY LiveRow DEF Advance, Base, Data, DataTypes, JobFits, JobInTime, JobRefers, HasConv
<1>2. UNCHANGED <<thread, now, rows, late, mistimed>> /\ crowded' \in BOOLEAN
  BY DEF Advance, Base, JobTypes, ghosts
<1>3. CASE conv' = conv
  BY <1>1, <1>2, <1>3, SameData, EndMoves DEF Base
<1>4. CASE conv' = [conv EXCEPT ![c] = row]
  <2>1. row \in ConvRow /\ row.last = conv[c].last /\ row.synced = job[j].began
    BY <1>1 DEF ConvRow
  <2>2. job[j].began <= now
    BY <1>1 DEF Base, Data, ConvInTime
  <2>3. Data /\ conv' = [conv EXCEPT ![c] = row]
    BY <1>4 DEF Base
  <2>4. Data' /\ Grows
    <3>. HIDE DEF row, c
    <3>. QED
      BY <1>1, <1>2, <2>1, <2>2, <2>3, ConvData
  <2>. QED
    BY <1>1, <1>2, <2>4, EndMoves
<1>. QED
  BY <1>3, <1>4 DEF Advance

\* A job that fails keeps Base.
LEMMA FailBase == ASSUME Base, NEW j \in Job, Fail(j) PROVE Base'
<1>1. Data' /\ Grows /\ crowded' \in BOOLEAN /\ End(j)
  BY SameData DEF Base, JobTypes, Fail
<1>. QED
  BY <1>1, EndMoves

\* Base holds at first, when nothing is stored.
LEMMA InitBase == Init => Base
<1>. SUFFICES ASSUME Init PROVE Base
  OBVIOUS
<1>1. Live = {}
  BY DEF Init, Live
<1>2. DataTypes
  BY BoundsAreNat DEF Init, DataTypes
<1>3. LiveFinite
  BY <1>1, FS_EmptySet DEF LiveFinite
<1>4. ThreadInOrder /\ RowsRefer /\ ConvInTime
  BY <1>1 DEF Init, ThreadInOrder, RowsRefer, ConvInTime
<1>5. JobTypes
  BY IdleIsLocals DEF Init, JobTypes, Steps
<1>6. ASSUME NEW j \in Job PROVE JobFits(j)
  BY DEF Init, JobFits, StepsOf, JobInTime, JobRefers, HasConv, Idle
<1>. QED
  BY <1>2, <1>3, <1>4, <1>5, <1>6 DEF Base, Data

----------------------------------------------------------------------------
\* What the actions do to a job, field by field.

\* No other job moves.
OthersKept(j) == \A k \in Job : k # j => Kept(k)

\* What a job is for stays.
SameCall(j) ==
    /\ job'[j].op = job[j].op /\ job'[j].row = job[j].row /\ job'[j].began = job[j].began
    /\ job'[j].conv = job[j].conv /\ job'[j].since = job[j].since

\* What it has in hand stays.
SameWork(j) ==
    /\ job'[j].mid = job[j].mid /\ job'[j].todo = job[j].todo /\ job'[j].failed = job[j].failed

\* The job ends.
Ends(j) == pc'[j] = "ended" /\ job'[j] = Idle

\* The job throws: a pass notes it, the others end.
Fails(j) ==
    \/ Ends(j)
    \/ /\ job[j].op = "pass" /\ pc'[j] = "next" /\ SameCall(j) /\ job'[j].failed
       /\ job'[j].mid = job[j].mid /\ job'[j].todo = job[j].todo

\* The job starts.
Starts(j, step, op, mid) ==
    /\ pc[j] = "idle" /\ pc'[j] = step /\ OthersKept(j)
    /\ job'[j].op = op /\ job'[j].mid = mid /\ job'[j].row = 0 /\ ~job'[j].failed
    /\ UNCHANGED <<thread, now, conv, rows, crossed, lost, mistimed>>

\* An update of a job is one of its own step and locals.
LEMMA PcJob ==
    ASSUME JobTypes, NEW j \in Job, NEW step, NEW locals, pc' = [pc EXCEPT ![j] = step],
           job' = [job EXCEPT ![j] = locals]
    PROVE  pc'[j] = step /\ job'[j] = locals /\ OthersKept(j)
  BY DEF JobTypes, OthersKept, Kept

\* End leaves nothing in the job.
LEMMA EndDoes ==
    ASSUME JobTypes, NEW j \in Job, End(j)
    PROVE  Ends(j) /\ OthersKept(j)
  BY PcJob DEF End, Goto, Ends

\* A job that throws ends, or notes it and goes on.
LEMMA ThrownDoes ==
    ASSUME JobTypes, NEW j \in Job, Thrown(j)
    PROVE  Fails(j) /\ OthersKept(j)
<1>1. CASE job[j].op = "pass"
  <2>. DEFINE locals == [job[j] EXCEPT !.failed = TRUE]
  <2>1. /\ locals.op = job[j].op /\ locals.mid = job[j].mid /\ locals.row = job[j].row
        /\ locals.conv = job[j].conv /\ locals.since = job[j].since
        /\ locals.began = job[j].began /\ locals.todo = job[j].todo /\ locals.failed
    BY DEF JobTypes, JobRec
  <2>2. job' = [job EXCEPT ![j] = locals] /\ pc' = [pc EXCEPT ![j] = "next"]
    BY <1>1 DEF Thrown, Goto
  <2>. HIDE DEF locals
  <2>. QED
    <3>1. pc'[j] = "next" /\ job'[j] = locals /\ OthersKept(j)
      BY <2>2, PcJob
    <3>. QED
      BY <1>1, <2>1, <3>1 DEF Fails, SameCall
<1>2. CASE job[j].op # "pass"
  BY <1>2, EndDoes DEF Thrown, Fails
<1>. QED
  BY <1>1, <1>2

\* What each action does, in the terms the invariants are in: a webhook
\* is for one message.
LEMMA StartInboundDoes ==
    ASSUME Base, NEW j \in Job, NEW m, StartInbound(j, m)
    PROVE  /\ Starts(j, "find", "inbound", m) /\ m \in DOMAIN thread
           /\ raced' = raced \cup ({m} \cap UNION {Handles(k) : k \in InFlight}) /\ Crowd
<1>. DEFINE locals == [Idle EXCEPT !.op = "inbound", !.mid = m]
<1>1. pc' = [pc EXCEPT ![j] = "find"] /\ job' = [job EXCEPT ![j] = locals] /\ pc[j] = "idle"
  BY DEF StartInbound, Begin, Goto, CanStart
<1>2. locals.op = "inbound" /\ locals.mid = m /\ locals.row = 0 /\ ~locals.failed
  BY DEF Idle
<1>. HIDE DEF locals
<1>3. pc'[j] = "find" /\ job'[j] = locals /\ OthersKept(j)
  BY <1>1, PcJob DEF Base
<1>. QED
  BY <1>1, <1>2, <1>3 DEF StartInbound, Begin, Race, Starts

\* An echo: its conversation is there.
LEMMA StartEchoDoes ==
    ASSUME Base, NEW j \in Job, NEW m, StartEcho(j, m)
    PROVE  /\ Starts(j, "dedupe", "echo", m) /\ m \in DOMAIN thread
           /\ raced' = raced \cup ({m} \cap UNION {Handles(k) : k \in InFlight}) /\ crowded' = crowded
<1>1. PICK c \in Live : Begin(j, "dedupe", [Idle EXCEPT !.op = "echo", !.mid = m, !.conv = c])
  BY DEF StartEcho
<1>. DEFINE locals == [Idle EXCEPT !.op = "echo", !.mid = m, !.conv = c]
<1>2. pc' = [pc EXCEPT ![j] = "dedupe"] /\ job' = [job EXCEPT ![j] = locals] /\ pc[j] = "idle"
  BY <1>1 DEF StartEcho, Begin, Goto, CanStart
<1>3. locals.op = "echo" /\ locals.mid = m /\ locals.row = 0 /\ ~locals.failed
  BY DEF Idle
<1>. HIDE DEF locals
<1>4. pc'[j] = "dedupe" /\ job'[j] = locals /\ OthersKept(j)
  BY <1>2, PcJob DEF Base
<1>. QED
  BY <1>1, <1>2, <1>3, <1>4 DEF StartEcho, Begin, Race, Starts

\* A reply has no mid yet.
LEMMA StartSendDoes ==
    ASSUME Base, NEW j \in Job, StartSend(j)
    PROVE  Starts(j, "send", "send", 0) /\ raced' = raced /\ crowded' = crowded
<1>1. PICK c \in Live : Begin(j, "send", [Idle EXCEPT !.op = "send", !.conv = c])
  BY DEF StartSend
<1>. DEFINE locals == [Idle EXCEPT !.op = "send", !.conv = c]
<1>2. pc' = [pc EXCEPT ![j] = "send"] /\ job' = [job EXCEPT ![j] = locals] /\ pc[j] = "idle"
  BY <1>1 DEF StartSend, Begin, Goto, CanStart
<1>3. locals.op = "send" /\ locals.mid = 0 /\ locals.row = 0 /\ ~locals.failed
  BY DEF Idle
<1>. HIDE DEF locals
<1>4. pc'[j] = "send" /\ job'[j] = locals /\ OthersKept(j)
  BY <1>2, PcJob DEF Base
<1>. QED
  BY <1>1, <1>2, <1>3, <1>4 DEF StartSend, Begin, Starts

\* A change of status is of a live conversation.
LEMMA StartMarkDoes ==
    ASSUME Base, NEW j \in Job, NEW s, StartMark(j, s)
    PROVE  Starts(j, s, "mark", 0) /\ raced' = raced /\ crowded' = crowded
<1>1. PICK c \in Live : Begin(j, s, [Idle EXCEPT !.op = "mark", !.conv = c])
  BY DEF StartMark
<1>. DEFINE locals == [Idle EXCEPT !.op = "mark", !.conv = c]
<1>2. pc' = [pc EXCEPT ![j] = s] /\ job' = [job EXCEPT ![j] = locals] /\ pc[j] = "idle"
  BY <1>1 DEF StartMark, Begin, Goto, CanStart
<1>3. locals.op = "mark" /\ locals.mid = 0 /\ locals.row = 0 /\ ~locals.failed
  BY DEF Idle
<1>. HIDE DEF locals
<1>4. pc'[j] = s /\ job'[j] = locals /\ OthersKept(j)
  BY <1>2, PcJob DEF Base
<1>. QED
  BY <1>1, <1>2, <1>3, <1>4 DEF StartMark, Begin, Starts

\* A pass stamps its beginning, and has read no watermark.
LEMMA StartPassDoes ==
    ASSUME Base, NEW j \in Job, StartPass(j)
    PROVE  /\ Starts(j, "list", "pass", 0) /\ job'[j].began = now /\ job'[j].since = 0
           /\ raced' = raced \cup (1 .. MaxThread \cap UNION {Handles(k) : k \in InFlight}) /\ Crowd
<1>. DEFINE locals == [Idle EXCEPT !.op = "pass", !.began = now]
<1>1. pc' = [pc EXCEPT ![j] = "list"] /\ job' = [job EXCEPT ![j] = locals] /\ pc[j] = "idle"
  BY DEF StartPass, Begin, Goto, CanStart, PassStartedAt
<1>2. /\ locals.op = "pass" /\ locals.mid = 0 /\ locals.row = 0 /\ ~locals.failed
      /\ locals.began = now /\ locals.since = 0
  BY DEF Idle
<1>. HIDE DEF locals
<1>3. pc'[j] = "list" /\ job'[j] = locals /\ OthersKept(j)
  BY <1>1, PcJob DEF Base
<1>. QED
  BY <1>1, <1>2, <1>3 DEF StartPass, Begin, Race, Starts

\* A mark writes a status and nothing else of a conversation.
LEMMA MarkDoes ==
    ASSUME Base, NEW j \in Job, Mark(j)
    PROVE  /\ pc[j] \in {"RESOLVED", "ARCHIVED"} /\ job[j].conv \in Live /\ Ends(j) /\ OthersKept(j)
           /\ UNCHANGED <<thread, now, rows, ghosts>> /\ Live' = Live
           /\ \A c \in Conv : conv'[c].last = conv[c].last /\ conv'[c].synced = conv[c].synced
<1>. DEFINE c == job[j].conv
            row == [conv[c] EXCEPT !.status = pc[j]]
<1>1. c \in Live /\ c \in Conv /\ conv[c] \in ConvRow /\ conv \in [Conv -> ConvRow \cup {NoConv}]
  BY LiveRow, JobKnown DEF Mark, Base, Data, DataTypes, HasConv
<1>2. conv' = [conv EXCEPT ![c] = row]
  BY DEF Mark
<1>3. row \in ConvRow /\ row.last = conv[c].last /\ row.synced = conv[c].synced
  BY <1>1 DEF Mark, ConvRow
<1>. HIDE DEF row, c
<1>4. conv'[c] = row /\ \A d \in Conv : d # c => conv'[d] = conv[d]
  BY <1>1, <1>2
<1>5. Live' = Live /\ \A d \in Conv : conv'[d].last = conv[d].last /\ conv'[d].synced = conv[d].synced
  BY <1>1, <1>3, <1>4, NoConvIsNoRow DEF Live
<1>6. job[j].conv \in Live
  BY <1>1 DEF c
<1>. QED
  BY <1>5, <1>6, EndDoes DEF Mark, Base

\* Find makes no conversation; it goes on with a live one, or there is none.
LEMMA FindDoes ==
    ASSUME Base, NEW j \in Job, Find(j)
    PROVE  /\ pc[j] = "find" /\ job[j].op \in {"inbound", "pass"} /\ OthersKept(j)
           /\ UNCHANGED <<thread, now, conv, rows, ghosts>> /\ SameWork(j)
           /\ job'[j].op = job[j].op /\ job'[j].row = job[j].row /\ job'[j].began = job[j].began
           /\ \/ /\ pc'[j] = "create" /\ Live = {} /\ SameCall(j)
              \/ /\ pc'[j] \in {"reopen", "next", "dedupe"} /\ job'[j].conv \in Live
                 /\ job'[j].since = conv[job'[j].conv].synced
<1>1. /\ pc[j] = "find" /\ job[j] \in JobRec /\ job[j].op \in {"inbound", "pass"} /\ JobTypes
      /\ conv \in [Conv -> ConvRow \cup {NoConv}]
  BY DEF Base, Data, DataTypes, JobTypes, Find, JobFits, StepsOf, JobRec
<1>2. ASSUME NEW c \in Live, NEW step \in {"reopen", "next", "dedupe"},
             pc' = [pc EXCEPT ![j] = step],
             job' = [job EXCEPT ![j].conv = c, ![j].since = conv[c].synced,
                                ![j].reopen = conv[c].status = "RESOLVED"]
      PROVE  /\ pc'[j] = step /\ job'[j].conv = c /\ job'[j].since = conv[c].synced
             /\ job'[j].op = job[j].op /\ job'[j].row = job[j].row /\ job'[j].began = job[j].began
             /\ SameWork(j) /\ OthersKept(j)
  <2>. DEFINE locals == [job[j] EXCEPT !.conv = c, !.since = conv[c].synced,
                                       !.reopen = conv[c].status = "RESOLVED"]
  <2>1. job' = [job EXCEPT ![j] = locals]
    BY <1>2
  <2>2. /\ locals.op = job[j].op /\ locals.mid = job[j].mid /\ locals.row = job[j].row
        /\ locals.conv = c /\ locals.since = conv[c].synced /\ locals.failed = job[j].failed
        /\ locals.began = job[j].began /\ locals.todo = job[j].todo
    BY <1>1 DEF JobRec
  <2>. HIDE DEF locals
  <2>3. pc'[j] = step /\ job'[j] = locals /\ OthersKept(j)
    BY <1>1, <1>2, <2>1, PcJob
  <2>. QED
    BY <2>2, <2>3 DEF SameWork
<1>3. CASE Found = {} /\ Goto(j, "create") /\ UNCHANGED job
  BY <1>1, <1>3 DEF Goto, Found, JobTypes, SameCall, SameWork, OthersKept, Kept, Find
<1>4. UNCHANGED <<thread, now, conv, rows, ghosts>>
  BY DEF Find
<1>5. CASE ~(Found = {} /\ Goto(j, "create") /\ UNCHANGED job)
  <2>1. PICK c \in Live :
            /\ job' = [job EXCEPT ![j].conv = c, ![j].since = conv[c].synced,
                                  ![j].reopen = conv[c].status = "RESOLVED"]
            /\ \E step \in {"reopen", "next", "dedupe"} : pc' = [pc EXCEPT ![j] = step]
    BY <1>5 DEF Find, Goto, Found
  <2>. QED
    BY <1>1, <1>2, <1>4, <2>1
<1>. QED
  BY <1>1, <1>3, <1>4, <1>5

\* Create makes one that has no messages and no watermark.
LEMMA CreateDoes ==
    ASSUME Base, NEW j \in Job, Create(j)
    PROVE  /\ pc[j] = "create" /\ job[j].op \in {"inbound", "pass"} /\ OthersKept(j)
           /\ pc'[j] \in {"next", "dedupe"} /\ SameWork(j)
           /\ job'[j].op = job[j].op /\ job'[j].row = job[j].row /\ job'[j].began = job[j].began
           /\ job'[j].since = job[j].since
           /\ UNCHANGED <<thread, now, rows, ghosts>>
           /\ \E c \in Conv \ Live :
                /\ job'[j].conv = c /\ Live' = Live \cup {c} /\ conv'[c].last = 0 /\ conv'[c].synced = 0
                /\ \A d \in Conv : d # c => conv'[d] = conv[d]
<1>. DEFINE row == [status |-> "OPEN", last |-> 0, synced |-> 0]
            step == IF job[j].op = "pass" THEN "next" ELSE "dedupe"
<1>1. PICK c \in Conv \ Live : conv' = [conv EXCEPT ![c] = row] /\ job' = [job EXCEPT ![j].conv = c]
  BY DEF Create
<1>2. row \in ConvRow /\ row.last = 0 /\ row.synced = 0 /\ step \in {"next", "dedupe"}
  BY DEF ConvRow
<1>3. /\ pc[j] = "create" /\ job[j] \in JobRec /\ job[j].op \in {"inbound", "pass"} /\ JobTypes
      /\ conv \in [Conv -> ConvRow \cup {NoConv}]
  BY DEF Base, Data, DataTypes, JobTypes, Create, JobFits, StepsOf, JobRec
<1>. DEFINE locals == [job[j] EXCEPT !.conv = c]
<1>4. job' = [job EXCEPT ![j] = locals] /\ pc' = [pc EXCEPT ![j] = step]
  BY <1>1 DEF Create, Goto
<1>5. /\ locals.op = job[j].op /\ locals.mid = job[j].mid /\ locals.row = job[j].row
      /\ locals.conv = c /\ locals.since = job[j].since /\ locals.failed = job[j].failed
      /\ locals.began = job[j].began /\ locals.todo = job[j].todo
  BY <1>3 DEF JobRec
<1>. HIDE DEF locals, step, row
<1>6. pc'[j] = step /\ job'[j] = locals /\ OthersKept(j)
  BY <1>3, <1>4, PcJob
<1>7. conv'[c] = row /\ \A d \in Conv : d # c => conv'[d] = conv[d]
  BY <1>1, <1>3
<1>8. Live' = Live \cup {c}
  BY <1>2, <1>7, NoConvIsNoRow DEF Live
<1>9. UNCHANGED <<thread, now, rows, ghosts>>
  BY DEF Create
<1>. QED
  BY <1>2, <1>3, <1>5, <1>6, <1>7, <1>8, <1>9 DEF SameWork

\* Reopen writes a status.
LEMMA ReopenDoes ==
    ASSUME Base, NEW j \in Job, Reopen(j)
    PROVE  /\ pc[j] = "reopen" /\ job[j].conv \in Live /\ SameCall(j) /\ SameWork(j) /\ OthersKept(j)
           /\ job[j].op \in {"inbound", "pass"}
           /\ pc'[j] \in {"dedupe", "next", "send"}
           /\ pc'[j] = "send" => job[j].op = "pass" /\ job[j].mid # 0
           /\ pc'[j] = "next" => job[j].mid = 0
           /\ UNCHANGED <<thread, now, rows, ghosts>> /\ Live' = Live
           /\ \A c \in Conv : conv'[c].last = conv[c].last /\ conv'[c].synced = conv[c].synced
<1>. DEFINE c == job[j].conv
            row == [conv[c] EXCEPT !.status = "OPEN"]
            locals == job[j]
<1>1. c \in Live /\ c \in Conv /\ conv[c] \in ConvRow /\ conv \in [Conv -> ConvRow \cup {NoConv}]
  BY LiveRow, JobKnown DEF Reopen, Base, Data, DataTypes, HasConv
<1>2. conv' = [conv EXCEPT ![c] = row] /\ job' = [job EXCEPT ![j] = locals]
  BY DEF Reopen, Base, JobTypes
<1>3. row \in ConvRow /\ row.last = conv[c].last /\ row.synced = conv[c].synced
  BY <1>1 DEF ConvRow
<1>4. pc[j] = "reopen" /\ job[j] \in JobRec /\ job[j].op \in {"inbound", "pass"} /\ JobTypes
  BY DEF Base, JobTypes, Reopen, JobFits, StepsOf, JobRec
<1>5. /\ locals.op = job[j].op /\ locals.mid = job[j].mid /\ locals.row = job[j].row
      /\ locals.conv = job[j].conv /\ locals.since = job[j].since /\ locals.failed = job[j].failed
      /\ locals.began = job[j].began /\ locals.todo = job[j].todo
  BY <1>4 DEF JobRec
<1>6. PICK step \in {"dedupe", "next", "send"} :
            /\ pc' = [pc EXCEPT ![j] = step]
            /\ step = "send" => job[j].op = "pass" /\ job[j].mid # 0
            /\ step = "next" => job[j].mid = 0
  BY <1>4 DEF Reopen, Goto
<1>7. job[j].conv \in Live /\ UNCHANGED <<thread, now, rows, ghosts>>
  BY <1>1 DEF Reopen
<1>. HIDE DEF row, c, locals
<1>8. conv'[c] = row /\ \A d \in Conv : d # c => conv'[d] = conv[d]
  BY <1>1, <1>2
<1>9. Live' = Live /\ \A d \in Conv : conv'[d].last = conv[d].last /\ conv'[d].synced = conv[d].synced
  BY <1>1, <1>3, <1>8, NoConvIsNoRow DEF Live
<1>10. pc'[j] = step /\ job'[j] = locals /\ OthersKept(j)
  BY <1>2, <1>4, <1>6, PcJob
<1>. QED
  BY <1>4, <1>5, <1>6, <1>7, <1>9, <1>10 DEF SameCall, SameWork

\* Dedupe goes on only with a message that is not stored.
LEMMA DedupeDoes ==
    ASSUME Base, NEW j \in Job, Dedupe(j)
    PROVE  /\ pc[j] = "dedupe" /\ job[j].op \in {"inbound", "echo"} /\ OthersKept(j)
           /\ UNCHANGED <<thread, now, conv, rows, ghosts>>
           /\ \/ Ends(j)
              \/ /\ pc'[j] = "send" /\ job'[j] = job[j]
                 /\ ~StoredIn(job[j].conv, job[j].mid)
<1>1. pc[j] = "dedupe" /\ job[j].op \in {"inbound", "echo"} /\ JobTypes
  BY DEF Base, JobTypes, Dedupe, JobFits, StepsOf, JobRec
<1>2. UNCHANGED <<thread, now, conv, rows, ghosts>>
  BY DEF Dedupe
<1>3. CASE End(j)
  BY <1>1, <1>2, <1>3, EndDoes
<1>4. CASE /\ Goto(j, "send") /\ UNCHANGED job /\ ~StoredIn(job[j].conv, job[j].mid)
  BY <1>1, <1>2, <1>4 DEF Goto, JobTypes, OthersKept, Kept
<1>. QED
  BY <1>3, <1>4 DEF Dedupe, IsDuplicateByMid

\* Send reads lastMessageAt and stamps the message.
LEMMA SendDoes ==
    ASSUME Base, NEW j \in Job, Send(j)
    PROVE  /\ pc[j] = "send" /\ job[j].op \in {"inbound", "echo", "send", "pass"}
           /\ job[j].conv \in Live /\ OthersKept(j)
           /\ UNCHANGED <<thread, now, conv, rows, raced, crowded, lost, mistimed>>
           /\ \/ Fails(j) /\ crossed' = crossed
              \/ /\ pc'[j] = "commit" /\ SameCall(j) /\ SameWork(j)
                 /\ job'[j].last = conv[job[j].conv].last
                 /\ crossed' = IF \E k \in Job : pc[k] = "commit" /\ job[k].conv = job[j].conv
                               THEN crossed \cup {job[j].conv} ELSE crossed
<1>1. /\ pc[j] = "send" /\ job[j].op \in {"inbound", "echo", "send", "pass"} /\ JobTypes
      /\ job[j] \in JobRec
  BY DEF Base, JobTypes, Send, JobFits, StepsOf, JobRec
<1>2. UNCHANGED <<thread, now, conv, rows, raced, crowded, lost, mistimed>>
  BY DEF Send
<1>3. job[j].conv \in Live
  BY <1>1, JobKnown DEF HasConv
<1>4. CASE Thrown(j) /\ UNCHANGED crossed
  BY <1>1, <1>2, <1>3, <1>4, ThrownDoes
<1>5. CASE /\ job' = [job EXCEPT ![j].last = conv[job[j].conv].last,
                       ![j].at = IF job[j].op = "pass" THEN thread[job[j].mid].at ELSE now]
           /\ Goto(j, "commit")
           /\ crossed' = IF \E k \in Job : pc[k] = "commit" /\ job[k].conv = job[j].conv
                         THEN crossed \cup {job[j].conv} ELSE crossed
  <2>. DEFINE at == IF job[j].op = "pass" THEN thread[job[j].mid].at ELSE now
              last == conv[job[j].conv].last
              locals == [job[j] EXCEPT !.last = last, !.at = at]
  <2>1. job' = [job EXCEPT ![j] = locals] /\ pc' = [pc EXCEPT ![j] = "commit"]
    BY <1>5 DEF Goto
  <2>. HIDE DEF at
  <2>2. /\ locals.op = job[j].op /\ locals.mid = job[j].mid /\ locals.row = job[j].row
        /\ locals.conv = job[j].conv /\ locals.since = job[j].since /\ locals.failed = job[j].failed
        /\ locals.began = job[j].began /\ locals.todo = job[j].todo /\ locals.last = last
    BY <1>1 DEF JobRec
  <2>. HIDE DEF locals
  <2>3. pc'[j] = "commit" /\ job'[j] = locals /\ OthersKept(j)
    BY <1>1, <2>1, PcJob
  <2>. QED
    BY <1>1, <1>2, <1>3, <1>5, <2>2, <2>3 DEF SameCall, SameWork
<1>. QED
  BY <1>4, <1>5 DEF Send

\* What a transaction that commits adds.
Adds(j) ==
    /\ Len(rows') = Len(rows) + 1 /\ DOMAIN rows' = 1 .. Len(rows) + 1
    /\ Len(rows) \in Nat /\ DOMAIN rows = 1 .. Len(rows)
    /\ \A r \in DOMAIN rows : rows'[r] = rows[r]
    /\ rows'[Len(rows) + 1].conv = job[j].conv /\ rows'[Len(rows) + 1].mid = job[j].mid
    /\ rows'[Len(rows) + 1].at = job[j].at
    /\ conv'[job[j].conv].last = NextLast(job[j])
    /\ conv'[job[j].conv].synced = conv[job[j].conv].synced
    /\ \A c \in Conv : c # job[j].conv => conv'[c] = conv[c]

\* Commit adds one row and moves lastMessageAt, or throws.
LEMMA CommitDoes ==
    ASSUME Base, NEW j \in Job, Commit(j)
    PROVE  /\ pc[j] = "commit" /\ job[j].op \in {"inbound", "echo", "send", "pass"}
           /\ job[j].conv \in Live /\ Live' = Live /\ OthersKept(j)
           /\ UNCHANGED <<thread, now, ghosts>>
           /\ \/ Fails(j) /\ UNCHANGED <<rows, conv>>
              \/ /\ Adds(j)
                 /\ \/ job[j].op \in {"inbound", "echo"} /\ Ends(j)
                    \/ job[j].op = "pass" /\ pc'[j] = "next" /\ SameCall(j) /\ SameWork(j)
                    \/ /\ job[j].op = "send" /\ pc'[j] = "dispatch"
                       /\ job'[j].row = Len(rows) + 1 /\ job'[j].mid = job[j].mid
                       /\ job'[j].op = "send" /\ job'[j].conv = job[j].conv
<1>. DEFINE c == job[j].conv
            written == [conv[c] EXCEPT !.last = NextLast(job[j])]
            new == [conv |-> c, mid |-> job[j].mid, at |-> job[j].at, op |-> job[j].op]
<1>1. /\ pc[j] = "commit" /\ job[j].op \in {"inbound", "echo", "send", "pass"} /\ JobTypes
      /\ job[j] \in JobRec /\ conv \in [Conv -> ConvRow \cup {NoConv}] /\ rows \in Seq(RowRec)
  BY DEF Base, Data, DataTypes, JobTypes, Commit, JobFits, StepsOf, JobRec
<1>2. UNCHANGED <<thread, now, ghosts>>
  BY DEF Commit
<1>3. c \in Live /\ c \in Conv /\ conv[c] \in ConvRow
  BY <1>1, JobKnown, LiveRow DEF HasConv, Base, Data
<1>4. CASE UNCHANGED <<rows, conv>> /\ Thrown(j)
  BY <1>1, <1>2, <1>3, <1>4, ThrownDoes DEF Live
<1>5. CASE /\ rows' = Append(rows, new) /\ conv' = [conv EXCEPT ![c].last = NextLast(job[j])]
           /\ IF SkipsDispatch(job[j].op) THEN Done(j)
              ELSE Goto(j, "dispatch") /\ job' = [job EXCEPT ![j].row = Len(rows')]
  <2>1. NextLast(job[j]) \in Nat
    BY <1>1 DEF NextLast, JobRec
  <2>2. written \in ConvRow /\ written.last = NextLast(job[j]) /\ written.synced = conv[c].synced
    BY <1>3, <2>1 DEF ConvRow
  <2>3. conv' = [conv EXCEPT ![c] = written]
    BY <1>5
  <2>4. conv'[c] = written /\ \A d \in Conv : d # c => conv'[d] = conv[d]
    BY <1>1, <1>3, <2>3
  <2>5. Live' = Live
    BY <1>3, <2>2, <2>4, NoConvIsNoRow DEF Live
  <2>6. new \in RowRec /\ new.conv = c /\ new.mid = job[j].mid /\ new.at = job[j].at
    BY <1>1, <1>3 DEF JobRec, RowRec
  <2>. HIDE DEF new, written
  <2>7. Len(rows') = Len(rows) + 1 /\ Len(rows) \in Nat
        /\ DOMAIN rows = 1 .. Len(rows) /\ DOMAIN rows' = 1 .. Len(rows) + 1
    BY <1>1, <1>5, <2>6
  <2>8. rows'[Len(rows) + 1] = new /\ \A r \in DOMAIN rows : rows'[r] = rows[r]
    BY <1>1, <1>5, <2>6, <2>7
  <2>9. Adds(j)
    BY <2>2, <2>4, <2>6, <2>7, <2>8 DEF Adds
  <2>10. CASE job[j].op = "send"
    <3>. DEFINE locals == [job[j] EXCEPT !.row = Len(rows')]
    <3>1. /\ locals.op = job[j].op /\ locals.mid = job[j].mid /\ locals.row = Len(rows')
          /\ locals.conv = job[j].conv
      BY <1>1 DEF JobRec
    <3>2. job' = [job EXCEPT ![j] = locals] /\ pc' = [pc EXCEPT ![j] = "dispatch"]
      BY <1>5, <2>10 DEF Goto, SkipsDispatch
    <3>. HIDE DEF locals
    <3>3. pc'[j] = "dispatch" /\ job'[j] = locals /\ OthersKept(j)
      BY <1>1, <3>2, PcJob
    <3>. QED
      BY <1>1, <1>2, <1>3, <2>5, <2>7, <2>9, <2>10, <3>1, <3>3
  <2>11. CASE job[j].op = "pass"
    <3>. DEFINE locals == [job[j] EXCEPT !.reopen = FALSE]
    <3>1. /\ locals.op = job[j].op /\ locals.mid = job[j].mid /\ locals.row = job[j].row
          /\ locals.conv = job[j].conv /\ locals.since = job[j].since /\ locals.failed = job[j].failed
          /\ locals.began = job[j].began /\ locals.todo = job[j].todo
      BY <1>1 DEF JobRec
    <3>2. job' = [job EXCEPT ![j] = locals] /\ pc' = [pc EXCEPT ![j] = "next"]
      BY <1>5, <2>11 DEF Done, SkipsDispatch, Goto
    <3>. HIDE DEF locals
    <3>3. pc'[j] = "next" /\ job'[j] = locals /\ OthersKept(j)
      BY <1>1, <3>2, PcJob
    <3>. QED
      BY <1>1, <1>2, <1>3, <2>5, <2>9, <2>11, <3>1, <3>3 DEF SameCall, SameWork
  <2>12. CASE job[j].op \in {"inbound", "echo"}
    <3>1. Ends(j) /\ OthersKept(j)
      BY <1>1, <1>5, <2>12, EndDoes DEF Done, SkipsDispatch
    <3>. QED
      BY <1>1, <1>2, <1>3, <2>5, <2>9, <2>12, <3>1
  <2>. QED
    BY <1>1, <2>10, <2>11, <2>12
<1>. QED
  BY <1>4, <1>5 DEF Commit

\* A message that is posted has a time that nothing has passed, or it is known.
Timed(m) == Passed(thread'[m].at) => m \in mistimed'

\* Messages of the page's own, for a row.
Appended(row, n) ==
    /\ n \in Nat /\ Len(thread) \in Nat /\ Len(thread') = Len(thread) + n
    /\ DOMAIN thread = 1 .. Len(thread) /\ DOMAIN thread' = 1 .. Len(thread) + n
    /\ \A m \in 1 .. Len(thread) : thread'[m] = thread[m]
    /\ \A m \in Len(thread) + 1 .. Len(thread) + n : thread'[m].via = row /\ Timed(m)
    /\ mistimed \subseteq mistimed'
    /\ raced' = IF \E k \in InFlight : job[k].op = "pass"
                THEN raced \cup Len(thread) + 1 .. Len(thread) + n ELSE raced

\* So it is with all that lengthens the thread.
LEMMA LongerTimed ==
    ASSUME NEW from, NEW row, Longer(from, row), Len(thread) \in Nat, Len(thread') \in Nat,
           DOMAIN thread = 1 .. Len(thread), DOMAIN thread' = 1 .. Len(thread')
    PROVE  mistimed \subseteq mistimed' /\ \A m \in Len(thread) + 1 .. Len(thread') : Timed(m)
<1>1. PICK at \in Times :
        /\ \A m \in 1 .. Len(thread') : m > Len(thread) => thread'[m] = Post(from, row, at)
        /\ Mistime(at)
  BY DEF Longer
<1>2. ASSUME NEW m \in Len(thread) + 1 .. Len(thread') PROVE Timed(m)
  <2>1. m \in 1 .. Len(thread') /\ m > Len(thread) /\ m \in DOMAIN thread' \ DOMAIN thread
    OBVIOUS
  <2>2. thread'[m].at = at
    BY <1>1, <2>1 DEF Post
  <2>3. Passed(at) => m \in mistimed'
    BY <1>1, <2>1 DEF Mistime
  <2>. QED
    BY <2>2, <2>3 DEF Timed
<1>. QED
  BY <1>1, <1>2 DEF Mistime

\* PostReply adds messages of the row, and nothing else.
LEMMA PostReplyDoes ==
    ASSUME Base, NEW row \in Nat, NEW n \in Nat, PostReply(row, n)
    PROVE  Appended(row, n)
<1>1. Longer("page", row) /\ Len(thread') = Len(thread) + n /\ Len(thread) \in Nat
      /\ DOMAIN thread = 1 .. Len(thread) /\ DOMAIN thread' = 1 .. Len(thread')
  <2>1. DataTypes
    BY DEF Base, Data
  <2>2. Longer("page", row) /\ Len(thread') = Len(thread) + n
    BY <2>1, PostReplyLonger
  <2>. QED
    BY <2>1, <2>2 DEF DataTypes, Longer
<1>2. RacePass(Len(thread) + 1 .. Len(thread'))
  BY DEF PostReply
<1>3. ASSUME NEW m \in Len(thread) + 1 .. Len(thread) + n
      PROVE  thread'[m].via = row
  BY <1>1 DEF Longer, Post
<1>4. mistimed \subseteq mistimed' /\ \A m \in Len(thread) + 1 .. Len(thread) + n : Timed(m)
  BY <1>1, LongerTimed
<1>. QED
  BY <1>1, <1>2, <1>3, <1>4 DEF Longer, RacePass, Appended

\* Dispatch is told one mid, or none; the others are lost.
LEMMA DispatchDoes ==
    ASSUME Base, NEW j \in Job, Dispatch(j)
    PROVE  /\ pc[j] = "dispatch" /\ job[j].op = "send" /\ OthersKept(j)
           /\ UNCHANGED <<conv, rows, crowded, crossed>>
           /\ \E n \in Nat :
                /\ Appended(job[j].row, n)
                /\ \/ /\ Ends(j)
                      /\ lost' = lost \cup Len(thread) + 1 .. Len(thread) + n
                   \/ \E m \in Len(thread) + 1 .. Len(thread) + n :
                        /\ pc'[j] = "merge" /\ job'[j].mid = m /\ job'[j].row = job[j].row
                        /\ job'[j].op = "send" /\ job'[j].conv = job[j].conv
                        /\ lost' = lost \cup ((Len(thread) + 1 .. Len(thread) + n) \ {m})
<1>1. PICK n \in 0 .. MaxAttempts :
        /\ PostReply(job[j].row, n)
        /\ LET posted == Len(thread) + 1 .. Len(thread) + n IN
           \/ \E m \in posted :
                /\ job' = [job EXCEPT ![j].mid = m]
                /\ lost' = lost \cup (posted \ {m})
                /\ Goto(j, "merge")
           \/ /\ lost' = lost \cup posted
              /\ End(j)
  BY DEF Dispatch
<1>2. /\ pc[j] = "dispatch" /\ job[j].op = "send" /\ job[j] \in JobRec /\ JobTypes /\ n \in Nat
      /\ UNCHANGED <<conv, rows, crowded, crossed>>
  <2>1. n \in Nat
    BY BoundsAreNat
  <2>2. pc[j] = "dispatch" /\ job[j].op = "send"
    BY DEF Dispatch, Base, JobTypes, JobFits, StepsOf, JobRec
  <2>. QED
    BY <2>1, <2>2 DEF Dispatch, Base, JobTypes
<1>3. Appended(job[j].row, n)
  <2>1. job[j].row \in Nat
    BY <1>2 DEF JobRec
  <2>. QED
    BY <1>1, <1>2, <2>1, PostReplyDoes
<1>4. CASE End(j) /\ lost' = lost \cup Len(thread) + 1 .. Len(thread) + n
  BY <1>2, <1>3, <1>4, EndDoes
<1>5. ASSUME NEW m \in Len(thread) + 1 .. Len(thread) + n,
             job' = [job EXCEPT ![j].mid = m], Goto(j, "merge")
      PROVE  /\ pc'[j] = "merge" /\ job'[j].mid = m /\ job'[j].row = job[j].row
             /\ job'[j].op = "send" /\ job'[j].conv = job[j].conv /\ OthersKept(j)
  <2>. DEFINE locals == [job[j] EXCEPT !.mid = m]
  <2>1. /\ locals.op = job[j].op /\ locals.mid = m /\ locals.row = job[j].row
        /\ locals.conv = job[j].conv
    BY <1>2 DEF JobRec
  <2>2. job' = [job EXCEPT ![j] = locals] /\ pc' = [pc EXCEPT ![j] = "merge"]
    BY <1>5 DEF Goto
  <2>. HIDE DEF locals
  <2>3. pc'[j] = "merge" /\ job'[j] = locals /\ OthersKept(j)
    BY <1>2, <2>2, PcJob
  <2>. QED
    BY <1>2, <2>1, <2>3
<1>. QED
  BY <1>1, <1>2, <1>3, <1>4, <1>5

\* PostLate tells nobody.
LEMMA PostLateDoes ==
    ASSUME Base, PostLate
    PROVE  /\ UNCHANGED <<conv, rows, pc, job, crowded, crossed>>
           /\ \E r \in Nat : Appended(r, 1)
           /\ lost' = lost \cup {Len(thread) + 1}
<1>1. PICK r \in late : /\ PostReply(r, 1) /\ lost' = lost \cup {Len(thread')}
                        /\ UNCHANGED <<conv, rows, pc, job, faults, crowded, crossed>>
  BY DEF PostLate
<1>2. r \in Nat
  BY DEF Base, Data, DataTypes
<1>3. Appended(r, 1)
  BY <1>1, <1>2, PostReplyDoes
<1>. QED
  BY <1>1, <1>2, <1>3 DEF Appended

\* Write appends one message, of no row.
LEMMA WriteDoes ==
    ASSUME Base, NEW from \in {"customer", "page"}, Write(from)
    PROVE  /\ UNCHANGED <<conv, rows, pc, job, raced, crowded, crossed, lost>>
           /\ Len(thread) \in Nat /\ Len(thread') = Len(thread) + 1
           /\ DOMAIN thread = 1 .. Len(thread) /\ DOMAIN thread' = 1 .. Len(thread) + 1
           /\ \A m \in 1 .. Len(thread) : thread'[m] = thread[m]
           /\ thread'[Len(thread) + 1].via = 0 /\ Timed(Len(thread) + 1)
           /\ mistimed \subseteq mistimed'
<1>1. Longer(from, 0) /\ thread \in Seq(Posted) /\ thread' \in Seq(Posted)
  BY WriteLonger DEF Base, Data, DataTypes, Longer
<1>2. Len(thread') = Len(thread) + 1 /\ Len(thread) \in Nat /\ DOMAIN thread' = 1 .. Len(thread')
  <2>1. PICK at \in Times : thread' = Append(thread, Post(from, 0, at))
    BY DEF Write
  <2>2. Post(from, 0, at) \in Posted
    BY TimesFit DEF Post, Posted
  <2>. QED
    BY <1>1, <2>1, <2>2
<1>3. thread'[Len(thread) + 1].via = 0
  BY <1>1, <1>2 DEF Longer, Post
<1>4. DOMAIN thread = 1 .. Len(thread)
  BY <1>1
<1>5. mistimed \subseteq mistimed' /\ Timed(Len(thread) + 1)
  BY <1>1, <1>2, <1>4, LongerTimed
<1>. QED
  BY <1>1, <1>2, <1>3, <1>4, <1>5 DEF Longer, Write

\* Merge gives one row, which had none, its mid.
LEMMA MergeDoes ==
    ASSUME Base, Base', NEW j \in Job, ReplyFits(j), Merge(j)
    PROVE  /\ pc[j] = "merge" /\ job[j].op = "send" /\ Ends(j) /\ OthersKept(j)
           /\ UNCHANGED <<thread, now, conv, ghosts>>
           /\ job[j].row \in DOMAIN rows /\ rows[job[j].row].mid = 0 /\ DOMAIN rows' = DOMAIN rows
           /\ job[j].mid \in DOMAIN thread /\ thread[job[j].mid].via = job[j].row
           /\ \A r \in DOMAIN rows : /\ rows'[r].conv = rows[r].conv /\ rows'[r].at = rows[r].at
                                     /\ rows'[r].mid = IF r = job[j].row THEN job[j].mid ELSE rows[r].mid
<1>1. pc[j] = "merge" /\ job[j].op = "send" /\ JobTypes /\ rows \in Seq(RowRec)
  BY DEF Base, Data, DataTypes, JobTypes, Merge, JobFits, StepsOf, JobRec
<1>2. /\ job[j].row \in DOMAIN rows /\ rows[job[j].row].mid = 0
      /\ job[j].mid \in DOMAIN thread /\ thread[job[j].mid].via = job[j].row
  BY <1>1 DEF ReplyFits, Owns
<1>3. Ends(j) /\ OthersKept(j)
  BY <1>1, EndDoes DEF Merge
<1>4. UNCHANGED <<thread, now, conv, ghosts>>
  BY DEF Merge
<1>. DEFINE row == job[j].row
            new == [rows[row] EXCEPT !.mid = job[j].mid]
<1>5. rows' = [rows EXCEPT ![row] = new]
  BY DEF Merge
<1>6. rows[row] \in RowRec /\ DOMAIN rows = 1 .. Len(rows)
  BY <1>1, <1>2
<1>7. new.conv = rows[row].conv /\ new.at = rows[row].at /\ new.mid = job[j].mid
  BY <1>6 DEF RowRec
<1>8. row \in DOMAIN rows
  BY <1>2
<1>. HIDE DEF row, new
<1>9. DOMAIN rows' = DOMAIN rows /\ rows'[row] = new /\ \A r \in DOMAIN rows : r # row => rows'[r] = rows[r]
  BY <1>1, <1>5, <1>6, <1>8
<1>10. ASSUME NEW r \in DOMAIN rows
       PROVE  /\ rows'[r].conv = rows[r].conv /\ rows'[r].at = rows[r].at
              /\ rows'[r].mid = IF r = row THEN job[j].mid ELSE rows[r].mid
  BY <1>7, <1>8, <1>9
<1>. QED
  BY <1>1, <1>2, <1>3, <1>4, <1>9, <1>10 DEF row

\* List takes the whole thread.
LEMMA ListDoes ==
    ASSUME Base, NEW j \in Job, List(j)
    PROVE  /\ pc[j] = "list" /\ job[j].op = "pass" /\ OthersKept(j)
           /\ UNCHANGED <<thread, now, conv, rows, ghosts>>
           /\ \/ Ends(j)
              \/ /\ pc'[j] = "find" /\ SameCall(j) /\ job'[j].mid = job[j].mid
                 /\ job'[j].failed = job[j].failed /\ job'[j].todo = DOMAIN thread
<1>1. pc[j] = "list" /\ job[j].op = "pass" /\ JobTypes /\ job[j] \in JobRec
  BY DEF Base, JobTypes, List, JobFits, StepsOf, JobRec
<1>2. UNCHANGED <<thread, now, conv, rows, ghosts>>
  BY DEF List
<1>3. CASE End(j)
  BY <1>1, <1>2, <1>3, EndDoes
<1>4. CASE job' = [job EXCEPT ![j].todo = DOMAIN thread] /\ Goto(j, "find")
  <2>. DEFINE locals == [job[j] EXCEPT !.todo = DOMAIN thread]
  <2>1. /\ locals.op = job[j].op /\ locals.mid = job[j].mid /\ locals.row = job[j].row
        /\ locals.conv = job[j].conv /\ locals.since = job[j].since
        /\ locals.began = job[j].began /\ locals.todo = DOMAIN thread /\ locals.failed = job[j].failed
    BY <1>1 DEF JobRec
  <2>2. job' = [job EXCEPT ![j] = locals] /\ pc' = [pc EXCEPT ![j] = "find"]
    BY <1>4 DEF Goto
  <2>. HIDE DEF locals
  <2>3. pc'[j] = "find" /\ job'[j] = locals /\ OthersKept(j)
    BY <1>1, <2>2, PcJob
  <2>. QED
    BY <1>1, <1>2, <2>1, <2>3 DEF SameCall
<1>. QED
  BY <1>3, <1>4 DEF List

\* NextMessage takes the newest message left, and drops it if it is stored.
LEMMA NextMessageDoes ==
    ASSUME Base, NEW j \in Job, NextMessage(j)
    PROVE  /\ pc[j] = "next" /\ job[j].op = "pass" /\ OthersKept(j)
           /\ UNCHANGED <<thread, now, conv, rows, ghosts>>
           /\ SameCall(j) /\ job'[j].failed = job[j].failed
           /\ \E m \in job[j].todo :
                /\ m \in 1 .. Len(thread) /\ job'[j].todo = job[j].todo \ {m}
                /\ \/ StoredIn(job[j].conv, m) /\ pc'[j] = "next" /\ job'[j].mid = job[j].mid
                   \/ ~StoredIn(job[j].conv, m) /\ pc'[j] \in {"reopen", "send"} /\ job'[j].mid = m
<1>1. pc[j] = "next" /\ job[j].op = "pass" /\ JobTypes /\ job[j] \in JobRec /\ job[j].todo # {}
  BY DEF Base, JobTypes, NextMessage, JobFits, StepsOf, JobRec, Drained
<1>2. UNCHANGED <<thread, now, conv, rows, ghosts>>
  BY DEF NextMessage
<1>3. PICK m \in 1 .. Len(thread) : Newest(job[j].todo) = m /\ m \in job[j].todo
  BY <1>1, NewestTodo DEF Base, Data, DataTypes
<1>4. CASE job' = [job EXCEPT ![j].todo = @ \ {m}] /\ UNCHANGED pc /\ StoredIn(job[j].conv, m)
  <2>. DEFINE locals == [job[j] EXCEPT !.todo = @ \ {m}]
  <2>1. /\ locals.op = job[j].op /\ locals.mid = job[j].mid /\ locals.row = job[j].row
        /\ locals.conv = job[j].conv /\ locals.since = job[j].since
        /\ locals.began = job[j].began /\ locals.todo = job[j].todo \ {m}
        /\ locals.failed = job[j].failed
    BY <1>1 DEF JobRec
  <2>2. job' = [job EXCEPT ![j] = locals] /\ pc' = [pc EXCEPT ![j] = "next"]
    BY <1>1, <1>4 DEF JobTypes
  <2>. HIDE DEF locals
  <2>3. pc'[j] = "next" /\ job'[j] = locals /\ OthersKept(j)
    BY <1>1, <2>2, PcJob
  <2>. QED
    BY <1>1, <1>2, <1>3, <1>4, <2>1, <2>3 DEF SameCall
<1>5. ASSUME NEW step \in {"reopen", "send"}, Goto(j, step), ~StoredIn(job[j].conv, m),
             job' = [[job EXCEPT ![j].todo = @ \ {m}] EXCEPT ![j].mid = m]
      PROVE  /\ pc'[j] = step /\ SameCall(j) /\ OthersKept(j) /\ job'[j].mid = m
             /\ job'[j].todo = job[j].todo \ {m} /\ job'[j].failed = job[j].failed
  <2>. DEFINE locals == [job[j] EXCEPT !.todo = @ \ {m}, !.mid = m]
  <2>1. /\ locals.op = job[j].op /\ locals.mid = m /\ locals.row = job[j].row
        /\ locals.conv = job[j].conv /\ locals.since = job[j].since
        /\ locals.began = job[j].began /\ locals.todo = job[j].todo \ {m}
        /\ locals.failed = job[j].failed
    BY <1>1 DEF JobRec
  <2>2. job' = [job EXCEPT ![j] = locals] /\ pc' = [pc EXCEPT ![j] = step]
    BY <1>1, <1>5 DEF Goto, JobTypes
  <2>. HIDE DEF locals
  <2>3. pc'[j] = step /\ job'[j] = locals /\ OthersKept(j)
    BY <1>1, <2>2, PcJob
  <2>. QED
    BY <2>1, <2>3 DEF SameCall
<1>6. CASE \E step \in {"reopen", "send"} :
              /\ Goto(j, step) /\ ~StoredIn(job[j].conv, m)
              /\ job' = [[job EXCEPT ![j].todo = @ \ {m}] EXCEPT ![j].mid = m]
  BY <1>1, <1>2, <1>3, <1>5, <1>6
<1>. QED
  BY <1>3, <1>4, <1>6 DEF NextMessage, IsDuplicateByMid

\* Passing a message over takes it from what is left.
LEMMA DropDoes ==
    ASSUME Base, NEW j \in Job, pc[j] = "next", job[j].todo # {}
    PROVE  /\ job[j].op = "pass"
           /\ \E m \in job[j].todo : /\ m = Newest(job[j].todo) /\ m \in 1 .. Len(thread)
                                      /\ job[j].todo \ {m} = 1 .. m - 1
<1>1. job[j].op = "pass"
  BY DEF Base, JobTypes, JobFits, StepsOf, JobRec
<1>2. PICK n \in 1 .. Len(thread) : /\ job[j].todo = 1 .. n /\ Newest(job[j].todo) = n
                                     /\ job[j].todo \ {n} = 1 .. n - 1
  BY <1>1, NewestTodo
<1>3. n \in 1 .. n
  BY DEF Base, Data, DataTypes
<1>. QED
  BY <1>1, <1>2, <1>3

\* A message whose time is no date is passed over.
LEMMA SkipUnreadableDoes ==
    ASSUME Base, NEW j \in Job, SkipUnreadable(j)
    PROVE  /\ pc[j] = "next" /\ pc'[j] = "next" /\ job[j].op = "pass" /\ OthersKept(j)
           /\ UNCHANGED <<thread, now, conv, rows, raced, crowded, crossed, lost>>
           /\ SameCall(j) /\ job'[j].failed = job[j].failed /\ job'[j].mid = job[j].mid
           /\ \E m \in job[j].todo : /\ m \in 1 .. Len(thread) /\ job'[j].todo = job[j].todo \ {m}
                                      /\ mistimed' = mistimed \cup {m}
<1>1. pc[j] = "next" /\ job[j].todo # {} /\ JobTypes /\ job[j] \in JobRec
  BY DEF SkipUnreadable, Base, JobTypes
<1>2. PICK m \in job[j].todo : m = Newest(job[j].todo) /\ m \in 1 .. Len(thread)
  BY <1>1, DropDoes
<1>. DEFINE locals == [job[j] EXCEPT !.todo = @ \ {m}]
<1>3. job' = [job EXCEPT ![j] = locals] /\ pc' = [pc EXCEPT ![j] = "next"]
  BY <1>1, <1>2 DEF SkipUnreadable, Drop, JobTypes
<1>4. /\ locals.op = job[j].op /\ locals.mid = job[j].mid /\ locals.row = job[j].row
      /\ locals.conv = job[j].conv /\ locals.since = job[j].since
      /\ locals.began = job[j].began /\ locals.todo = job[j].todo \ {m}
      /\ locals.failed = job[j].failed
  BY <1>1 DEF JobRec
<1>. HIDE DEF locals
<1>5. pc'[j] = "next" /\ job'[j] = locals /\ OthersKept(j)
  BY <1>1, <1>3, PcJob
<1>6. mistimed' = mistimed \cup {m} /\ job[j].op = "pass"
      /\ UNCHANGED <<thread, now, conv, rows, raced, crowded, crossed, lost>>
  BY <1>1, <1>2, DropDoes DEF SkipUnreadable
<1>. QED
  BY <1>1, <1>2, <1>4, <1>5, <1>6 DEF SameCall

\* A pass that stumbles notes it, and has no more left than before.
LEMMA StumbleDoes ==
    ASSUME Base, NEW j \in Job, Stumble(j)
    PROVE  /\ pc[j] \in {"next", "reopen", "send"} /\ pc'[j] = "next" /\ job[j].op = "pass"
           /\ OthersKept(j) /\ UNCHANGED <<thread, now, conv, rows, ghosts>>
           /\ SameCall(j) /\ job'[j].failed /\ job'[j].mid = job[j].mid
           /\ job'[j].todo \subseteq job[j].todo
<1>1. job[j].op = "pass" /\ JobTypes /\ job[j] \in JobRec
      /\ UNCHANGED <<thread, now, conv, rows, ghosts>>
  BY DEF Stumble, Base, JobTypes
<1>2. CASE pc[j] = "next" /\ ~Drained(job[j]) /\ job' = [Drop(j) EXCEPT ![j].failed = TRUE]
           /\ UNCHANGED pc
  <2>. DEFINE locals == [job[j] EXCEPT !.todo = @ \ {Newest(@)}, !.failed = TRUE]
  <2>1. job' = [job EXCEPT ![j] = locals] /\ pc' = [pc EXCEPT ![j] = "next"]
    BY <1>1, <1>2 DEF Drop, JobTypes
  <2>2. /\ locals.op = job[j].op /\ locals.mid = job[j].mid /\ locals.row = job[j].row
        /\ locals.conv = job[j].conv /\ locals.since = job[j].since /\ locals.failed
        /\ locals.began = job[j].began /\ locals.todo = job[j].todo \ {Newest(job[j].todo)}
    BY <1>1 DEF JobRec
  <2>. HIDE DEF locals
  <2>3. pc'[j] = "next" /\ job'[j] = locals /\ OthersKept(j)
    BY <1>1, <2>1, PcJob
  <2>. QED
    BY <1>1, <1>2, <2>2, <2>3 DEF SameCall
<1>3. CASE pc[j] \in {"reopen", "send"} /\ Thrown(j)
  <2>. DEFINE locals == [job[j] EXCEPT !.failed = TRUE]
  <2>1. job' = [job EXCEPT ![j] = locals] /\ pc' = [pc EXCEPT ![j] = "next"]
    BY <1>1, <1>3 DEF Thrown, Goto
  <2>2. /\ locals.op = job[j].op /\ locals.mid = job[j].mid /\ locals.row = job[j].row
        /\ locals.conv = job[j].conv /\ locals.since = job[j].since /\ locals.failed
        /\ locals.began = job[j].began /\ locals.todo = job[j].todo
    BY <1>1 DEF JobRec
  <2>. HIDE DEF locals
  <2>3. pc'[j] = "next" /\ job'[j] = locals /\ OthersKept(j)
    BY <1>1, <2>1, PcJob
  <2>. QED
    BY <1>1, <1>3, <2>2, <2>3 DEF SameCall
<1>. QED
  BY <1>2, <1>3 DEF Stumble

\* Advance moves the watermark to when the pass began, if nothing failed.
LEMMA AdvanceDoes ==
    ASSUME Base, NEW j \in Job, Advance(j)
    PROVE  /\ pc[j] = "next" /\ job[j].op = "pass" /\ Ends(j) /\ OthersKept(j)
           /\ Drained(job[j]) /\ job[j].conv \in Live
           /\ UNCHANGED <<thread, now, rows, ghosts>> /\ Live' = Live
           /\ \A c \in Conv : /\ conv'[c].last = conv[c].last
                              /\ \/ conv'[c].synced = conv[c].synced
                                 \/ /\ c = job[j].conv /\ ~job[j].failed
                                    /\ conv'[c].synced = job[j].began
<1>. DEFINE c == job[j].conv
            row == [conv[c] EXCEPT !.synced = job[j].began]
<1>1. /\ pc[j] = "next" /\ job[j].op = "pass" /\ JobTypes /\ Drained(job[j])
      /\ conv \in [Conv -> ConvRow \cup {NoConv}]
  BY DEF Base, Data, DataTypes, JobTypes, Advance, JobFits, StepsOf, JobRec
<1>2. Ends(j) /\ OthersKept(j) /\ UNCHANGED <<thread, now, rows, ghosts>>
  BY <1>1, EndDoes DEF Advance
<1>3. c \in Live /\ c \in Conv /\ conv[c] \in ConvRow /\ job[j].began \in Nat
  BY <1>1, LiveRow, JobKnown DEF HasConv, Base, Data, JobRec
<1>4. CASE conv' = conv
  BY <1>1, <1>2, <1>3, <1>4 DEF Live
<1>5. CASE conv' = [conv EXCEPT ![c] = row] /\ ~job[j].failed
  <2>1. row \in ConvRow /\ row.last = conv[c].last /\ row.synced = job[j].began
    BY <1>3 DEF ConvRow
  <2>2. conv'[c] = row /\ \A d \in Conv : d # c => conv'[d] = conv[d]
    BY <1>1, <1>3, <1>5
  <2>. HIDE DEF row
  <2>3. Live' = Live
    BY <1>3, <2>1, <2>2, NoConvIsNoRow DEF Live
  <2>. QED
    BY <1>1, <1>2, <1>3, <1>5, <2>1, <2>2, <2>3
<1>. QED
  BY <1>4, <1>5 DEF Advance, Clean

\* Fail ends the job, and loses the mid a reply had.
LEMMA FailDoes ==
    ASSUME Base, NEW j \in Job, Fail(j)
    PROVE  /\ Ends(j) /\ OthersKept(j)
           /\ UNCHANGED <<thread, now, conv, rows, raced, crowded, crossed, mistimed>>
           /\ lost' = IF pc[j] = "merge" THEN lost \cup {job[j].mid} ELSE lost
  BY EndDoes DEF Fail, Base
----------------------------------------------------------------------------
\* Replies

\* A step of a job, and what else happens.
JobStep(j) ==
    \/ \E m \in 1 .. MaxThread : StartInbound(j, m) \/ StartEcho(j, m)
    \/ StartSend(j) \/ StartPass(j)
    \/ \E s \in {"RESOLVED", "ARCHIVED"} : StartMark(j, s)
    \/ Mark(j) \/ Find(j) \/ Create(j) \/ Reopen(j)
    \/ Dedupe(j) \/ Send(j) \/ Commit(j) \/ Dispatch(j) \/ Merge(j)
    \/ List(j) \/ SkipUnreadable(j) \/ NextMessage(j) \/ Stumble(j) \/ Advance(j)
    \/ Fail(j)

\* Next is a step of the thread or of one job.
LEMMA NextIs ==
    Next <=> \/ \E from \in {"customer", "page"} : Write(from)
             \/ PostLate
             \/ \E j \in Job : JobStep(j)
  BY DEF Next, JobStep

\* Every step keeps Base: a row that is given a mid is the reply's own.
LEMMA BaseStep == Base /\ Replies /\ Next => Base'
<1>. SUFFICES ASSUME Base, Replies, Next PROVE Base'
  OBVIOUS
<1>1. CASE \E from \in {"customer", "page"} : Write(from)
  BY <1>1, WriteBase
<1>2. CASE PostLate
  BY <1>2, PostLateBase
<1>3. ASSUME NEW j \in Job, JobStep(j) PROVE Base'
  <2>1. ReplyFits(j)
    BY DEF Replies
  <2>. QED
    BY <1>3, <2>1, StartInboundBase, StartEchoBase, StartSendBase, StartMarkBase, StartPassBase,
       MarkBase, FindBase, CreateBase, ReopenBase, DedupeBase, SendBase, CommitBase, DispatchBase,
       MergeBase, ListBase, SkipUnreadableBase, NextMessageBase, StumbleBase, AdvanceBase, FailBase
       DEF JobStep
<1>. QED
  BY <1>1, <1>2, <1>3, NextIs

\* Nobody comes to own a row, and no row somebody owns is written.
LEMMA RepliesKept ==
    ASSUME Replies,
           \A k \in Job : Kept(k) \/ (ReplyFits(k)' /\ ~Owns(k)'),
           DOMAIN rows \subseteq DOMAIN rows',
           \A k \in Job : Kept(k) /\ Owns(k) /\ job[k].op = "send"
               => rows'[job[k].row].mid = rows[job[k].row].mid,
           \A m \in DOMAIN thread : m \in DOMAIN thread' /\ thread'[m].via = thread[m].via
    PROVE  Replies'
<1>1. ASSUME NEW k \in Job PROVE ReplyFits(k)'
  BY DEF Replies, ReplyFits, Kept, Owns
<1>2. ASSUME NEW k \in Job, NEW l \in Job, Owns(k)', Owns(l)', job'[k].row = job'[l].row PROVE k = l
  BY <1>2 DEF Replies, Owns, Kept
<1>. QED
  BY <1>1, <1>2 DEF Replies

\* A job that is not at a step of a reply has none.
LEMMA NoReply ==
    ASSUME Base', NEW j \in Job, pc'[j] \notin {"send", "commit", "dispatch", "merge"}
    PROVE  ReplyFits(j)' /\ ~Owns(j)'
  BY DEF Base, JobFits, StepsOf, ReplyFits, Owns

\* Every step keeps Replies: a new owner owns a new row.
LEMMA RepliesStep == Base /\ Base' /\ Replies /\ Next => Replies'
<1>. SUFFICES ASSUME Base, Base', Replies, Next PROVE Replies'
  OBVIOUS
<1>1. ASSUME NEW from \in {"customer", "page"}, Write(from) PROVE Replies'
  BY <1>1, WriteDoes, RepliesKept DEF Kept
<1>2. CASE PostLate
  BY <1>2, PostLateDoes, RepliesKept DEF Kept, Appended
<1>3. ASSUME NEW j \in Job, OthersKept(j), ReplyFits(j)', ~Owns(j)', UNCHANGED <<rows, thread>>
      PROVE  Replies'
  BY <1>3, RepliesKept DEF OthersKept
<1>4. ASSUME NEW j \in Job, OthersKept(j), UNCHANGED <<rows, thread>>,
             pc'[j] \notin {"send", "commit", "dispatch", "merge"}
      PROVE  Replies'
  BY <1>3, <1>4, NoReply
<1>5. ASSUME NEW j \in Job, JobStep(j) PROVE Replies'
  <2>1. ASSUME NEW m, StartInbound(j, m) PROVE Replies'
    BY <1>4, <2>1, StartInboundDoes DEF Starts
  <2>2. ASSUME NEW m, StartEcho(j, m) PROVE Replies'
    BY <1>4, <2>2, StartEchoDoes DEF Starts
  <2>3. CASE StartSend(j)
    BY <1>3, <2>3, StartSendDoes DEF Starts, ReplyFits, Owns
  <2>4. CASE StartPass(j)
    BY <1>4, <2>4, StartPassDoes DEF Starts
  <2>5. ASSUME NEW s \in {"RESOLVED", "ARCHIVED"}, StartMark(j, s) PROVE Replies'
    BY <1>4, <2>5, StartMarkDoes DEF Starts
  <2>6. CASE Mark(j)
    BY <1>4, <2>6, MarkDoes DEF Ends
  <2>7. CASE Find(j)
    BY <1>4, <2>7, FindDoes
  <2>8. CASE Create(j)
    BY <1>4, <2>8, CreateDoes
  <2>9. CASE Reopen(j)
    BY <1>3, <2>9, ReopenDoes DEF ReplyFits, Owns, SameCall
  <2>10. CASE Dedupe(j)
    BY <1>3, <2>10, DedupeDoes DEF ReplyFits, Owns, Ends, Idle
  <2>11. CASE Send(j)
    <3>1. ReplyFits(j) /\ OthersKept(j) /\ UNCHANGED <<rows, thread>>
      BY <2>11, SendDoes DEF Replies
    <3>2. CASE Fails(j)
      BY <1>4, <3>1, <3>2 DEF Fails, Ends
    <3>3. CASE pc'[j] = "commit" /\ SameCall(j) /\ SameWork(j)
      BY <1>3, <2>11, <3>1, <3>3, SendDoes DEF ReplyFits, Owns, SameCall, SameWork
    <3>. QED
      BY <2>11, <3>2, <3>3, SendDoes
  <2>12. CASE Commit(j)
    <3>1. ReplyFits(j) /\ OthersKept(j) /\ UNCHANGED thread /\ pc[j] = "commit"
      BY <2>12, CommitDoes DEF Replies
    <3>2. CASE Fails(j) /\ UNCHANGED rows
      BY <1>4, <3>1, <3>2 DEF Fails, Ends
    <3>3. CASE Adds(j)
      <4>1. /\ DOMAIN rows \subseteq DOMAIN rows' /\ \A r \in DOMAIN rows : rows'[r].mid = rows[r].mid
            /\ Len(rows) + 1 \in DOMAIN rows' /\ Len(rows) + 1 \notin DOMAIN rows
        BY <3>3 DEF Adds
      <4>2. CASE pc'[j] \notin {"send", "commit", "dispatch", "merge"}
        BY <3>1, <4>1, <4>2, NoReply, RepliesKept DEF OthersKept, Replies, ReplyFits, Owns
      <4>3. CASE /\ job[j].op = "send" /\ pc'[j] = "dispatch" /\ job'[j].row = Len(rows) + 1
                 /\ job'[j].mid = job[j].mid /\ job'[j].op = "send"
        <5>1. job[j].mid = 0 /\ rows'[Len(rows) + 1].mid = 0
          BY <3>1, <3>3, <4>3 DEF ReplyFits, Adds
        <5>2. ReplyFits(j)'
          BY <4>1, <4>3, <5>1 DEF ReplyFits, Owns
        <5>3. ASSUME NEW k \in Job, k # j PROVE ReplyFits(k)' /\ (Owns(k)' => job'[k].row \in DOMAIN rows)
          <6>1. ReplyFits(k) /\ Kept(k) /\ JobFits(k)
            BY <3>1, <5>3 DEF OthersKept, Replies, Base
          <6>2. Owns(k) => job[k].op = "send"
            BY <6>1 DEF Owns, JobFits, StepsOf, Base, JobTypes, JobRec
          <6>. QED
            BY <3>1, <4>1, <6>1, <6>2 DEF ReplyFits, Kept, Owns
        <5>4. ASSUME NEW k \in Job, NEW l \in Job, Owns(k)', Owns(l)', job'[k].row = job'[l].row
              PROVE  k = l
          BY <3>1, <4>1, <4>3, <5>3, <5>4 DEF Replies, Owns, Kept, OthersKept
        <5>. QED
          BY <5>2, <5>3, <5>4 DEF Replies
      <4>. QED
        BY <2>12, <4>2, <4>3, CommitDoes, <3>3 DEF Ends, Fails, Adds
    <3>. QED
      BY <2>12, <3>2, <3>3, CommitDoes
  <2>13. CASE Dispatch(j)
    <3>1. PICK n \in Nat :
            /\ Appended(job[j].row, n)
            /\ \/ Ends(j)
               \/ \E m \in Len(thread) + 1 .. Len(thread) + n :
                    /\ pc'[j] = "merge" /\ job'[j].mid = m /\ job'[j].row = job[j].row
                    /\ job'[j].op = "send"
      BY <2>13, DispatchDoes
    <3>2. /\ pc[j] = "dispatch" /\ job[j].op = "send" /\ OthersKept(j) /\ UNCHANGED rows
          /\ ReplyFits(j)
      BY <2>13, DispatchDoes DEF Replies
    <3>3. \A m \in DOMAIN thread : m \in DOMAIN thread' /\ thread'[m].via = thread[m].via
      BY <3>1 DEF Appended
    <3>4. CASE Ends(j)
      BY <3>2, <3>3, <3>4, NoReply, RepliesKept DEF Ends, OthersKept
    <3>5. CASE \E m \in Len(thread) + 1 .. Len(thread) + n :
                    /\ pc'[j] = "merge" /\ job'[j].mid = m /\ job'[j].row = job[j].row
                    /\ job'[j].op = "send"
      <4>1. job'[j].mid \in DOMAIN thread' /\ thread'[job'[j].mid].via = job[j].row
        BY <3>1, <3>5 DEF Appended
      <4>2. ReplyFits(j)'
        BY <3>2, <3>5, <4>1 DEF ReplyFits, Owns
      <4>3. ASSUME NEW k \in Job PROVE ReplyFits(k)'
        <5>1. CASE k # j
          BY <3>2, <3>3, <5>1 DEF Replies, ReplyFits, Owns, Kept, OthersKept
        <5>. QED
          BY <4>2, <5>1
      <4>4. ASSUME NEW k \in Job, NEW l \in Job, Owns(k)', Owns(l)', job'[k].row = job'[l].row
            PROVE  k = l
        <5>1. Owns(k) /\ Owns(l) /\ job[k].row = job[l].row
          BY <3>2, <3>5, <4>4 DEF Owns, Kept, OthersKept
        <5>. QED
          BY <5>1 DEF Replies
      <4>. QED
        BY <4>3, <4>4 DEF Replies
    <3>. QED
      BY <3>1, <3>4, <3>5
  <2>14. CASE Merge(j)
    <3>1. /\ pc[j] = "merge" /\ OthersKept(j) /\ Ends(j) /\ UNCHANGED thread /\ DOMAIN rows' = DOMAIN rows
          /\ job[j].op = "send"
          /\ \A r \in DOMAIN rows : r # job[j].row => rows'[r].mid = rows[r].mid
      BY <2>14, MergeDoes DEF Replies
    <3>2. ASSUME NEW k \in Job, k # j, Owns(k), job[k].op = "send"
          PROVE  rows'[job[k].row].mid = rows[job[k].row].mid
      <4>1. job[k].row # job[j].row /\ job[k].row \in DOMAIN rows
        BY <3>1, <3>2 DEF Replies, Owns, ReplyFits
      <4>. QED
        BY <3>1, <4>1
    <3>3. ReplyFits(j)' /\ ~Owns(j)' /\ ~Kept(j)
      BY <3>1, NoReply DEF Ends, Kept
    <3>. QED
      BY <3>1, <3>2, <3>3, RepliesKept DEF OthersKept
  <2>15. CASE List(j)
    BY <1>4, <2>15, ListDoes DEF Ends
  <2>16. CASE NextMessage(j)
    BY <1>3, <2>16, NextMessageDoes DEF ReplyFits, Owns, SameCall
  <2>17. CASE Advance(j)
    BY <1>4, <2>17, AdvanceDoes DEF Ends
  <2>18. CASE Fail(j)
    BY <1>4, <2>18, FailDoes DEF Ends
  <2>19. CASE SkipUnreadable(j)
    BY <1>4, <2>19, SkipUnreadableDoes
  <2>20. CASE Stumble(j)
    BY <1>4, <2>20, StumbleDoes
  <2>. QED
    BY <1>5, <2>1, <2>2, <2>3, <2>4, <2>5, <2>6, <2>7, <2>8, <2>9, <2>10, <2>11, <2>12, <2>13,
       <2>14, <2>15, <2>16, <2>17, <2>18, <2>19, <2>20 DEF JobStep
<1>. QED
  BY <1>1, <1>2, <1>5, NextIs

\* Replies holds at first: nothing is sent.
LEMMA InitReplies == Init => Replies
  BY DEF Init, Replies, ReplyFits, Owns, Idle

\* What FacebookService, its passes and MessagesService store always fits
\* together: no job ever holds a conversation, row or message that is not there,
\* and each reply is dispatched and merged by one job.
THEOREM BaseHolds == Spec => [](Base /\ Replies)
<1>1. Base /\ Replies /\ [Next]_vars => (Base /\ Replies)'
  <2>1. CASE Next
    BY <2>1, BaseStep, RepliesStep
  <2>2. ASSUME Base, Replies, UNCHANGED vars PROVE (Base /\ Replies)'
    <3>1. Data' /\ Grows /\ \A k \in Job : Kept(k)
      BY <2>2, SameData DEF vars, Base, Kept
    <3>2. JobTypes'
      BY <2>2 DEF vars, Base, JobTypes
    <3>3. Base'
      BY <2>2, <3>1, <3>2, OthersFit DEF Base, Data
    <3>. QED
      BY <2>2, <3>1, <3>3, RepliesKept DEF vars
  <2>. QED
    BY <2>1, <2>2
<1>. QED
  BY <1>1, InitBase, InitReplies, PTL DEF Spec
----------------------------------------------------------------------------
\* Crossing: lastMessageAt.

\* What a transaction read of its conversation is still so.
LEMMA CrossingKept ==
    ASSUME Base, Crossing, \A k \in Job : Kept(k) \/ pc'[k] # "commit",
           crossed' = crossed, Live' = Live, \A c \in Live : conv'[c].last = conv[c].last,
           DOMAIN rows' = DOMAIN rows,
           \A r \in DOMAIN rows : rows'[r].conv = rows[r].conv /\ rows'[r].at = rows[r].at
    PROVE  Crossing'
<1>1. LastIsNewest'
  BY DEF Crossing, LastIsNewest
<1>2. ASSUME NEW k \in Job, pc'[k] = "commit", job'[k].conv \notin crossed'
      PROVE  job'[k].last = conv'[job'[k].conv].last
  <2>1. Kept(k) /\ pc[k] = "commit" /\ job[k].conv \in Live /\ job[k].last = conv[job[k].conv].last
    BY <1>2, JobKnown DEF Kept, Crossing, HasConv
  <2>. QED
    BY <2>1 DEF Kept
<1>3. ASSUME NEW k \in Job, NEW l \in Job, pc'[k] = "commit", pc'[l] = "commit",
             job'[k].conv = job'[l].conv
      PROVE  k = l \/ job'[k].conv \in crossed'
  BY <1>3 DEF Kept, Crossing
<1>. QED
  BY <1>1, <1>2, <1>3 DEF Crossing

\* Every step keeps Crossing: a transaction that commits on what it read alone
\* moves lastMessageAt to the newest.
LEMMA CrossingStep == Base /\ Base' /\ Replies /\ Crossing /\ Next => Crossing'
<1>. SUFFICES ASSUME Base, Base', Replies, Crossing, Next PROVE Crossing'
  OBVIOUS
<1>1. ASSUME NEW from \in {"customer", "page"}, Write(from) PROVE Crossing'
  BY <1>1, WriteDoes, CrossingKept DEF Kept, ghosts, Live
<1>2. CASE PostLate
  BY <1>2, PostLateDoes, CrossingKept DEF Kept, Live
<1>3. ASSUME NEW j \in Job, OthersKept(j), UNCHANGED <<rows, crossed>>, Live' = Live,
             \A c \in Live : conv'[c].last = conv[c].last, pc'[j] # "commit"
      PROVE  Crossing'
  BY <1>3, CrossingKept DEF OthersKept
<1>4. ASSUME NEW j \in Job, OthersKept(j), UNCHANGED <<rows, crossed, conv>>, pc'[j] # "commit"
      PROVE  Crossing'
  BY <1>3, <1>4 DEF Live
<1>5. ASSUME NEW j \in Job, JobStep(j) PROVE Crossing'
  <2>1. ASSUME NEW m, StartInbound(j, m) PROVE Crossing'
    BY <1>4, <2>1, StartInboundDoes DEF Starts
  <2>2. ASSUME NEW m, StartEcho(j, m) PROVE Crossing'
    BY <1>4, <2>2, StartEchoDoes DEF Starts
  <2>3. CASE StartSend(j)
    BY <1>4, <2>3, StartSendDoes DEF Starts
  <2>4. CASE StartPass(j)
    BY <1>4, <2>4, StartPassDoes DEF Starts
  <2>5. ASSUME NEW s \in {"RESOLVED", "ARCHIVED"}, StartMark(j, s) PROVE Crossing'
    BY <1>4, <2>5, StartMarkDoes DEF Starts
  <2>6. CASE Mark(j)
    BY <1>3, <2>6, MarkDoes DEF Ends, ghosts, Live
  <2>7. CASE Find(j)
    BY <1>4, <2>7, FindDoes DEF ghosts
  <2>8. CASE Create(j)
    <3>1. /\ pc'[j] \in {"next", "dedupe"} /\ OthersKept(j) /\ UNCHANGED <<rows, crossed>>
      BY <2>8, CreateDoes DEF ghosts
    <3>2. PICK c \in Conv \ Live :
             /\ Live' = Live \cup {c} /\ conv'[c].last = 0
             /\ \A d \in Conv : d # c => conv'[d] = conv[d]
      BY <2>8, CreateDoes
    <3>3. Live \subseteq Conv /\ \A r \in DOMAIN rows : rows[r].conv \in Live
      BY DEF Base, Data, RowsRefer, Live
    <3>4. LastIsNewest'
      <4>1. ASSUME NEW d \in Live' \ crossed', d # c
            PROVE  /\ \A r \in DOMAIN rows' : rows'[r].conv = d => rows'[r].at <= conv'[d].last
                   /\ conv'[d].last # 0 =>
                        \E r \in DOMAIN rows' : rows'[r].conv = d /\ rows'[r].at = conv'[d].last
        BY <3>1, <3>2, <3>3, <4>1 DEF Crossing, LastIsNewest
      <4>2. \A r \in DOMAIN rows' : rows'[r].conv # c
        BY <3>1, <3>2, <3>3
      <4>. QED
        BY <3>2, <4>1, <4>2 DEF LastIsNewest
    <3>5. ASSUME NEW k \in Job, pc'[k] = "commit" PROVE pc[k] = "commit" /\ job'[k] = job[k] /\ job[k].conv \in Live
      <4>1. pc[k] = "commit" /\ job'[k] = job[k]
        BY <3>1, <3>5 DEF OthersKept, Kept
      <4>. QED
        BY <4>1, JobKnown DEF HasConv
    <3>6. \A d \in Live : conv'[d].last = conv[d].last
      BY <3>2, <3>3
    <3>. QED
      BY <3>1, <3>4, <3>5, <3>6 DEF Crossing
  <2>9. CASE Reopen(j)
    BY <1>3, <2>9, ReopenDoes DEF ghosts, Live
  <2>10. CASE Dedupe(j)
    BY <1>4, <2>10, DedupeDoes DEF ghosts, Ends
  <2>11. CASE Send(j)
    <3>1. /\ OthersKept(j) /\ UNCHANGED <<rows, conv>> /\ job[j].conv \in Live /\ Live' = Live
      BY <2>11, SendDoes DEF Live
    <3>2. CASE Fails(j) /\ crossed' = crossed
      BY <1>4, <3>1, <3>2 DEF Fails, Ends
    <3>3. CASE /\ pc'[j] = "commit" /\ SameCall(j) /\ job'[j].last = conv[job[j].conv].last
               /\ crossed' = IF \E k \in Job : pc[k] = "commit" /\ job[k].conv = job[j].conv
                             THEN crossed \cup {job[j].conv} ELSE crossed
      <4>1. LastIsNewest'
        BY <3>1, <3>3 DEF Crossing, LastIsNewest
      <4>2. \A k \in Job : pc'[k] = "commit" /\ job'[k].conv \notin crossed' =>
               job'[k].last = conv'[job'[k].conv].last
        BY <3>1, <3>3 DEF Crossing, OthersKept, Kept, SameCall
      <4>3. ASSUME NEW k \in Job, NEW l \in Job, pc'[k] = "commit", pc'[l] = "commit",
                   job'[k].conv = job'[l].conv
            PROVE  k = l \/ job'[k].conv \in crossed'
        BY <3>1, <3>3, <4>3, SendDoes, <2>11 DEF Crossing, OthersKept, Kept, SameCall
      <4>. QED
        BY <4>1, <4>2, <4>3 DEF Crossing
    <3>. QED
      BY <2>11, <3>2, <3>3, SendDoes
  <2>12. CASE Commit(j)
    <3>1. /\ OthersKept(j) /\ job[j].conv \in Live /\ Live' = Live /\ crossed' = crossed
          /\ pc[j] = "commit" /\ pc'[j] # "commit"
      BY <2>12, CommitDoes DEF ghosts, Fails, Ends
    <3>2. CASE UNCHANGED <<rows, conv>>
      BY <1>4, <3>1, <3>2
    <3>3. CASE Adds(j)
      <4>. DEFINE c == job[j].conv
                  new == Len(rows) + 1
      <4>1. /\ DOMAIN rows' = DOMAIN rows \cup {new} /\ new \notin DOMAIN rows
            /\ \A r \in DOMAIN rows : rows'[r] = rows[r]
            /\ rows'[new].conv = c /\ rows'[new].at = job[j].at
            /\ conv'[c].last = NextLast(job[j]) /\ \A d \in Conv : d # c => conv'[d] = conv[d]
        BY <3>3 DEF Adds
      <4>2. /\ job[j].last \in Nat /\ job[j].at \in Nat /\ Live \subseteq Conv
            /\ \A r \in DOMAIN rows : rows[r].at \in Nat
        <5>1. \A r \in DOMAIN rows : rows[r] \in RowRec
          BY DEF Base, Data, DataTypes
        <5>. QED
          BY <5>1, JobKnown DEF Live, RowRec, JobRec
      <4>3. c \notin crossed => job[j].last = conv[c].last
        BY <3>1 DEF Crossing
      <4>. HIDE DEF new
      <4>4. ASSUME NEW d \in Live \ crossed, d # c
            PROVE  /\ \A r \in DOMAIN rows' : rows'[r].conv = d => rows'[r].at <= conv'[d].last
                   /\ conv'[d].last # 0 =>
                        \E r \in DOMAIN rows' : rows'[r].conv = d /\ rows'[r].at = conv'[d].last
        BY <4>1, <4>2, <4>4 DEF Crossing, LastIsNewest
      <4>5. ASSUME c \notin crossed
            PROVE  /\ \A r \in DOMAIN rows' : rows'[r].conv = c => rows'[r].at <= conv'[c].last
                   /\ conv'[c].last # 0 =>
                        \E r \in DOMAIN rows' : rows'[r].conv = c /\ rows'[r].at = conv'[c].last
        <5>1. /\ \A r \in DOMAIN rows : rows[r].conv = c => rows[r].at <= job[j].last
              /\ job[j].last # 0 => \E r \in DOMAIN rows : rows[r].conv = c /\ rows[r].at = job[j].last
          BY <3>1, <4>3, <4>5 DEF Crossing, LastIsNewest
        <5>2. CASE job[j].last > job[j].at
          <6>1. conv'[c].last = job[j].last
            BY <4>1, <5>2 DEF NextLast
          <6>. QED
            BY <4>1, <4>2, <5>1, <5>2, <6>1
        <5>3. CASE ~(job[j].last > job[j].at)
          <6>1. conv'[c].last = job[j].at
            BY <4>1, <5>3 DEF NextLast
          <6>2. \A r \in DOMAIN rows : rows[r].conv = c => rows[r].at <= job[j].at
            BY <4>2, <5>1, <5>3
          <6>. QED
            BY <4>1, <4>2, <6>1, <6>2
        <5>. QED
          BY <5>2, <5>3
      <4>6. LastIsNewest'
        BY <3>1, <4>4, <4>5 DEF LastIsNewest
      <4>7. ASSUME NEW k \in Job, pc'[k] = "commit" PROVE pc[k] = "commit" /\ job'[k] = job[k] /\ k # j
        BY <3>1, <4>7 DEF OthersKept, Kept
      <4>8. ASSUME NEW k \in Job, pc'[k] = "commit", job'[k].conv \notin crossed'
            PROVE  job'[k].last = conv'[job'[k].conv].last
        <5>1. job[k].conv \in Live /\ job[k].conv # c /\ job[k].last = conv[job[k].conv].last
          BY <3>1, <4>7, <4>8, JobKnown DEF Crossing, HasConv
        <5>. QED
          BY <4>1, <4>2, <4>7, <4>8, <5>1
      <4>. QED
        BY <3>1, <4>6, <4>7, <4>8 DEF Crossing
    <3>. QED
      BY <2>12, <3>2, <3>3, CommitDoes
  <2>13. CASE Dispatch(j)
    BY <1>4, <2>13, DispatchDoes DEF Ends
  <2>14. CASE Merge(j)
    BY <2>14, MergeDoes, CrossingKept DEF Replies, Ends, OthersKept, ghosts, Live
  <2>15. CASE List(j)
    BY <1>4, <2>15, ListDoes DEF ghosts, Ends
  <2>16. CASE NextMessage(j)
    BY <1>4, <2>16, NextMessageDoes DEF ghosts
  <2>17. CASE Advance(j)
    BY <1>3, <2>17, AdvanceDoes DEF ghosts, Ends, Live
  <2>18. CASE Fail(j)
    BY <1>4, <2>18, FailDoes DEF Ends
  <2>19. CASE SkipUnreadable(j)
    BY <1>4, <2>19, SkipUnreadableDoes
  <2>20. CASE Stumble(j)
    BY <1>4, <2>20, StumbleDoes DEF ghosts
  <2>. QED
    BY <1>5, <2>1, <2>2, <2>3, <2>4, <2>5, <2>6, <2>7, <2>8, <2>9, <2>10, <2>11, <2>12, <2>13,
       <2>14, <2>15, <2>16, <2>17, <2>18, <2>19, <2>20 DEF JobStep
<1>. QED
  BY <1>1, <1>2, <1>5, NextIs

\* lastMessageAt of a conversation is that of its newest message, as long as no
\* two of the transactions of sendMessage wrote to it at a time.
THEOREM LastIsNewestHolds == Spec => []LastIsNewest
<1>1. Init => Crossing
  BY DEF Init, Crossing, LastIsNewest, Live
<1>2. Base /\ Base' /\ Replies /\ Crossing /\ [Next]_vars => Crossing'
  <2>1. ASSUME Base, Crossing, UNCHANGED vars PROVE Crossing'
    BY <2>1, CrossingKept DEF vars, Kept, Live
  <2>. QED
    BY <2>1, CrossingStep
<1>3. Crossing => LastIsNewest
  BY DEF Crossing
<1>. QED
  BY <1>1, <1>2, <1>3, BaseHolds, PTL DEF Spec
----------------------------------------------------------------------------
\* Crowding: one conversation.

\* Nobody comes to look, and none is made.
LEMMA CrowdingKept ==
    ASSUME Crowding, crowded' = crowded, Live' = Live,
           \A k \in Job : (Looks(k)' => Looks(k)) /\ (pc'[k] = "create" => pc[k] = "create")
    PROVE  Crowding'
  BY DEF Crowding

\* A job that does not move looks on.
LEMMA LooksKept == ASSUME NEW k \in Job, Kept(k) PROVE Looks(k)' <=> Looks(k)
  BY DEF Kept, Looks

\* Every step keeps Crowding: who looks alone makes a conversation only where
\* there is none.
LEMMA CrowdingStep == Base /\ Base' /\ Replies /\ Crowding /\ Next => Crowding'
<1>. SUFFICES ASSUME Base, Base', Replies, Crowding, Next PROVE Crowding'
  OBVIOUS
<1>1. ASSUME NEW from \in {"customer", "page"}, Write(from) PROVE Crowding'
  BY <1>1, WriteDoes, CrowdingKept, LooksKept DEF Kept, ghosts, Live
<1>2. CASE PostLate
  <2>1. crowded' = crowded
    BY <1>2 DEF PostLate
  <2>. QED
    BY <1>2, <2>1, PostLateDoes, CrowdingKept, LooksKept DEF Kept, Live
<1>3. ASSUME NEW j \in Job, OthersKept(j), crowded' = crowded, Live' = Live,
             pc'[j] \notin {"list", "find", "create"}
      PROVE  Crowding'
  BY <1>3, CrowdingKept, LooksKept DEF OthersKept, Kept, Looks
<1>4. ASSUME NEW j \in Job, OthersKept(j), crowded' = crowded, UNCHANGED conv,
             pc'[j] \notin {"list", "find", "create"}
      PROVE  Crowding'
  BY <1>3, <1>4 DEF Live
<1>5. ASSUME NEW j \in Job, OthersKept(j), Crowd, UNCHANGED conv, pc'[j] \in {"list", "find"}
      PROVE  Crowding'
  <2>1. Live' = Live
    BY <1>5 DEF Live
  <2>2. crowded' = (crowded \/ \E k \in Job : Looks(k))
    BY <1>5 DEF Crowd
  <2>3. ASSUME ~crowded' PROVE ~crowded /\ \A k \in Job : ~Looks(k) /\ (k # j => ~Looks(k)')
    BY <1>5, <2>2, <2>3, LooksKept DEF OthersKept
  <2>4. ASSUME NEW k \in Job, pc'[k] = "create" PROVE pc[k] = "create"
    BY <1>5, <2>4 DEF OthersKept, Kept
  <2>. QED
    BY <2>1, <2>3, <2>4 DEF Crowding
<1>6. ASSUME NEW j \in Job, JobStep(j) PROVE Crowding'
  <2>1. ASSUME NEW m, StartInbound(j, m) PROVE Crowding'
    BY <1>5, <2>1, StartInboundDoes DEF Starts
  <2>2. ASSUME NEW m, StartEcho(j, m) PROVE Crowding'
    BY <1>4, <2>2, StartEchoDoes DEF Starts
  <2>3. CASE StartSend(j)
    BY <1>4, <2>3, StartSendDoes DEF Starts
  <2>4. CASE StartPass(j)
    BY <1>5, <2>4, StartPassDoes DEF Starts
  <2>5. ASSUME NEW s \in {"RESOLVED", "ARCHIVED"}, StartMark(j, s) PROVE Crowding'
    BY <1>4, <2>5, StartMarkDoes DEF Starts
  <2>6. CASE Mark(j)
    BY <1>3, <2>6, MarkDoes DEF Ends, ghosts
  <2>7. CASE Find(j)
    <3>1. OthersKept(j) /\ crowded' = crowded /\ UNCHANGED conv /\ Looks(j) /\ Live' = Live
      BY <2>7, FindDoes DEF ghosts, Looks, Live
    <3>2. CASE pc'[j] \in {"reopen", "next", "dedupe"}
      BY <1>4, <3>1, <3>2
    <3>3. CASE Live = {}
      <4>1. ASSUME NEW k \in Job PROVE Looks(k)' => Looks(k)
        BY <3>1, LooksKept DEF OthersKept
      <4>. QED
        BY <3>1, <3>3, <4>1 DEF Crowding
    <3>. QED
      BY <2>7, <3>2, <3>3, FindDoes
  <2>8. CASE Create(j)
    <3>1. /\ OthersKept(j) /\ crowded' = crowded /\ Looks(j) /\ pc[j] = "create"
          /\ pc'[j] \in {"next", "dedupe"}
      BY <2>8, CreateDoes DEF ghosts, Looks
    <3>2. PICK c \in Conv \ Live : Live' = Live \cup {c}
      BY <2>8, CreateDoes
    <3>3. ASSUME ~crowded PROVE Live = {} /\ \A k \in Job : ~Looks(k)'
      BY <3>1, <3>3, LooksKept DEF Crowding, OthersKept, Looks
    <3>4. ASSUME NEW k \in Job, pc'[k] = "create" PROVE Looks(k)'
      <4>1. job'[k].op \in {"inbound", "pass"}
        BY <3>4 DEF Base, JobTypes, JobRec, JobFits, StepsOf
      <4>. QED
        BY <3>4, <4>1 DEF Looks
    <3>. QED
      BY <3>1, <3>2, <3>3, <3>4 DEF Crowding
  <2>9. CASE Reopen(j)
    BY <1>3, <2>9, ReopenDoes DEF ghosts
  <2>10. CASE Dedupe(j)
    BY <1>4, <2>10, DedupeDoes DEF ghosts, Ends
  <2>11. CASE Send(j)
    BY <1>4, <2>11, SendDoes DEF Fails, Ends
  <2>12. CASE Commit(j)
    BY <1>3, <2>12, CommitDoes DEF ghosts, Fails, Ends
  <2>13. CASE Dispatch(j)
    BY <1>4, <2>13, DispatchDoes DEF Ends
  <2>14. CASE Merge(j)
    BY <1>4, <2>14, MergeDoes DEF Replies, Ends, ghosts
  <2>15. CASE List(j)
    <3>1. OthersKept(j) /\ crowded' = crowded /\ UNCHANGED conv /\ Looks(j) /\ Live' = Live
          /\ pc'[j] # "create"
      BY <2>15, ListDoes DEF ghosts, Looks, Live, Ends
    <3>2. ASSUME NEW k \in Job
          PROVE  (Looks(k)' => Looks(k)) /\ (pc'[k] = "create" => pc[k] = "create")
      BY <3>1, LooksKept DEF OthersKept, Kept
    <3>. QED
      BY <3>1, <3>2, CrowdingKept
  <2>16. CASE NextMessage(j)
    BY <1>4, <2>16, NextMessageDoes DEF ghosts
  <2>17. CASE Advance(j)
    BY <1>3, <2>17, AdvanceDoes DEF ghosts, Ends
  <2>18. CASE Fail(j)
    BY <1>4, <2>18, FailDoes DEF Ends
  <2>19. CASE SkipUnreadable(j)
    BY <1>4, <2>19, SkipUnreadableDoes
  <2>20. CASE Stumble(j)
    BY <1>4, <2>20, StumbleDoes DEF ghosts
  <2>. QED
    BY <1>6, <2>1, <2>2, <2>3, <2>4, <2>5, <2>6, <2>7, <2>8, <2>9, <2>10, <2>11, <2>12, <2>13,
       <2>14, <2>15, <2>16, <2>17, <2>18, <2>19, <2>20 DEF JobStep
<1>. QED
  BY <1>1, <1>2, <1>6, NextIs

\* findOrCreateConversation makes one conversation for a customer, whatever
\* agents do to its status, unless two jobs looked for it at a time: the table
\* has no key that would refuse the second.
THEOREM OneConversationHolds == Spec => []OneConversation
<1>1. Init => Crowding
  BY DEF Init, Crowding, Looks, Live, Idle
<1>2. Base /\ Base' /\ Replies /\ Crowding /\ [Next]_vars => Crowding'
  <2>1. ASSUME Base, Crowding, UNCHANGED vars PROVE Crowding'
    BY <2>1, CrowdingKept, LooksKept DEF vars, Kept, Live
  <2>. QED
    BY <2>1, CrowdingStep
<1>3. Base /\ Crowding => OneConversation
  <2>. SUFFICES ASSUME Base, Crowding, ~crowded PROVE Cardinality(Live) <= 1
    BY DEF OneConversation
  <2>1. IsFiniteSet(Live) /\ \A c, d \in Live : c = d
    BY DEF Base, Data, LiveFinite, Crowding
  <2>2. CASE Live = {}
    BY <2>2, FS_EmptySet
  <2>3. CASE Live # {}
    <3>1. \E c : Live = {c}
      BY <2>1, <2>3
    <3>. QED
      BY <3>1, FS_Singleton
  <2>. QED
    BY <2>2, <2>3
<1>. QED
  BY <1>1, <1>2, <1>3, BaseHolds, PTL DEF Spec
----------------------------------------------------------------------------
\* Handling: a message is stored once.

\* What a job stores is something it handles.
LEMMA StoresHandles ==
    ASSUME Base, Replies, NEW k \in Job, Stores(k) \/ pc[k] = "merge"
    PROVE  k \in InFlight /\ job[k].mid \in Handles(k) /\ job[k].mid # 0
<1>1. JobFits(k) /\ JobRefers(k) /\ job[k].mid \in 0 .. Len(thread) /\ job[k] \in JobRec
      /\ pc[k] \in StepsOf(job[k].op)
  BY DEF Base, JobFits, JobRefers, JobTypes
<1>2. Len(thread) \in Nat /\ Len(thread) <= MaxThread /\ MaxThread \in Nat
  BY BoundsAreNat DEF Base, Data, DataTypes
<1>3. CASE pc[k] = "merge"
  <2>1. job[k].op = "send"
    BY <1>1, <1>3 DEF StepsOf, JobRec
  <2>2. job[k].mid \in DOMAIN thread /\ thread[job[k].mid].via = job[k].row /\ job[k].row \in DOMAIN rows
    BY <1>3, <2>1 DEF Replies, ReplyFits, Owns
  <2>3. job[k].row # 0 /\ job[k].mid # 0
    BY <2>2 DEF Base, Data, DataTypes
  <2>. QED
    BY <1>3, <2>1, <2>2, <2>3 DEF Handles, InFlight
<1>4. CASE Stores(k)
  <2>1. k \in InFlight
    BY <1>4 DEF Stores, InFlight
  <2>2. CASE job[k].op \in {"inbound", "echo"}
    BY <1>1, <2>1, <2>2 DEF Handles, JobRefers
  <2>3. CASE job[k].op = "pass"
    <3>1. job[k].mid # 0
      BY <1>1, <1>4, <2>3 DEF Stores, JobRefers
    <3>2. job[k].mid \in 1 .. MaxThread
      BY <1>1, <1>2, <3>1
    <3>. QED
      BY <2>1, <2>3, <3>1, <3>2 DEF Handles
  <2>. QED
    BY <1>4, <2>2, <2>3 DEF Stores
<1>. QED
  BY <1>3, <1>4

\* No job comes to handle more.
LEMMA ApartKept ==
    ASSUME Apart, raced \subseteq raced',
           \A k \in Job : k \in InFlight' => k \in InFlight /\ Handles(k)' \subseteq Handles(k)
    PROVE  Apart'
<1>1. InFlight' \subseteq Job
  BY DEF InFlight
<1>. QED
  BY <1>1 DEF Apart

\* What a job handles depends on little.
LEMMA SameHandles ==
    ASSUME NEW k \in Job, job'[k] = job[k], UNCHANGED thread
    PROVE  Handles(k)' = Handles(k)
  BY DEF Handles

\* A step within a job does not change it.
LEMMA CallHandles ==
    ASSUME Base, Base', NEW k \in Job, job'[k].op = job[k].op, job'[k].mid = job[k].mid, job'[k].row = job[k].row,
           UNCHANGED thread
    PROVE  Handles(k)' = Handles(k)
  BY DEF Handles

\* A job that starts is marked against those in flight.
LEMMA StartApart ==
    ASSUME Apart, NEW j \in Job, NEW M, OthersKept(j), UNCHANGED thread,
           Handles(j)' \subseteq M,
           raced' = raced \cup (M \cap UNION {Handles(k) : k \in InFlight})
    PROVE  Apart'
<1>1. ASSUME NEW k \in Job, k # j PROVE Handles(k)' = Handles(k) /\ (k \in InFlight' => k \in InFlight)
  BY <1>1, SameHandles DEF OthersKept, Kept, InFlight
<1>2. InFlight' \subseteq Job
  BY DEF InFlight
<1>3. ASSUME NEW k \in InFlight', k # j PROVE Handles(j)' \cap Handles(k)' \subseteq raced'
  BY <1>1, <1>2, <1>3
<1>4. ASSUME NEW k \in InFlight', NEW l \in InFlight', k # l, k # j, l # j
      PROVE  Handles(k)' \cap Handles(l)' \subseteq raced'
  BY <1>1, <1>2, <1>4 DEF Apart
<1>5. ASSUME NEW k \in InFlight', NEW l \in InFlight', k # l
      PROVE  Handles(k)' \cap Handles(l)' \subseteq raced'
  BY <1>3, <1>4, <1>5
<1>. QED
  BY <1>5 DEF Apart

\* Posts for a row: of those that handle them, one is the reply's own job.
LEMMA PostApart ==
    ASSUME Base, Replies, Apart, NEW row \in Nat, NEW n \in Nat, Appended(row, n),
           \A k \in Job : /\ k \in InFlight' => k \in InFlight
                          /\ k \in InFlight' => job'[k].op = job[k].op /\ job'[k].row = job[k].row
                          /\ k \in InFlight' /\ job[k].op # "send" => job'[k].mid = job[k].mid
    PROVE  Apart'
<1>. SUFFICES ASSUME NEW k \in InFlight', NEW l \in InFlight', k # l, NEW m \in Handles(k)', m \in Handles(l)'
              PROVE  m \in raced'
  BY DEF Apart
<1>1. k \in Job /\ l \in Job /\ k \in InFlight /\ l \in InFlight
  BY DEF InFlight
<1>2. ASSUME NEW i \in Job, i \in InFlight', i \in InFlight, m \in Handles(i)'
      PROVE  /\ job[i].op # "none"
             /\ \/ m \in Handles(i)
                \/ job[i].op = "send" /\ Owns(i) /\ job[i].row = row /\ m \in Len(thread) + 1 .. Len(thread) + n
  <2>1. /\ job'[i].op = job[i].op /\ job'[i].row = job[i].row
        /\ job[i].op # "send" => job'[i].mid = job[i].mid
    BY <1>2
  <2>2. JobFits(i) /\ job[i] \in JobRec /\ ReplyFits(i)
    BY DEF Base, JobTypes, Replies
  <2>3. job[i].op # "none"
    BY <1>2, <2>2 DEF JobFits, StepsOf, InFlight
  <2>4. CASE job[i].op = "send"
    <3>1. m \in DOMAIN thread' /\ thread'[m].via # 0 /\ thread'[m].via = job[i].row
      BY <1>2, <2>1, <2>4 DEF Handles
    <3>2. CASE m \in DOMAIN thread
      <4>1. thread[m].via # 0 /\ thread[m].via = job[i].row
        BY <3>1, <3>2 DEF Appended
      <4>. QED
        BY <2>3, <2>4, <3>2, <4>1 DEF Handles
    <3>3. CASE m \notin DOMAIN thread
      <4>1. m \in Len(thread) + 1 .. Len(thread) + n /\ job[i].row = row
        BY <3>1, <3>3 DEF Appended
      <4>2. Owns(i)
        BY <2>2, <2>4, <3>1 DEF ReplyFits, Owns, JobFits, StepsOf
      <4>. QED
        BY <2>3, <2>4, <4>1, <4>2
    <3>. QED
      BY <3>2, <3>3
  <2>5. CASE job[i].op # "send"
    BY <1>2, <2>1, <2>3, <2>5 DEF Handles
  <2>. QED
    BY <2>4, <2>5
<1>3. raced \subseteq raced'
  BY DEF Appended
<1>4. CASE m \in Handles(k) /\ m \in Handles(l)
  BY <1>1, <1>3, <1>4 DEF Apart
<1>5. ASSUME NEW i \in Job, i \in InFlight, NEW o \in Job, job[o].op = "send", job[o].row = row, Owns(o), i # o,
             m \in Len(thread) + 1 .. Len(thread) + n, m \in Handles(i)
      PROVE  m \in raced'
  <2>1. JobFits(i) /\ Len(thread) \in Nat /\ DOMAIN thread = 1 .. Len(thread)
    BY DEF Base, Data, DataTypes
  <2>2. m \notin DOMAIN thread /\ m \notin 0 .. Len(thread)
    BY <1>5, <2>1
  <2>3. job[i].op = "pass"
    BY <1>5, <2>1, <2>2 DEF Handles, JobFits, JobRefers
  <2>. QED
    BY <1>5, <2>3 DEF Appended
<1>. QED
  BY <1>1, <1>2, <1>4, <1>5 DEF Replies

\* Every step keeps Apart: what two jobs come to share is marked.
LEMMA ApartStep == Base /\ Base' /\ Replies /\ Apart /\ Next => Apart'
<1>. SUFFICES ASSUME Base, Base', Replies, Apart, Next PROVE Apart'
  OBVIOUS
<1>1. ASSUME NEW from \in {"customer", "page"}, Write(from) PROVE Apart'
  <2>1. ASSUME NEW k \in Job PROVE Handles(k)' \subseteq Handles(k)
    <3>1. \A m \in DOMAIN thread' : thread'[m].via # 0 => m \in DOMAIN thread /\ thread[m] = thread'[m]
      BY <1>1, WriteDoes
    <3>. QED
      BY <1>1, <3>1, WriteDoes DEF Handles
  <2>. QED
    BY <1>1, <2>1, WriteDoes, ApartKept DEF ghosts, InFlight
<1>2. CASE PostLate
  BY <1>2, PostLateDoes, PostApart DEF InFlight
<1>3. ASSUME NEW j \in Job, OthersKept(j), raced' = raced, UNCHANGED thread,
             pc'[j] = "ended" \/ (j \in InFlight /\ Handles(j)' \subseteq Handles(j))
      PROVE  Apart'
  BY <1>3, ApartKept, SameHandles DEF OthersKept, Kept, InFlight
<1>4. ASSUME NEW j \in Job, OthersKept(j), raced' = raced, UNCHANGED thread, j \in InFlight,
             job'[j].op = job[j].op, job'[j].mid = job[j].mid, job'[j].row = job[j].row
      PROVE  Apart'
  BY <1>3, <1>4, CallHandles
<1>5. ASSUME NEW j \in Job, JobStep(j) PROVE Apart'
  <2>1. ASSUME NEW m, StartInbound(j, m) PROVE Apart'
    <3>1. /\ OthersKept(j) /\ UNCHANGED thread /\ job'[j].op = "inbound" /\ job'[j].mid = m
          /\ raced' = raced \cup ({m} \cap UNION {Handles(k) : k \in InFlight})
      BY <2>1, StartInboundDoes DEF Starts
    <3>2. Handles(j)' \subseteq {m}
      BY <3>1 DEF Handles
    <3>. QED
      BY <3>1, <3>2, StartApart
  <2>2. ASSUME NEW m, StartEcho(j, m) PROVE Apart'
    <3>1. /\ OthersKept(j) /\ UNCHANGED thread /\ job'[j].op = "echo" /\ job'[j].mid = m
          /\ raced' = raced \cup ({m} \cap UNION {Handles(k) : k \in InFlight})
      BY <2>2, StartEchoDoes DEF Starts
    <3>2. Handles(j)' \subseteq {m}
      BY <3>1 DEF Handles
    <3>. QED
      BY <3>1, <3>2, StartApart
  <2>3. CASE StartSend(j)
    BY <2>3, StartSendDoes, StartApart, raced' = raced \cup ({} \cap UNION {Handles(k) : k \in InFlight})
       DEF Starts, Handles
  <2>4. CASE StartPass(j)
    BY <2>4, StartPassDoes, StartApart DEF Starts, Handles
  <2>5. ASSUME NEW s \in {"RESOLVED", "ARCHIVED"}, StartMark(j, s) PROVE Apart'
    BY <2>5, StartMarkDoes, StartApart, raced' = raced \cup ({} \cap UNION {Handles(k) : k \in InFlight})
       DEF Starts, Handles
  <2>6. CASE Mark(j)
    BY <1>3, <2>6, MarkDoes DEF Ends, ghosts
  <2>7. CASE Find(j)
    BY <1>4, <2>7, FindDoes DEF ghosts, InFlight, SameWork
  <2>8. CASE Create(j)
    BY <1>4, <2>8, CreateDoes DEF ghosts, InFlight, SameWork
  <2>9. CASE Reopen(j)
    BY <1>4, <2>9, ReopenDoes DEF ghosts, InFlight, SameCall, SameWork
  <2>10. CASE Dedupe(j)
    BY <1>3, <1>4, <2>10, DedupeDoes DEF ghosts, InFlight, Ends
  <2>11. CASE Send(j)
    BY <1>3, <1>4, <2>11, SendDoes DEF InFlight, Fails, Ends, SameCall, SameWork
  <2>12. CASE Commit(j)
    <3>1. OthersKept(j) /\ raced' = raced /\ UNCHANGED thread /\ j \in InFlight
      BY <2>12, CommitDoes DEF ghosts, InFlight
    <3>2. CASE Fails(j)
      BY <1>3, <1>4, <3>1, <3>2 DEF Fails, Ends, SameCall
    <3>3. CASE Ends(j)
      BY <1>3, <3>1, <3>3 DEF Ends
    <3>4. CASE SameCall(j) /\ SameWork(j)
      BY <1>4, <3>1, <3>4 DEF SameCall, SameWork
    <3>5. CASE job'[j].op = "send" /\ job'[j].row = Len(rows) + 1
      <4>1. \A m \in DOMAIN thread : thread[m].via \in 0 .. Len(rows)
        BY DEF Base, Data, ThreadInOrder
      <4>2. Len(rows) \in Nat
        BY DEF Base, Data, DataTypes
      <4>3. \A m \in DOMAIN thread : thread[m].via # Len(rows) + 1
        BY <4>1, <4>2
      <4>4. Handles(j)' = {}
        BY <3>1, <3>5, <4>3 DEF Handles
      <4>. QED
        BY <1>3, <3>1, <4>4
    <3>. QED
      BY <2>12, <3>2, <3>3, <3>4, <3>5, CommitDoes
  <2>13. CASE Dispatch(j)
    <3>1. PICK n \in Nat :
            /\ Appended(job[j].row, n)
            /\ \/ Ends(j)
               \/ pc'[j] = "merge" /\ job'[j].row = job[j].row /\ job'[j].op = "send"
      BY <2>13, DispatchDoes
    <3>2. OthersKept(j) /\ j \in InFlight /\ job[j].op = "send" /\ job[j].row \in Nat
      BY <2>13, DispatchDoes, JobKnown DEF InFlight, JobRec
    <3>3. ASSUME NEW k \in Job, k \in InFlight'
          PROVE  /\ k \in InFlight /\ job'[k].op = job[k].op /\ job'[k].row = job[k].row
                 /\ job[k].op # "send" => job'[k].mid = job[k].mid
      BY <3>1, <3>2, <3>3 DEF OthersKept, Kept, InFlight, Ends
    <3>. QED
      BY <3>1, <3>2, <3>3, PostApart
  <2>14. CASE Merge(j)
    BY <1>3, <2>14, MergeDoes DEF Replies, Ends, ghosts
  <2>15. CASE List(j)
    BY <1>3, <1>4, <2>15, ListDoes DEF ghosts, Ends, InFlight, SameCall
  <2>16. CASE NextMessage(j)
    <3>1. /\ OthersKept(j) /\ raced' = raced /\ UNCHANGED thread /\ j \in InFlight
          /\ job[j].op = "pass" /\ job'[j].op = "pass"
      BY <2>16, NextMessageDoes DEF ghosts, InFlight, SameCall
    <3>. QED
      BY <1>3, <3>1 DEF Handles
  <2>17. CASE Advance(j)
    BY <1>3, <2>17, AdvanceDoes DEF ghosts, Ends
  <2>18. CASE Fail(j)
    BY <1>3, <2>18, FailDoes DEF Ends
  <2>19. CASE SkipUnreadable(j)
    <3>1. /\ OthersKept(j) /\ raced' = raced /\ UNCHANGED thread /\ j \in InFlight
          /\ job[j].op = "pass" /\ job'[j].op = "pass"
      BY <2>19, SkipUnreadableDoes DEF InFlight, SameCall
    <3>. QED
      BY <1>3, <3>1 DEF Handles
  <2>20. CASE Stumble(j)
    <3>1. /\ OthersKept(j) /\ raced' = raced /\ UNCHANGED thread /\ j \in InFlight
          /\ job[j].op = "pass" /\ job'[j].op = "pass"
      BY <2>20, StumbleDoes DEF ghosts, InFlight, SameCall
    <3>. QED
      BY <1>3, <3>1 DEF Handles
  <2>. QED
    BY <1>5, <2>1, <2>2, <2>3, <2>4, <2>5, <2>6, <2>7, <2>8, <2>9, <2>10, <2>11, <2>12, <2>13,
       <2>14, <2>15, <2>16, <2>17, <2>18, <2>19, <2>20 DEF JobStep
<1>. QED
  BY <1>1, <1>2, <1>5, NextIs

\* Nothing is added, and nobody comes to store something that was not looked up.
LEMMA LookedUpKept ==
    ASSUME LookedUp, raced \subseteq raced', DOMAIN rows' = DOMAIN rows,
           \A r \in DOMAIN rows : rows'[r].conv = rows[r].conv /\ rows'[r].mid = rows[r].mid,
           \A k \in Job : Stores(k)' =>
              \/ Stores(k) /\ job'[k].mid = job[k].mid /\ job'[k].conv = job[k].conv
              \/ ~StoredIn(job'[k].conv, job'[k].mid),
           \A k \in Job : pc'[k] = "merge" =>
              \/ pc[k] = "merge" /\ job'[k].mid = job[k].mid
              \/ ~Stored(job'[k].mid)
    PROVE  LookedUp'
<1>1. \A c, m : StoredIn(c, m)' <=> StoredIn(c, m)
  BY DEF StoredIn
<1>2. \A m : Stored(m)' <=> Stored(m)
  BY DEF Stored
<1>3. ASSUME NEW k \in Job, Stores(k)', job'[k].mid \notin raced'
      PROVE  ~StoredIn(job[k].conv, job[k].mid)'
  <2>1. job'[k].mid \notin raced
    BY <1>3
  <2>2. ~StoredIn(job'[k].conv, job'[k].mid)
    BY <1>3, <2>1 DEF LookedUp
  <2>3. ~(\E r \in DOMAIN rows' : rows'[r].conv = job'[k].conv /\ rows'[r].mid = job'[k].mid)
    BY <2>2 DEF StoredIn
  <2>. QED
    BY <2>3 DEF StoredIn
<1>4. ASSUME NEW k \in Job, pc'[k] = "merge", job'[k].mid \notin raced'
      PROVE  ~Stored(job[k].mid)'
  <2>1. ~Stored(job'[k].mid)
    BY <1>4 DEF LookedUp
  <2>2. ~(\E r \in DOMAIN rows' : rows'[r].mid = job'[k].mid)
    BY <2>1 DEF Stored
  <2>. QED
    BY <2>2 DEF Stored
<1>. QED
  BY <1>3, <1>4 DEF LookedUp

\* One row is given a mid that a job in flight handles.
LEMMA LookedUpWritten ==
    ASSUME Base, Replies, Apart, LookedUp, NEW j \in InFlight, OthersKept(j), raced' = raced,
           ~Stores(j)', pc'[j] # "merge", NEW m, m \in Handles(j) \/ m = 0,
           \A r \in DOMAIN rows' :
              \/ r \in DOMAIN rows /\ rows'[r].mid = rows[r].mid /\ rows'[r].conv = rows[r].conv
              \/ rows'[r].mid = m
    PROVE  LookedUp'
<1>1. ASSUME NEW k \in Job, Stores(k)' \/ pc'[k] = "merge", job'[k].mid \notin raced
      PROVE  job'[k] = job[k] /\ pc'[k] = pc[k] /\ job[k].mid # m /\ (Stores(k)' => Stores(k))
  <2>1. k # j /\ Kept(k)
    BY <1>1 DEF OthersKept
  <2>2. (Stores(k)' <=> Stores(k)) /\ pc'[k] = pc[k] /\ job'[k] = job[k]
    BY <2>1 DEF Kept, Stores
  <2>3. k \in InFlight /\ job[k].mid \in Handles(k) /\ job[k].mid # 0
    BY <1>1, <2>2, StoresHandles
  <2>4. job[k].mid # m
    BY <1>1, <2>1, <2>2, <2>3 DEF Apart
  <2>. QED
    BY <1>1, <2>1, <2>2, <2>4
<1>2. ASSUME NEW k \in Job, Stores(k)', job'[k].mid \notin raced'
      PROVE  ~StoredIn(job[k].conv, job[k].mid)'
  <2>1. Stores(k) /\ job'[k] = job[k] /\ job[k].mid # m /\ job[k].mid \notin raced
    BY <1>1, <1>2
  <2>2. ~StoredIn(job[k].conv, job[k].mid)
    BY <2>1 DEF LookedUp
  <2>3. ~(\E r \in DOMAIN rows' : rows'[r].conv = job'[k].conv /\ rows'[r].mid = job'[k].mid)
    BY <2>1, <2>2 DEF StoredIn
  <2>. QED
    BY <2>3 DEF StoredIn
<1>3. ASSUME NEW k \in Job, pc'[k] = "merge", job'[k].mid \notin raced'
      PROVE  ~Stored(job[k].mid)'
  <2>1. pc[k] = "merge" /\ job'[k] = job[k] /\ job[k].mid # m /\ job[k].mid \notin raced
    BY <1>1, <1>3
  <2>2. ~Stored(job[k].mid)
    BY <2>1 DEF LookedUp
  <2>3. ~(\E r \in DOMAIN rows' : rows'[r].mid = job'[k].mid)
    BY <2>1, <2>2 DEF Stored
  <2>. QED
    BY <2>3 DEF Stored
<1>. QED
  BY <1>2, <1>3 DEF LookedUp

\* Every step keeps LookedUp: between the lookup of a message and its insert,
\* only a job that races for it could store it.
LEMMA LookedUpStep == Base /\ Base' /\ Replies /\ Apart /\ LookedUp /\ Next => LookedUp'
<1>. SUFFICES ASSUME Base, Base', Replies, Apart, LookedUp, Next PROVE LookedUp'
  OBVIOUS
<1>1. ASSUME NEW from \in {"customer", "page"}, Write(from) PROVE LookedUp'
  BY <1>1, WriteDoes, LookedUpKept DEF ghosts, Stores
<1>2. CASE PostLate
  <2>1. raced \subseteq raced'
    BY <1>2, PostLateDoes DEF Appended
  <2>. QED
    BY <1>2, <2>1, PostLateDoes, LookedUpKept DEF Stores
<1>3. ASSUME NEW j \in Job, OthersKept(j), raced \subseteq raced', UNCHANGED rows, ~Stores(j)', pc'[j] # "merge"
      PROVE  LookedUp'
  BY <1>3, LookedUpKept DEF OthersKept, Kept, Stores
<1>4. ASSUME NEW j \in Job, OthersKept(j), raced \subseteq raced', UNCHANGED rows, Stores(j),
             job'[j].mid = job[j].mid, job'[j].conv = job[j].conv, pc'[j] # "merge"
      PROVE  LookedUp'
  BY <1>4, LookedUpKept DEF OthersKept, Kept, Stores
<1>5. ASSUME NEW j \in Job, OthersKept(j), raced \subseteq raced', UNCHANGED rows,
             ~StoredIn(job'[j].conv, job'[j].mid), pc'[j] # "merge"
      PROVE  LookedUp'
  BY <1>5, LookedUpKept DEF OthersKept, Kept, Stores
<1>6. ASSUME NEW j \in Job, Ends(j) PROVE ~Stores(j)' /\ pc'[j] # "merge"
  BY <1>6 DEF Ends, Stores
<1>7. ASSUME NEW j \in Job, Fails(j) PROVE ~Stores(j)' /\ pc'[j] # "merge"
  BY <1>7 DEF Fails, Ends, Stores
<1>8. ASSUME NEW j \in Job, JobStep(j) PROVE LookedUp'
  <2>1. ASSUME NEW m, StartInbound(j, m) PROVE LookedUp'
    BY <1>3, <2>1, StartInboundDoes DEF Starts, Stores
  <2>2. ASSUME NEW m, StartEcho(j, m) PROVE LookedUp'
    BY <1>3, <2>2, StartEchoDoes DEF Starts, Stores
  <2>3. CASE StartSend(j)
    BY <1>3, <2>3, StartSendDoes DEF Starts, Stores
  <2>4. CASE StartPass(j)
    BY <1>3, <2>4, StartPassDoes DEF Starts, Stores
  <2>5. ASSUME NEW s \in {"RESOLVED", "ARCHIVED"}, StartMark(j, s) PROVE LookedUp'
    BY <1>3, <2>5, StartMarkDoes DEF Starts, Stores
  <2>6. CASE Mark(j)
    BY <1>3, <1>6, <2>6, MarkDoes DEF ghosts
  <2>7. CASE Find(j)
    <3>1. job[j].op = "pass" => job'[j].mid = 0
      BY <2>7, FindDoes DEF Base, JobFits, JobRefers, SameWork
    <3>. QED
      BY <1>3, <2>7, <3>1, FindDoes DEF ghosts, Stores, SameWork
  <2>8. CASE Create(j)
    BY <1>3, <2>8, CreateDoes DEF ghosts, Stores
  <2>9. CASE Reopen(j)
    <3>1. CASE pc'[j] = "send"
      BY <1>4, <2>9, <3>1, ReopenDoes DEF ghosts, Stores, SameCall, SameWork
    <3>2. CASE pc'[j] # "send"
      BY <1>3, <2>9, <3>2, ReopenDoes DEF ghosts, Stores
    <3>. QED
      BY <3>1, <3>2
  <2>10. CASE Dedupe(j)
    BY <1>3, <1>5, <1>6, <2>10, DedupeDoes DEF ghosts
  <2>11. CASE Send(j)
    <3>1. CASE Fails(j)
      BY <1>3, <1>7, <2>11, <3>1, SendDoes
    <3>2. CASE pc'[j] = "commit" /\ SameCall(j) /\ SameWork(j)
      <4>1. CASE job[j].op = "send"
        BY <1>3, <2>11, <3>2, <4>1, SendDoes DEF Stores, SameCall
      <4>2. CASE job[j].op # "send"
        BY <1>4, <2>11, <3>2, <4>2, SendDoes DEF Stores, SameCall, SameWork
      <4>. QED
        BY <4>1, <4>2
    <3>. QED
      BY <2>11, <3>1, <3>2, SendDoes
  <2>12. CASE Commit(j)
    <3>1. /\ pc[j] = "commit" /\ OthersKept(j) /\ raced' = raced /\ j \in InFlight
          /\ job[j].op \in {"inbound", "echo", "send", "pass"}
      BY <2>12, CommitDoes DEF ghosts, InFlight
    <3>2. CASE Fails(j) /\ UNCHANGED rows
      BY <1>3, <1>7, <3>1, <3>2
    <3>3. CASE Adds(j) /\ pc'[j] \in {"ended", "next", "dispatch"}
      <4>1. job[j].mid \in Handles(j) \/ job[j].mid = 0
        <5>1. CASE job[j].op = "send"
          BY <3>1, <5>1 DEF Replies, ReplyFits
        <5>2. CASE job[j].op # "send"
          BY <3>1, <5>2, StoresHandles DEF Stores
        <5>. QED
          BY <5>1, <5>2
      <4>2. ~Stores(j)' /\ pc'[j] # "merge"
        BY <3>3 DEF Stores
      <4>3. \A r \in DOMAIN rows' :
              \/ r \in DOMAIN rows /\ rows'[r].mid = rows[r].mid /\ rows'[r].conv = rows[r].conv
              \/ rows'[r].mid = job[j].mid
        BY <3>3 DEF Adds
      <4>. QED
        BY <3>1, <4>1, <4>2, <4>3, LookedUpWritten
    <3>. QED
      BY <2>12, <3>2, <3>3, CommitDoes DEF Ends
  <2>13. CASE Dispatch(j)
    <3>1. PICK n \in Nat :
            /\ Appended(job[j].row, n)
            /\ \/ Ends(j)
               \/ \E m \in Len(thread) + 1 .. Len(thread) + n :
                    pc'[j] = "merge" /\ job'[j].mid = m /\ job'[j].op = "send"
      BY <2>13, DispatchDoes
    <3>2. OthersKept(j) /\ UNCHANGED rows /\ raced \subseteq raced'
      BY <2>13, <3>1, DispatchDoes DEF Appended
    <3>3. CASE Ends(j)
      BY <1>3, <1>6, <3>2, <3>3
    <3>4. CASE \E m \in Len(thread) + 1 .. Len(thread) + n :
                 pc'[j] = "merge" /\ job'[j].mid = m /\ job'[j].op = "send"
      <4>1. Len(thread) \in Nat /\ \A r \in DOMAIN rows : rows[r].mid \in 0 .. Len(thread)
        BY DEF Base, Data, DataTypes, RowsRefer
      <4>2. ~Stored(job'[j].mid)
        BY <3>1, <3>4, <4>1 DEF Stored
      <4>3. ~Stores(j)'
        BY <3>4 DEF Stores
      <4>. QED
        BY <3>2, <3>4, <4>2, <4>3, LookedUpKept DEF OthersKept, Kept, Stores
    <3>. QED
      BY <3>1, <3>3, <3>4
  <2>14. CASE Merge(j)
    <3>1. /\ pc[j] = "merge" /\ OthersKept(j) /\ Ends(j) /\ raced' = raced /\ DOMAIN rows' = DOMAIN rows
          /\ \A r \in DOMAIN rows : /\ rows'[r].conv = rows[r].conv
                                    /\ rows'[r].mid = IF r = job[j].row THEN job[j].mid ELSE rows[r].mid
      BY <2>14, MergeDoes DEF Replies, ghosts
    <3>2. j \in InFlight /\ job[j].mid \in Handles(j)
      BY <3>1, StoresHandles
    <3>. QED
      BY <1>6, <3>1, <3>2, LookedUpWritten
  <2>15. CASE List(j)
    BY <1>3, <2>15, ListDoes DEF ghosts, Ends, Stores
  <2>16. CASE NextMessage(j)
    <3>1. CASE pc'[j] = "next"
      BY <1>3, <2>16, <3>1, NextMessageDoes DEF ghosts, Stores
    <3>2. CASE pc'[j] # "next"
      BY <1>5, <2>16, <3>2, NextMessageDoes DEF ghosts, SameCall
    <3>. QED
      BY <3>1, <3>2
  <2>17. CASE Advance(j)
    BY <1>3, <1>6, <2>17, AdvanceDoes DEF ghosts
  <2>18. CASE Fail(j)
    BY <1>3, <1>6, <2>18, FailDoes
  <2>19. CASE SkipUnreadable(j)
    BY <1>3, <2>19, SkipUnreadableDoes DEF Stores
  <2>20. CASE Stumble(j)
    BY <1>3, <2>20, StumbleDoes DEF Stores, ghosts
  <2>. QED
    BY <1>8, <2>1, <2>2, <2>3, <2>4, <2>5, <2>6, <2>7, <2>8, <2>9, <2>10, <2>11, <2>12, <2>13,
       <2>14, <2>15, <2>16, <2>17, <2>18, <2>19, <2>20 DEF JobStep
<1>. QED
  BY <1>1, <1>2, <1>8, NextIs

\* Only a commit and a merge write rows.
LEMMA RowsStep ==
    ASSUME Base, Base', Replies, Next
    PROVE  \/ UNCHANGED rows
           \/ \E j \in Job : Commit(j) /\ Adds(j)
           \/ \E j \in Job : Merge(j)
<1>1. ASSUME NEW from \in {"customer", "page"}, Write(from) PROVE UNCHANGED rows
  BY <1>1, WriteDoes
<1>2. CASE PostLate
  BY <1>2, PostLateDoes
<1>3. ASSUME NEW j \in Job, JobStep(j) PROVE UNCHANGED rows \/ (Commit(j) /\ Adds(j)) \/ Merge(j)
  <2>1. CASE Commit(j)
    BY <2>1, CommitDoes
  <2>2. CASE ~Commit(j) /\ ~Merge(j)
    BY <1>3, <2>2, StartInboundDoes, StartEchoDoes, StartSendDoes, StartMarkDoes, StartPassDoes,
       MarkDoes, FindDoes, CreateDoes, ReopenDoes, DedupeDoes, SendDoes, DispatchDoes,
       ListDoes, SkipUnreadableDoes, NextMessageDoes, StumbleDoes, AdvanceDoes, FailDoes DEF JobStep, Starts
  <2>. QED
    BY <2>1, <2>2
<1>. QED
  BY <1>1, <1>2, <1>3, NextIs

\* A message that is marked as raced for stays marked.
LEMMA RacedGrows == ASSUME Base, Base', Replies, Next PROVE raced \subseteq raced'
<1>1. ASSUME NEW from \in {"customer", "page"}, Write(from) PROVE raced \subseteq raced'
  BY <1>1, WriteDoes DEF ghosts
<1>2. CASE PostLate
  BY <1>2, PostLateDoes DEF Appended
<1>3. ASSUME NEW j \in Job, JobStep(j) PROVE raced \subseteq raced'
  <2>1. CASE Dispatch(j)
    BY <2>1, DispatchDoes DEF Appended
  <2>2. CASE Merge(j)
    BY <2>2 DEF Merge, ghosts
  <2>3. CASE ~Dispatch(j) /\ ~Merge(j)
    BY <1>3, <2>3, StartInboundDoes, StartEchoDoes, StartSendDoes, StartMarkDoes, StartPassDoes,
       MarkDoes, FindDoes, CreateDoes, ReopenDoes, DedupeDoes, SendDoes, CommitDoes,
       ListDoes, SkipUnreadableDoes, NextMessageDoes, StumbleDoes, AdvanceDoes, FailDoes DEF JobStep, ghosts
  <2>. QED
    BY <2>1, <2>2, <2>3
<1>. QED
  BY <1>1, <1>2, <1>3, NextIs

\* Every step keeps OncePerConv: a row is added for a mid that was looked up.
LEMMA OncePerConvStep ==
    Base /\ Base' /\ Replies /\ LookedUp /\ OncePerConv /\ Next => OncePerConv'
<1>. SUFFICES ASSUME Base, Base', Replies, LookedUp, OncePerConv, Next PROVE OncePerConv'
  OBVIOUS
<1>1. raced \subseteq raced'
  BY RacedGrows
<1>2. CASE UNCHANGED rows
  BY <1>1, <1>2 DEF OncePerConv
<1>3. ASSUME NEW j \in Job, Commit(j), Adds(j) PROVE OncePerConv'
  <2>1. pc[j] = "commit" /\ job[j].op \in {"inbound", "echo", "send", "pass"}
    BY <1>3, CommitDoes
  <2>2. job[j].mid \in raced \cup {0} \/ ~StoredIn(job[j].conv, job[j].mid)
    <3>1. CASE job[j].op = "send"
      BY <2>1, <3>1 DEF Replies, ReplyFits
    <3>2. CASE job[j].op # "send"
      BY <2>1, <3>2 DEF LookedUp, Stores
    <3>. QED
      BY <3>1, <3>2
  <2>. DEFINE new == Len(rows) + 1
  <2>3. /\ DOMAIN rows' = DOMAIN rows \cup {new} /\ \A r \in DOMAIN rows : rows'[r] = rows[r]
        /\ rows'[new].conv = job[j].conv /\ rows'[new].mid = job[j].mid
    BY <1>3 DEF Adds
  <2>. HIDE DEF new
  <2>4. ASSUME NEW r \in DOMAIN rows', NEW s \in DOMAIN rows', r # s, rows'[r].conv = rows'[s].conv,
               rows'[r].mid = rows'[s].mid
        PROVE  rows'[r].mid \in raced' \cup {0}
    <3>1. CASE r \in DOMAIN rows /\ s \in DOMAIN rows
      BY <1>1, <2>3, <2>4, <3>1 DEF OncePerConv
    <3>2. CASE r = new
      BY <1>1, <2>2, <2>3, <2>4, <3>2 DEF StoredIn
    <3>3. CASE s = new
      BY <1>1, <2>2, <2>3, <2>4, <3>3 DEF StoredIn
    <3>. QED
      BY <2>3, <3>1, <3>2, <3>3
  <2>. QED
    BY <2>4 DEF OncePerConv
<1>4. ASSUME NEW j \in Job, Merge(j) PROVE OncePerConv'
  <2>1. /\ pc[j] = "merge" /\ DOMAIN rows' = DOMAIN rows
        /\ \A r \in DOMAIN rows : /\ rows'[r].conv = rows[r].conv
                                  /\ rows'[r].mid = IF r = job[j].row THEN job[j].mid ELSE rows[r].mid
    BY <1>4, MergeDoes DEF Replies
  <2>2. job[j].mid \in raced \/ ~Stored(job[j].mid)
    BY <2>1 DEF LookedUp
  <2>3. ASSUME NEW r \in DOMAIN rows', NEW s \in DOMAIN rows', r # s, rows'[r].conv = rows'[s].conv,
               rows'[r].mid = rows'[s].mid
        PROVE  rows'[r].mid \in raced' \cup {0}
    <3>1. CASE r # job[j].row /\ s # job[j].row
      BY <1>1, <2>1, <2>3, <3>1 DEF OncePerConv
    <3>2. CASE r = job[j].row
      BY <1>1, <2>1, <2>2, <2>3, <3>2 DEF Stored
    <3>3. CASE s = job[j].row
      BY <1>1, <2>1, <2>2, <2>3, <3>3 DEF Stored
    <3>. QED
      BY <3>1, <3>2, <3>3
  <2>. QED
    BY <2>3 DEF OncePerConv
<1>. QED
  BY <1>2, <1>3, <1>4, RowsStep

\* A mid that a row has, it keeps.
LEMMA MidsKept ==
    ASSUME Base, Base', Replies, Next
    PROVE  \A r \in DOMAIN rows : r \in DOMAIN rows' /\ (rows[r].mid # 0 => rows'[r].mid = rows[r].mid)
<1>1. ASSUME NEW j \in Job, Adds(j), NEW r \in DOMAIN rows
      PROVE  r \in DOMAIN rows' /\ rows'[r].mid = rows[r].mid
  BY <1>1 DEF Adds
<1>2. ASSUME NEW j \in Job, Merge(j), NEW r \in DOMAIN rows
      PROVE  r \in DOMAIN rows' /\ (rows[r].mid # 0 => rows'[r].mid = rows[r].mid)
  BY <1>2, MergeDoes DEF Replies
<1>. QED
  BY <1>1, <1>2, RowsStep

\* A reply that was told its mid is still.
LEMMA ToldKept ==
    ASSUME Base, Base', Replies, RepliesTold, Next, NEW m \in DOMAIN thread,
           m \notin lost, thread[m].via # 0,
           \A k \in Job : pc[k] = "merge" /\ job[k].mid = m => Kept(k)
    PROVE  \/ rows'[thread[m].via].mid = m
           \/ \E k \in Job : pc'[k] = "merge" /\ job'[k].row = thread[m].via /\ job'[k].mid = m
<1>1. CASE rows[thread[m].via].mid = m
  <2>1. thread[m].via \in DOMAIN rows /\ m # 0
    BY DEF Base, Data, DataTypes, ThreadInOrder
  <2>. QED
    BY <1>1, <2>1, MidsKept
<1>2. CASE \E k \in Job : pc[k] = "merge" /\ job[k].row = thread[m].via /\ job[k].mid = m
  BY <1>2 DEF Kept
<1>. QED
  BY <1>1, <1>2 DEF RepliesTold

\* Every step keeps RepliesTold: a mid that is not merged is lost.
LEMMA RepliesToldStep == Base /\ Base' /\ Replies /\ RepliesTold /\ Next => RepliesTold'
<1>. SUFFICES ASSUME Base, Base', Replies, RepliesTold, Next PROVE RepliesTold'
  OBVIOUS
<1>. DEFINE Told(m) ==
        \/ rows'[thread'[m].via].mid = m
        \/ \E k \in Job : pc'[k] = "merge" /\ job'[k].row = thread'[m].via /\ job'[k].mid = m
<1>1. ASSUME \A m \in DOMAIN thread' : m \notin lost' /\ thread'[m].via # 0 => Told(m)
      PROVE  RepliesTold'
  BY <1>1 DEF RepliesTold
<1>2. ASSUME lost \subseteq lost', UNCHANGED thread,
             \A k \in Job : pc[k] = "merge" => Kept(k)
      PROVE  RepliesTold'
  BY <1>1, <1>2, ToldKept
<1>3. ASSUME NEW from \in {"customer", "page"}, Write(from) PROVE RepliesTold'
  <2>1. ASSUME NEW m \in DOMAIN thread', m \notin lost', thread'[m].via # 0 PROVE Told(m)
    <3>1. m \in DOMAIN thread /\ thread'[m] = thread[m] /\ m \notin lost /\ \A k \in Job : Kept(k)
      BY <1>3, <2>1, WriteDoes DEF ghosts, Kept
    <3>. QED
      BY <2>1, <3>1, ToldKept
  <2>. QED
    BY <1>1, <2>1
<1>4. CASE PostLate
  <2>1. ASSUME NEW m \in DOMAIN thread', m \notin lost', thread'[m].via # 0 PROVE Told(m)
    <3>1. m \in DOMAIN thread /\ thread'[m] = thread[m] /\ m \notin lost /\ \A k \in Job : Kept(k)
      BY <1>4, <2>1, PostLateDoes DEF Appended, Kept
    <3>. QED
      BY <2>1, <3>1, ToldKept
  <2>. QED
    BY <1>1, <2>1
<1>5. ASSUME NEW j \in Job, OthersKept(j), lost' = lost, UNCHANGED thread, pc[j] # "merge"
      PROVE  RepliesTold'
  BY <1>2, <1>5 DEF OthersKept
<1>6. ASSUME NEW j \in Job, JobStep(j) PROVE RepliesTold'
  <2>1. CASE Dispatch(j)
    <3>1. OthersKept(j) /\ pc[j] = "dispatch"
      BY <2>1, DispatchDoes
    <3>2. PICK n \in Nat :
            /\ Appended(job[j].row, n)
            /\ \/ lost' = lost \cup Len(thread) + 1 .. Len(thread) + n
               \/ \E m \in Len(thread) + 1 .. Len(thread) + n :
                    /\ pc'[j] = "merge" /\ job'[j].mid = m /\ job'[j].row = job[j].row
                    /\ lost' = lost \cup ((Len(thread) + 1 .. Len(thread) + n) \ {m})
      BY <2>1, DispatchDoes
    <3>3. ASSUME NEW m \in DOMAIN thread', m \notin lost', thread'[m].via # 0 PROVE Told(m)
      <4>1. CASE m \in DOMAIN thread
        <5>1. thread'[m] = thread[m] /\ m \notin lost /\ \A k \in Job : pc[k] = "merge" => Kept(k)
          BY <3>1, <3>2, <3>3, <4>1 DEF Appended, OthersKept
        <5>. QED
          BY <3>3, <4>1, <5>1, ToldKept
      <4>2. CASE m \notin DOMAIN thread
        <5>1. m \in Len(thread) + 1 .. Len(thread) + n /\ thread'[m].via = job[j].row
          BY <3>2, <4>2 DEF Appended
        <5>2. pc'[j] = "merge" /\ job'[j].mid = m /\ job'[j].row = job[j].row
          BY <3>2, <3>3, <5>1
        <5>. QED
          BY <5>1, <5>2
      <4>. QED
        BY <4>1, <4>2
    <3>. QED
      BY <1>1, <3>3
  <2>2. CASE Merge(j)
    <3>1. /\ OthersKept(j) /\ UNCHANGED thread /\ lost' = lost
          /\ rows'[job[j].row].mid = job[j].mid /\ job[j].mid \in DOMAIN thread
          /\ thread[job[j].mid].via = job[j].row
      BY <2>2, MergeDoes DEF Replies, ghosts
    <3>2. ASSUME NEW m \in DOMAIN thread', m \notin lost', thread'[m].via # 0 PROVE Told(m)
      <4>1. CASE m = job[j].mid
        BY <3>1, <4>1
      <4>2. CASE m # job[j].mid
        BY <3>1, <3>2, <4>2, ToldKept DEF OthersKept
      <4>. QED
        BY <4>1, <4>2
    <3>. QED
      BY <1>1, <3>2
  <2>3. CASE Fail(j)
    <3>1. /\ OthersKept(j) /\ UNCHANGED thread
          /\ lost' = IF pc[j] = "merge" THEN lost \cup {job[j].mid} ELSE lost
      BY <2>3, FailDoes
    <3>2. ASSUME NEW m \in DOMAIN thread', m \notin lost', thread'[m].via # 0 PROVE Told(m)
      <4>1. m \notin lost /\ m \in DOMAIN thread /\ (pc[j] = "merge" => m # job[j].mid)
        BY <3>1, <3>2
      <4>. QED
        BY <3>1, <3>2, <4>1, ToldKept DEF OthersKept
    <3>. QED
      BY <1>1, <3>2
  <2>4. CASE ~Dispatch(j) /\ ~Merge(j) /\ ~Fail(j)
    <3>1. OthersKept(j) /\ lost' = lost /\ UNCHANGED thread /\ pc[j] # "merge"
      BY <1>6, <2>4, StartInboundDoes, StartEchoDoes, StartSendDoes, StartMarkDoes, StartPassDoes,
         MarkDoes, FindDoes, CreateDoes, ReopenDoes, DedupeDoes, SendDoes, CommitDoes,
         ListDoes, SkipUnreadableDoes, NextMessageDoes, StumbleDoes, AdvanceDoes DEF JobStep, ghosts, Starts
    <3>. QED
      BY <1>5, <3>1
  <2>. QED
    BY <2>1, <2>2, <2>3, <2>4
<1>. QED
  BY <1>3, <1>4, <1>6, NextIs

\* The four parts of Handling together are inductive.
LEMMA HandlingStep == Base /\ Base' /\ Replies /\ Handling /\ [Next]_vars => Handling'
<1>1. ASSUME Handling, UNCHANGED vars PROVE Handling'
  BY <1>1 DEF vars, Handling, Apart, InFlight, Handles, LookedUp, Stores, StoredIn, Stored,
     RepliesTold, OncePerConv
<1>. QED
  BY <1>1, ApartStep, LookedUpStep, RepliesToldStep, OncePerConvStep DEF Handling

\* So they hold in every state.
LEMMA HandlingHolds == Spec => []Handling
<1>1. Init => Handling
  BY DEF Init, Handling, Apart, InFlight, LookedUp, Stores, RepliesTold, OncePerConv
<1>. QED
  BY <1>1, HandlingStep, BaseHolds, PTL DEF Spec

\* However often Facebook delivers, echoes and lists a message, it is stored
\* once, and a reply in the row the agent's call made for it, where no two jobs
\* raced for it, its mid was not lost and there is one conversation to look in.
THEOREM StoredOnceHolds == Spec => []StoredOnce
<1>1. Base /\ Replies /\ Handling => StoredOnce
  <2>. SUFFICES ASSUME Base, Handling, Cardinality(Live) <= 1,
                       NEW m \in DOMAIN thread \ (raced \cup lost), NEW r \in Copies(m), NEW s \in Copies(m)
                PROVE  r = s
    BY DEF StoredOnce
  <2>1. \A c, d \in Live : c = d
    <3>1. IsFiniteSet(Live)
      BY DEF Base, Data, LiveFinite
    <3>2. Cardinality(Live) \in Nat
      BY <3>1, FS_CardinalityType
    <3>3. CASE Cardinality(Live) = 0
      BY <3>1, <3>3, FS_EmptySet
    <3>4. CASE Cardinality(Live) = 1
      BY <3>1, <3>4, FS_Singleton
    <3>. QED
      BY <3>2, <3>3, <3>4
  <2>2. m # 0 /\ \A i \in DOMAIN rows : rows[i].conv \in Live /\ i # 0
    BY DEF Base, Data, DataTypes, RowsRefer
  <2>3. ASSUME NEW i \in DOMAIN rows, NEW k \in DOMAIN rows, rows[i].mid = m, rows[k].mid = m PROVE i = k
    BY <2>1, <2>2, <2>3 DEF Handling, OncePerConv
  <2>4. ASSUME NEW i \in DOMAIN rows, NEW k \in DOMAIN rows, rows[i].mid = m, thread[m].via = k PROVE i = k
    <3>1. CASE rows[k].mid = m
      BY <2>3, <2>4, <3>1
    <3>2. CASE \E j \in Job : pc[j] = "merge" /\ job[j].mid = m
      BY <2>4, <3>2 DEF Handling, LookedUp, Stored
    <3>. QED
      BY <2>2, <2>4, <3>1, <3>2 DEF Handling, RepliesTold
  <2>. QED
    BY <2>3, <2>4 DEF Copies
<1>. QED
  BY <1>1, HandlingHolds, BaseHolds, PTL

\* A pass opens a resolved conversation only for a message it then stores,
\* unless somebody else handled that message at the time.
THEOREM ResolvedStaysHolds == Spec => []ResolvedStays
<1>1. Handling => ResolvedStays
  BY DEF Handling, LookedUp, Stores, ResolvedStays
<1>. QED
  BY <1>1, HandlingHolds, PTL
----------------------------------------------------------------------------
\* Passing: the watermark.

\* Stored, after the step: m is a message of the thread before it.
StoredNext(m) == \E r \in DOMAIN rows' : rows'[r].mid = m

\* What is stored stays stored.
LEMMA StoredKept ==
    ASSUME Base, Base', Replies, Next, NEW m \in DOMAIN thread, Stored(m)
    PROVE  StoredNext(m)
<1>1. m # 0
  BY DEF Base, Data, DataTypes
<1>. QED
  BY <1>1, MidsKept DEF Stored, StoredNext

\* What is posted at a time that has been passed is marked, and marks stay.
LEMMA ThreadStep ==
    ASSUME Base, Base', Replies, Next, NEW m \in DOMAIN thread' \ mistimed'
    PROVE  \/ m \in DOMAIN thread \ mistimed /\ thread'[m].at = thread[m].at
           \/ m \notin DOMAIN thread /\ ~Passed(thread'[m].at)
<1>. DEFINE Same == m \in DOMAIN thread \ mistimed /\ thread'[m].at = thread[m].at
            Later == m \notin DOMAIN thread /\ ~Passed(thread'[m].at)
<1>1. ASSUME NEW from \in {"customer", "page"}, Write(from) PROVE Same \/ Later
  <2>1. CASE m \in DOMAIN thread
    BY <1>1, <2>1, WriteDoes
  <2>2. CASE m \notin DOMAIN thread
    BY <1>1, <2>2, WriteDoes DEF Timed
  <2>. QED
    BY <2>1, <2>2
<1>2. ASSUME NEW row, NEW n, Appended(row, n) PROVE Same \/ Later
  <2>1. CASE m \in DOMAIN thread
    BY <1>2, <2>1 DEF Appended
  <2>2. CASE m \notin DOMAIN thread
    BY <1>2, <2>2 DEF Appended, Timed
  <2>. QED
    BY <2>1, <2>2
<1>3. ASSUME UNCHANGED thread, mistimed \subseteq mistimed' PROVE Same
  BY <1>3
<1>. HIDE DEF Same, Later
<1>4. ASSUME PostLate PROVE Same \/ Later
  BY <1>2, <1>4, PostLateDoes
<1>5. ASSUME NEW j \in Job, JobStep(j) PROVE Same \/ Later
  <2>1. CASE Dispatch(j)
    BY <1>2, <2>1, DispatchDoes
  <2>2. CASE Merge(j)
    BY <1>3, <2>2 DEF Merge, ghosts
  <2>3. CASE ~Dispatch(j) /\ ~Merge(j)
    BY <1>3, <1>5, <2>3, StartInboundDoes, StartEchoDoes, StartSendDoes, StartMarkDoes, StartPassDoes,
       MarkDoes, FindDoes, CreateDoes, ReopenDoes, DedupeDoes, SendDoes, CommitDoes,
       ListDoes, SkipUnreadableDoes, NextMessageDoes, StumbleDoes, AdvanceDoes, FailDoes
       DEF JobStep, Starts, ghosts
  <2>. QED
    BY <2>1, <2>2, <2>3
<1>. QED
  BY <1>1, <1>4, <1>5, NextIs DEF Same, Later

\* What is covered stays so, when what is posted below it is marked.
LEMMA OlderStored ==
    ASSUME Base, Base', Replies, Next, NEW t \in Nat,
           UNCHANGED thread \/ \A at \in Nat \ {0} : at <= t => Passed(at),
           \A m \in DOMAIN thread \ mistimed : thread[m].at <= t => Stored(m)
    PROVE  \A m \in DOMAIN thread' \ mistimed' : thread'[m].at <= t => StoredNext(m)
<1>. SUFFICES ASSUME NEW m \in DOMAIN thread' \ mistimed', thread'[m].at <= t PROVE StoredNext(m)
  OBVIOUS
<1>1. thread'[m].at \in Nat \ {0}
  BY DEF Base, Data, ThreadInOrder
<1>2. m \in DOMAIN thread \ mistimed /\ thread'[m].at = thread[m].at
  BY <1>1, ThreadStep
<1>. QED
  BY <1>2, StoredKept

\* A conversation whose watermark is not moved stays covered.
LEMMA WatermarkStep ==
    ASSUME Base, Base', Replies, Next, Passing,
           \A c \in Live' :
              \/ c \in Live /\ conv'[c].synced = conv[c].synced
              \/ conv'[c].synced = 0
              \/ /\ UNCHANGED thread
                 /\ \A m \in DOMAIN thread \ mistimed : thread[m].at <= conv'[c].synced => Stored(m)
    PROVE  WatermarkCovers'
<1>. SUFFICES ASSUME NEW c \in Live'
              PROVE \A m \in DOMAIN thread' \ mistimed' : thread'[m].at <= conv'[c].synced => StoredNext(m)
  BY DEF WatermarkCovers, StoredNext
<1>1. conv'[c].synced \in Nat /\ \A m \in DOMAIN thread : thread[m].at \in Nat \ {0}
  BY DEF Base, Data, DataTypes, ThreadInOrder, ConvInTime
<1>2. CASE c \in Live /\ conv'[c].synced = conv[c].synced
  <2>1. \A m \in DOMAIN thread \ mistimed : thread[m].at <= conv'[c].synced => Stored(m)
    BY <1>2 DEF Passing, WatermarkCovers, Stored
  <2>2. \A at \in Nat \ {0} : at <= conv'[c].synced => Passed(at)
    BY <1>2 DEF Passed
  <2>. QED
    BY <1>1, <2>1, <2>2, OlderStored
<1>3. CASE conv'[c].synced = 0
  <2>1. \A at \in Nat \ {0} : ~(at <= conv'[c].synced)
    BY <1>3
  <2>. QED
    BY <1>1, <2>1, OlderStored
<1>4. CASE /\ UNCHANGED thread
           /\ \A m \in DOMAIN thread \ mistimed : thread[m].at <= conv'[c].synced => Stored(m)
  BY <1>1, <1>4, OlderStored
<1>. QED
  BY <1>2, <1>3, <1>4

\* The same pass, with nothing more left and nothing less stored or pending.
LEMMA CoversKept ==
    ASSUME Base, Base', Replies, Next, NEW k \in Job, job[k].op = "pass", pc[k] # "list",
           PassCovers(k), pc'[k] # "list", job'[k].began = job[k].began,
           job'[k].todo \subseteq job[k].todo,
           \/ job'[k].since = job[k].since
           \/ \A m \in DOMAIN thread \ mistimed : thread[m].at <= job'[k].since => Stored(m),
           \/ job'[k].failed
           \/ /\ ~job[k].failed
              /\ \A m \in DOMAIN thread \ mistimed' : Pending(k, m) => StoredNext(m) \/ Pending(k, m)'
    PROVE  PassCovers(k)'
<1>1. job[k].todo \subseteq DOMAIN thread
  BY JobKnown DEF Base, Data, DataTypes
<1>2. ASSUME NEW m \in DOMAIN thread' \ mistimed', m \in job'[k].todo, thread'[m].at <= job'[k].since
      PROVE  StoredNext(m)
  <2>1. m \in DOMAIN thread \ mistimed /\ thread'[m].at = thread[m].at /\ m \in job[k].todo
    BY <1>1, <1>2, ThreadStep
  <2>2. Stored(m)
    BY <1>2, <2>1 DEF PassCovers
  <2>. QED
    BY <2>1, <2>2, StoredKept
<1>3. ASSUME NEW m \in DOMAIN thread' \ mistimed', thread'[m].at <= job'[k].began, ~job'[k].failed
      PROVE  StoredNext(m) \/ Pending(k, m)'
  <2>1. Passed(thread'[m].at)
    BY <1>3 DEF Passed
  <2>2. m \in DOMAIN thread \ mistimed /\ thread'[m].at = thread[m].at
    BY <2>1, ThreadStep
  <2>3. Stored(m) \/ Pending(k, m)
    BY <1>3, <2>2 DEF PassCovers
  <2>. QED
    BY <1>3, <2>2, <2>3, StoredKept
<1>. QED
  BY <1>2, <1>3 DEF PassCovers, Stored, StoredNext

\* The step of another job leaves a pass covered.
LEMMA OthersCover ==
    ASSUME Base, Base', Replies, Next, Passing, NEW k \in Job, Kept(k)
    PROVE  PassCovers(k)'
<1>1. PassCovers(k)
  BY DEF Passing
<1>2. CASE job[k].op # "pass" \/ pc[k] = "list"
  BY <1>1, <1>2 DEF PassCovers, Kept
<1>3. CASE job[k].op = "pass" /\ pc[k] # "list"
  <2>1. \A m : Pending(k, m)' <=> Pending(k, m)
    BY DEF Pending, Kept
  <2>2. \A m \in DOMAIN thread \ mistimed' : Pending(k, m) => StoredNext(m) \/ Pending(k, m)'
    BY DEF Pending, Kept
  <2>3. job'[k].failed \/ ~job[k].failed
    BY DEF Kept
  <2>. QED
    BY <1>1, <1>3, <2>2, <2>3, CoversKept DEF Kept
<1>. QED
  BY <1>2, <1>3

\* A pass whose watermark may move has stored all that was there when it began.
LEMMA DrainedStored ==
    ASSUME Base, NEW j \in Job, PassCovers(j), pc[j] = "next", job[j].op = "pass", Drained(job[j]),
           ~job[j].failed
    PROVE  \A m \in DOMAIN thread \ mistimed : thread[m].at <= job[j].began => Stored(m)
<1>. SUFFICES ASSUME NEW m \in DOMAIN thread \ mistimed, thread[m].at <= job[j].began PROVE Stored(m)
  OBVIOUS
<1>1. Stored(m) \/ m \in job[j].todo
  BY DEF PassCovers, Pending
<1>2. CASE m \in job[j].todo
  <2>1. PICK n \in 1 .. Len(thread) : job[j].todo = 1 .. n /\ Newest(job[j].todo) = n
    BY <1>2, NewestTodo
  <2>2. thread[n].at <= job[j].since
    BY <1>2, <2>1 DEF Drained
  <2>3. /\ DOMAIN thread = 1 .. Len(thread) /\ Len(thread) \in Nat /\ job[j].since \in Nat
        /\ n \in DOMAIN thread /\ m <= n
    BY <1>2, <2>1 DEF Base, Data, DataTypes, JobTypes, JobRec
  <2>4. thread[m].at <= thread[n].at /\ thread[m].at \in Nat /\ thread[n].at \in Nat
    BY <2>3 DEF Base, Data, ThreadInOrder
  <2>5. thread[m].at <= job[j].since
    BY <2>2, <2>3, <2>4
  <2>. QED
    BY <1>2, <2>5 DEF PassCovers
<1>. QED
  BY <1>1, <1>2

\* Every step keeps Passing: a pass that drained its list without a failure has
\* stored all that was there when it began, which is what it moves the mark to.
LEMMA PassingStep == Base /\ Base' /\ Replies /\ Passing /\ Next => Passing'
<1>. SUFFICES ASSUME Base, Base', Replies, Passing, Next PROVE Passing'
  OBVIOUS
<1>1. ASSUME UNCHANGED conv PROVE WatermarkCovers'
  BY <1>1, WatermarkStep DEF Live
<1>2. ASSUME UNCHANGED conv, \A k \in Job : Kept(k) PROVE Passing'
  BY <1>1, <1>2, OthersCover DEF Passing
<1>3. ASSUME NEW from \in {"customer", "page"}, Write(from) PROVE Passing'
  BY <1>2, <1>3, WriteDoes DEF Kept
<1>4. CASE PostLate
  BY <1>2, <1>4, PostLateDoes DEF Kept
<1>5. ASSUME NEW j \in Job, OthersKept(j), WatermarkCovers', PassCovers(j)' PROVE Passing'
  BY <1>5, OthersCover DEF Passing, OthersKept
<1>6. ASSUME NEW j \in Job, OthersKept(j), UNCHANGED conv, job'[j].op # "pass" PROVE Passing'
  BY <1>1, <1>5, <1>6 DEF PassCovers
<1>7. ASSUME NEW j \in Job, Ends(j) PROVE job'[j].op # "pass"
  BY <1>7 DEF Ends, Idle
<1>8. ASSUME NEW j \in Job, HasConv(j), OthersKept(j), WatermarkCovers', Fails(j) PROVE Passing'
  <2>1. PassCovers(j)
    BY DEF Passing
  <2>2. CASE Ends(j)
    BY <1>5, <1>7, <1>8, <2>2 DEF PassCovers
  <2>3. CASE job[j].op = "pass" /\ pc'[j] = "next" /\ SameCall(j) /\ job'[j].failed
             /\ job'[j].todo \subseteq job[j].todo
    <3>1. PassCovers(j)'
      BY <1>8, <2>1, <2>3, CoversKept DEF SameCall, HasConv
    <3>. QED
      BY <1>5, <1>8, <3>1
  <2>. QED
    BY <1>8, <2>2, <2>3 DEF Fails
<1>9. ASSUME NEW j \in Job, pc[j] # "list", pc'[j] # "list", OthersKept(j), WatermarkCovers',
             SameCall(j), job'[j].failed = job[j].failed, job'[j].todo \subseteq job[j].todo,
             \A m \in DOMAIN thread \ mistimed' : Pending(j, m) => StoredNext(m) \/ Pending(j, m)'
      PROVE  Passing'
  <2>1. PassCovers(j)
    BY DEF Passing
  <2>2. CASE job[j].op = "pass"
    <3>1. job'[j].failed \/ ~job[j].failed
      BY <1>9
    <3>2. PassCovers(j)'
      BY <1>9, <2>1, <2>2, <3>1, CoversKept DEF SameCall
    <3>. QED
      BY <1>5, <1>9, <3>2
  <2>3. CASE job[j].op # "pass"
    BY <1>5, <1>9, <2>3 DEF SameCall, PassCovers
  <2>. QED
    BY <2>2, <2>3
<1>10. ASSUME NEW j \in Job, JobStep(j) PROVE Passing'
  <2>0. PassCovers(j)
    BY DEF Passing
  <2>1. ASSUME NEW m, StartInbound(j, m) PROVE Passing'
    BY <1>6, <2>1, StartInboundDoes DEF Starts
  <2>2. ASSUME NEW m, StartEcho(j, m) PROVE Passing'
    BY <1>6, <2>2, StartEchoDoes DEF Starts
  <2>3. CASE StartSend(j)
    BY <1>6, <2>3, StartSendDoes DEF Starts
  <2>4. CASE StartPass(j)
    BY <1>1, <1>5, <2>4, StartPassDoes DEF Starts, PassCovers
  <2>5. ASSUME NEW s \in {"RESOLVED", "ARCHIVED"}, StartMark(j, s) PROVE Passing'
    BY <1>6, <2>5, StartMarkDoes DEF Starts
  <2>6. CASE Mark(j)
    <3>1. /\ OthersKept(j) /\ Ends(j) /\ Live' = Live
          /\ \A c \in Conv : conv'[c].synced = conv[c].synced
      BY <2>6, MarkDoes
    <3>2. WatermarkCovers'
      BY <3>1, WatermarkStep DEF Live
    <3>. QED
      BY <1>5, <1>7, <3>1, <3>2 DEF PassCovers
  <2>7. CASE Find(j)
    <3>1. /\ pc[j] = "find" /\ OthersKept(j) /\ UNCHANGED conv /\ SameWork(j) /\ job'[j].op = job[j].op
          /\ job'[j].began = job[j].began /\ job[j].op \in {"inbound", "pass"}
      BY <2>7, FindDoes
    <3>2. CASE pc'[j] = "create" /\ SameCall(j)
      <4>1. \A m \in DOMAIN thread : Pending(j, m) => Pending(j, m)'
        BY <3>1, <3>2 DEF Pending, SameWork
      <4>. QED
        BY <1>1, <1>9, <3>1, <3>2, <4>1 DEF SameWork
    <3>3. CASE /\ pc'[j] \in {"reopen", "next", "dedupe"} /\ job'[j].conv \in Live
               /\ job'[j].since = conv[job'[j].conv].synced
      <4>1. CASE job[j].op = "pass"
        <5>1. \A m \in DOMAIN thread : Pending(j, m) => Pending(j, m)'
          BY <3>1, <3>3 DEF Pending, SameWork
        <5>2. job'[j].todo \subseteq job[j].todo
          BY <3>1 DEF SameWork
        <5>3. \A m \in DOMAIN thread \ mistimed : thread[m].at <= job'[j].since => Stored(m)
          BY <3>3 DEF Passing, WatermarkCovers, Stored
        <5>4. job'[j].failed \/ ~job[j].failed
          BY <3>1 DEF SameWork
        <5>5. PassCovers(j)'
          BY <2>0, <3>1, <3>3, <4>1, <5>1, <5>2, <5>3, <5>4, CoversKept
        <5>. QED
          BY <1>1, <1>5, <3>1, <5>5
      <4>2. CASE job[j].op # "pass"
        BY <1>6, <3>1, <4>2
      <4>. QED
        BY <4>1, <4>2
    <3>. QED
      BY <2>7, <3>2, <3>3, FindDoes
  <2>8. CASE Create(j)
    <3>1. /\ pc[j] = "create" /\ OthersKept(j) /\ SameWork(j) /\ job'[j].op = job[j].op
          /\ job'[j].began = job[j].began /\ job'[j].since = job[j].since
          /\ pc'[j] \in {"next", "dedupe"}
      BY <2>8, CreateDoes
    <3>2. WatermarkCovers'
      <4>1. PICK c \in Conv \ Live : /\ Live' = Live \cup {c} /\ conv'[c].synced = 0
                                     /\ \A d \in Conv : d # c => conv'[d] = conv[d]
        BY <2>8, CreateDoes
      <4>2. ASSUME NEW d \in Live' PROVE (d \in Live /\ conv'[d].synced = conv[d].synced) \/ conv'[d].synced = 0
        BY <4>1 DEF Live
      <4>. QED
        BY <4>2, WatermarkStep
    <3>3. CASE job[j].op = "pass"
      <4>1. \A m \in DOMAIN thread : Pending(j, m) => Pending(j, m)'
        BY <3>1 DEF Pending, SameWork
      <4>2. (job'[j].failed \/ ~job[j].failed) /\ job'[j].todo \subseteq job[j].todo
        BY <3>1 DEF SameWork
      <4>3. PassCovers(j)'
        BY <2>0, <3>1, <3>3, <4>1, <4>2, CoversKept
      <4>. QED
        BY <1>5, <3>1, <3>2, <4>3
    <3>4. CASE job[j].op # "pass"
      BY <1>5, <3>1, <3>2, <3>4 DEF PassCovers
    <3>. QED
      BY <3>3, <3>4
  <2>9. CASE Reopen(j)
    <3>1. /\ pc[j] = "reopen" /\ SameCall(j) /\ SameWork(j) /\ OthersKept(j) /\ Live' = Live
          /\ pc'[j] \in {"dedupe", "next", "send"} /\ job[j].op \in {"inbound", "pass"}
          /\ pc'[j] = "next" => job[j].mid = 0
          /\ \A c \in Conv : conv'[c].synced = conv[c].synced
      BY <2>9, ReopenDoes
    <3>2. WatermarkCovers'
      BY <3>1, WatermarkStep DEF Live
    <3>3. CASE job[j].op = "pass"
      <4>1. pc'[j] \in {"next", "send"}
        BY <3>1, <3>3 DEF Base, JobFits, StepsOf, SameCall
      <4>2. \A m \in DOMAIN thread : m # 0
        BY DEF Base, Data, DataTypes
      <4>3. \A m \in DOMAIN thread : Pending(j, m) => Pending(j, m)'
        BY <3>1, <4>1, <4>2 DEF Pending, SameWork
      <4>. QED
        BY <1>9, <3>1, <3>2, <4>3 DEF SameWork
    <3>4. CASE job[j].op # "pass"
      BY <1>5, <3>1, <3>2, <3>4 DEF PassCovers, SameCall
    <3>. QED
      BY <3>3, <3>4
  <2>10. CASE Dedupe(j)
    BY <1>6, <1>7, <2>10, DedupeDoes
  <2>11. CASE Send(j)
    <3>1. pc[j] = "send" /\ OthersKept(j) /\ UNCHANGED conv /\ HasConv(j)
      BY <2>11, SendDoes DEF HasConv
    <3>2. CASE Fails(j)
      BY <1>1, <1>8, <3>1, <3>2
    <3>3. CASE pc'[j] = "commit" /\ SameCall(j) /\ SameWork(j)
      <4>1. \A m \in DOMAIN thread : Pending(j, m) => Pending(j, m)'
        BY <3>1, <3>3 DEF Pending, SameWork
      <4>. QED
        BY <1>1, <1>9, <3>1, <3>3, <4>1 DEF SameWork
    <3>. QED
      BY <2>11, <3>2, <3>3, SendDoes
  <2>12. CASE Commit(j)
    <3>1. /\ pc[j] = "commit" /\ OthersKept(j) /\ HasConv(j) /\ Live' = Live /\ job[j].conv \in Live
      BY <2>12, CommitDoes DEF HasConv
    <3>2. CASE Fails(j) /\ UNCHANGED conv
      BY <1>1, <1>8, <3>1, <3>2
    <3>3. CASE Adds(j)
      <4>1. \A c \in Conv : conv'[c].synced = conv[c].synced
        BY <3>3 DEF Adds
      <4>2. WatermarkCovers'
        BY <3>1, <4>1, WatermarkStep DEF Live
      <4>3. CASE job[j].op = "pass" /\ pc'[j] = "next" /\ SameCall(j) /\ SameWork(j)
        <5>1. StoredNext(job[j].mid)
          BY <3>3 DEF Adds, StoredNext
        <5>2. \A m \in DOMAIN thread : Pending(j, m) => StoredNext(m) \/ Pending(j, m)'
          BY <3>1, <4>3, <5>1 DEF Pending, SameWork
        <5>3. job'[j].failed = job[j].failed /\ job'[j].todo \subseteq job[j].todo
          BY <4>3 DEF SameWork
        <5>. QED
          BY <1>9, <3>1, <4>2, <4>3, <5>2, <5>3
      <4>4. CASE job'[j].op # "pass"
        BY <1>5, <3>1, <4>2, <4>4 DEF PassCovers
      <4>5. CASE Fails(j)
        BY <1>8, <3>1, <4>2, <4>5
      <4>. QED
        BY <1>7, <2>12, <4>3, <4>4, <4>5, CommitDoes
    <3>. QED
      BY <2>12, <3>2, <3>3, CommitDoes
  <2>13. CASE Dispatch(j)
    BY <1>6, <1>7, <2>13, DispatchDoes
  <2>14. CASE Merge(j)
    BY <1>6, <1>7, <2>14, MergeDoes DEF Replies
  <2>15. CASE List(j)
    <3>1. /\ pc[j] = "list" /\ job[j].op = "pass" /\ OthersKept(j) /\ UNCHANGED <<conv, thread>>
      BY <2>15, ListDoes
    <3>2. CASE Ends(j)
      BY <1>6, <1>7, <3>1, <3>2
    <3>3. CASE pc'[j] = "find" /\ SameCall(j) /\ job'[j].todo = DOMAIN thread
      <4>1. job'[j].since = 0
        BY <2>0, <3>1, <3>3 DEF PassCovers, SameCall
      <4>2. \A m \in DOMAIN thread : ~(thread[m].at <= 0)
        BY DEF Base, Data, DataTypes, ThreadInOrder
      <4>3. \A m \in DOMAIN thread' : m \in job'[j].todo /\ ~(thread'[m].at <= job'[j].since)
        BY <3>1, <3>3, <4>1, <4>2
      <4>4. PassCovers(j)'
        BY <3>3, <4>3 DEF PassCovers, Pending
      <4>. QED
        BY <1>1, <1>5, <3>1, <4>4
    <3>. QED
      BY <2>15, <3>2, <3>3, ListDoes
  <2>16. CASE NextMessage(j)
    <3>1. /\ pc[j] = "next" /\ OthersKept(j) /\ UNCHANGED <<conv, rows>> /\ SameCall(j)
          /\ job'[j].failed = job[j].failed
      BY <2>16, NextMessageDoes
    <3>2. PICK m \in job[j].todo :
                /\ job'[j].todo = job[j].todo \ {m}
                /\ \/ StoredIn(job[j].conv, m) /\ pc'[j] = "next"
                   \/ pc'[j] \in {"reopen", "send"} /\ job'[j].mid = m
      BY <2>16, NextMessageDoes
    <3>0. job'[j].todo \subseteq job[j].todo
      BY <3>2
    <3>3. StoredIn(job[j].conv, m) => StoredNext(m)
      BY <3>1 DEF StoredIn, StoredNext
    <3>4. \A i \in DOMAIN thread : Pending(j, i) => StoredNext(i) \/ Pending(j, i)'
      BY <3>1, <3>2, <3>3 DEF Pending
    <3>. QED
      BY <1>1, <1>9, <3>0, <3>1, <3>2, <3>4
  <2>17. CASE Advance(j)
    <3>1. /\ pc[j] = "next" /\ job[j].op = "pass" /\ Ends(j) /\ OthersKept(j) /\ Drained(job[j])
          /\ Live' = Live /\ UNCHANGED thread
          /\ \A c \in Conv : \/ conv'[c].synced = conv[c].synced
                             \/ ~job[j].failed /\ conv'[c].synced = job[j].began
      BY <2>17, AdvanceDoes
    <3>3. ~job[j].failed => \A m \in DOMAIN thread \ mistimed : thread[m].at <= job[j].began => Stored(m)
      BY <2>0, <3>1, DrainedStored
    <3>4. WatermarkCovers'
      BY <3>1, <3>3, WatermarkStep DEF Live
    <3>. QED
      BY <1>5, <1>7, <3>1, <3>4 DEF PassCovers
  <2>18. CASE Fail(j)
    BY <1>6, <1>7, <2>18, FailDoes
  <2>19. CASE SkipUnreadable(j)
    <3>1. /\ pc[j] = "next" /\ pc'[j] = "next" /\ OthersKept(j) /\ UNCHANGED conv /\ SameCall(j)
          /\ job'[j].failed = job[j].failed
      BY <2>19, SkipUnreadableDoes
    <3>2. PICK m \in job[j].todo : job'[j].todo = job[j].todo \ {m} /\ mistimed' = mistimed \cup {m}
      BY <2>19, SkipUnreadableDoes
    <3>3. \A i \in DOMAIN thread \ mistimed' : Pending(j, i) => Pending(j, i)'
      BY <3>1, <3>2 DEF Pending
    <3>4. job'[j].todo \subseteq job[j].todo
      BY <3>2
    <3>. QED
      BY <1>1, <1>9, <3>1, <3>3, <3>4
  <2>20. CASE Stumble(j)
    <3>1. /\ pc[j] # "list" /\ pc'[j] # "list" /\ job[j].op = "pass" /\ OthersKept(j) /\ UNCHANGED conv
          /\ SameCall(j) /\ job'[j].failed /\ job'[j].todo \subseteq job[j].todo
      BY <2>20, StumbleDoes
    <3>2. PassCovers(j)'
      BY <2>0, <3>1, CoversKept DEF SameCall
    <3>. QED
      BY <1>1, <1>5, <3>1, <3>2
  <2>. QED
    BY <1>10, <2>1, <2>2, <2>3, <2>4, <2>5, <2>6, <2>7, <2>8, <2>9, <2>10, <2>11, <2>12, <2>13,
       <2>14, <2>15, <2>16, <2>17, <2>18, <2>19, <2>20 DEF JobStep
<1>. QED
  BY <1>3, <1>4, <1>10, NextIs

\* Nothing lastSyncedAt has passed is missing, however far Facebook's clock is from
\* the server's: no message is skipped for good because a pass failed or stopped,
\* passes ran at a time or there were two conversations.  A message whose time a
\* pass had passed when it was posted, or whose time is no date, is not covered.
THEOREM WatermarkHolds == Spec => []WatermarkCovers
<1>1. Init => Passing
  BY DEF Init, Passing, WatermarkCovers, PassCovers, Live, Idle
<1>2. Base /\ Base' /\ Replies /\ Passing /\ [Next]_vars => Passing'
  <2>1. ASSUME Passing, UNCHANGED vars PROVE Passing'
    BY <2>1 DEF vars, Passing, WatermarkCovers, PassCovers, Live, Stored, Pending
  <2>. QED
    BY <2>1, PassingStep
<1>3. Passing => WatermarkCovers
  BY DEF Passing
<1>. QED
  BY <1>1, <1>2, <1>3, BaseHolds, PTL DEF Spec

----------------------------------------------------------------------------
\* Every variable has its type, for every number of jobs, messages, rows and
\* attempts.
THEOREM TypesHold == Spec => []TypeOK
<1>1. Base => TypeOK
  <2>. SUFFICES ASSUME Base PROVE TypeOK
    OBVIOUS
  <2>. DEFINE Row == [conv : Live, mid : 0 .. Len(thread), at : Nat,
                      op : {"inbound", "echo", "send", "pass"}]
              Rec == [status : {"OPEN", "RESOLVED", "ARCHIVED"}, last : Nat, synced : 0 .. now]
  <2>1. DataTypes /\ JobTypes /\ RowsRefer /\ ConvInTime
    BY DEF Base, Data
  <2>2. \A c \in Conv : conv[c] \in Rec \cup {NoConv}
    BY <2>1 DEF DataTypes, ConvInTime, ConvRow, Live
  <2>3. conv \in [Conv -> Rec \cup {NoConv}]
    BY <2>1, <2>2 DEF DataTypes
  <2>4. ASSUME NEW r \in 1 .. Len(rows) PROVE rows[r] \in Row
    <3>1. r \in DOMAIN rows /\ rows[r] \in RowRec
      BY <2>1 DEF DataTypes
    <3>2. rows[r].conv \in Live /\ rows[r].mid \in 0 .. Len(thread)
      BY <2>1, <3>1 DEF RowsRefer
    <3>. QED
      BY <3>1, <3>2 DEF RowRec
  <2>. HIDE DEF Row, Rec
  <2>5. rows \in Seq(Row)
    BY <2>1, <2>4 DEF DataTypes
  <2>6. DOMAIN pc = Job /\ DOMAIN job = Job /\ late \subseteq DOMAIN rows /\ now \in Nat
        /\ mistimed \subseteq DOMAIN thread
    BY <2>1 DEF DataTypes, JobTypes
  <2>7. thread \in Seq([from : {"customer", "page"}, at : Nat, via : Nat])
    BY <2>1 DEF DataTypes, Posted
  <2>. QED
    BY <2>3, <2>5, <2>6, <2>7 DEF TypeOK, Row, Rec
<1>. QED
  BY <1>1, BaseHolds, PTL
============================================================================
