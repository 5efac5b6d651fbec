---------------------------- MODULE Tasks_proofs ----------------------------
(***************************************************************************)
(* For every set of tasks, users and calls, every visibility and every     *)
(* input: what a call that is not raced may rely on as it writes, and that *)
(* whoever is given a task is told, or it is known why he is not.          *)
(***************************************************************************)
EXTENDS Tasks, TLAPS

\* A call under way holds its arguments, and before its write the task it
\* read.  Of the calls that read one, only updateTask is given a status.
Held ==
    \A r \in Request :
        /\ pc[r] \in Steps => call[r] \in Call
        /\ pc[r] \in {"check", "write"} =>
              /\ call[r].op # "create" /\ call[r].seen \in Row
              /\ call[r].status # Same => call[r].op = "update"

\* Until a call is raced, what it read of its task and of the blockers is so.
Fresh ==
    \A r \in Request : pc[r] \in {"check", "write"} /\ r \notin raced =>
        /\ row[call[r].task] = call[r].seen
        /\ Visible(call[r].by, call[r].task)
        /\ pc[r] = "write" /\ Completes(call[r]) => OpenBlockers(call[r].task) = {}

Typed == TypeOK /\ Held
Inv == Typed /\ Fresh

----------------------------------------------------------------------------
LEMMA InitInv == Init => Inv
  BY DEF Init, OrderInit, Inv, Typed, TypeOK, Held, Fresh, Steps

LEMMA StatusByUpdate ==
    ASSUME NEW op \in Op \ {"create"}, NEW s, NEW a, <<op, s, a>> \in Inputs, s # Same
    PROVE  op = "update"
<1>. DEFINE i == <<op, s, a>>
<1>1. i[1] = op /\ i[2] = s /\ op # "create"
  OBVIOUS
<1>. HIDE DEF i
<1>2. \/ i \in {"update"} \X (Status \cup {Same}) \X (User \cup {Same})
      \/ i \in {"assign"} \X {Same} \X User
      \/ i \in {"complete", "delete"} \X {Same} \X {Same}
  BY <1>1, InputsAssumption DEF i
<1>. QED
  BY <1>1, <1>2

LEMMA NewRowIsRow ==
    ASSUME NEW c \in Call, NEW old \in Row
    PROVE  NewRow(c, old) \in Row
<1>1. /\ (IF c.op = "complete" THEN "COMPLETED" ELSE Given(c.status, old.status)) \in Status
      /\ Given(c.assignedTo, old.assignedTo) \in User
  BY DEF Given, Call, Row, Status
<1>2. Stamp(c, old) \in BOOLEAN
  BY DEF Stamp, Row
<1>3. (IF Given(c.assignedTo, old.assignedTo) = old.assignedTo THEN old.assigner ELSE c.by) \in User
  BY DEF Call, Row
<1>4. (c.op = "delete") \in BOOLEAN
  OBVIOUS
<1>. QED
  BY <1>1, <1>2, <1>3, <1>4 DEF NewRow, Row

\* A step of r that leaves the table alone or writes a row, and after which r
\* has answered or is past its write.
LEMMA StepTyped ==
    ASSUME Typed, NEW r \in Request, pc[r] \in Steps,
           row' \in [Task -> Row \cup {NoTask}], edges' \subseteq Edge, raced' \subseteq Request,
           audited' \subseteq Request, notified' \subseteq Task \X User, untold' \subseteq Task \X User,
           NEW step \in Steps \cup Answers, Goto(r, step),
           \/ call' = [call EXCEPT ![r].seen = NoTask] /\ step \in Answers
           \/ UNCHANGED call /\ (step = "write" => pc[r] = "check") /\ step # "check"
    PROVE  Typed'
<1>1. pc' = [pc EXCEPT ![r] = step] /\ pc \in [Request -> {"idle"} \cup Steps \cup Answers]
  BY DEF Goto, Typed, TypeOK
<1>2. CASE UNCHANGED call /\ (step = "write" => pc[r] = "check") /\ step # "check"
  BY <1>1, <1>2 DEF Typed, TypeOK, Held, Steps
<1>3. CASE call' = [call EXCEPT ![r].seen = NoTask] /\ step \in Answers
  <2>1. [call[r] EXCEPT !.seen = NoTask] \in Call
    BY DEF Typed, Held, Call
  <2>. QED
    BY <1>1, <1>3, <2>1 DEF Typed, TypeOK, Held, Steps, Answers
<1>. QED
  BY <1>2, <1>3

LEMMA NextTyped == Typed /\ [Next]_vars => Typed'
<1>. SUFFICES ASSUME Typed, [Next]_vars
              PROVE  Typed'
  OBVIOUS
<1>1. ASSUME NEW r \in Request, NEW u \in User, NEW t \in Task, NEW s \in Status, NEW a \in User,
             Create(r, u, t, s, a)
      PROVE  Typed'
  <2>. DEFINE new == [status |-> s, stamped |-> FALSE, assignedTo |-> a, assigner |-> u,
                      deleted |-> FALSE]
              c == [op |-> "create", by |-> u, task |-> t, status |-> s, assignedTo |-> a,
                    seen |-> NoTask]
  <2>1. new \in Row /\ c \in Call /\ c.op = "create"
    BY DEF Row, Call, Op
  <2>2. row' = [row EXCEPT ![t] = new] /\ call' = [call EXCEPT ![r] = c]
    BY <1>1 DEF Create
  <2>. HIDE DEF new, c
  <2>3. /\ pc' = [pc EXCEPT ![r] = "reread"] /\ raced' = raced \cup (InFlight \ {r})
        /\ UNCHANGED <<edges, audited, notified, untold>>
    BY <1>1 DEF Create, Goto, RaceOthers
  <2>4. TypeOK'
    BY <2>1, <2>2, <2>3 DEF InFlight, Typed, TypeOK, Steps
  <2>5. Held'
    BY <2>1, <2>2, <2>3 DEF Typed, TypeOK, Held, Steps
  <2>. QED
    BY <2>4, <2>5 DEF Typed
<1>2. ASSUME NEW r \in Request, NEW op \in Op \ {"create"}, NEW u \in User, NEW t \in Task,
             NEW s \in Status \cup {Same}, NEW a \in User \cup {Same}, Start(r, op, u, t, s, a)
      PROVE  Typed'
  <2>. DEFINE c == [op |-> op, by |-> u, task |-> t, status |-> s, assignedTo |-> a, seen |-> row[t]]
  <2>1. row[t] \in Row
    BY <1>2 DEF Start, Visible, Live, Typed, TypeOK
  <2>2. c \in Call /\ c.op # "create" /\ c.seen \in Row /\ (c.status # Same => c.op = "update")
    BY <1>2, <2>1, StatusByUpdate DEF Call, Start
  <2>3. call' = [call EXCEPT ![r] = c] /\ Goto(r, IF Completes(c) THEN "check" ELSE "write")
        /\ UNCHANGED <<row, edges, raced, audited, notified, untold>>
    BY <1>2 DEF Start
  <2>. HIDE DEF c
  <2>4. PICK step \in {"check", "write"} : Goto(r, step)
    BY <2>3
  <2>. QED
    BY <2>2, <2>3, <2>4 DEF Goto, Typed, TypeOK, Held, Steps
<1>3. ASSUME NEW r \in Request, Check(r)
      PROVE  Typed'
  BY <1>3, StepTyped DEF Check, Answer, Steps, Answers, Typed, TypeOK
<1>4. ASSUME NEW r \in Request, Write(r)
      PROVE  Typed'
  <2>1. CASE Writable(call[r].task)
    <3>1. call[r] \in Call /\ call[r].task \in Task /\ row[call[r].task] \in Row
      BY <1>4, <2>1 DEF Write, Writable, Live, Typed, TypeOK, Held, Steps, Call
    <3>2. row' \in [Task -> Row \cup {NoTask}]
      BY <1>4, <2>1, <3>1, NewRowIsRow DEF Write, Typed, TypeOK
    <3>3. notified' \subseteq Task \X User /\ untold' \subseteq Task \X User
      <4>1. NewAssignee(call[r])
        BY <1>4, <2>1 DEF Write
      <4>. QED
        BY <3>1, <4>1 DEF NewAssignee, Call, Typed, TypeOK
    <3>. QED
      BY <1>4, <2>1, <3>2, <3>3, StepTyped
      DEF Write, RaceOthers, InFlight, Steps, Answers, Typed, TypeOK
  <2>2. CASE ~Writable(call[r].task)
    BY <1>4, <2>2, StepTyped DEF Write, Answer, Steps, Answers, Typed, TypeOK
  <2>. QED
    BY <2>1, <2>2
<1>0. ASSUME NEW r \in Request, pc[r] \in Steps, TellsNobody(r)
      PROVE  notified' \subseteq Task \X User /\ untold' \subseteq Task \X User
  <2>1. call[r] \in Call
    BY <1>0 DEF Typed, Held
  <2>. QED
    BY <1>0, <2>1 DEF TellsNobody, Reassigns, Call, Typed, TypeOK
<1>5. ASSUME NEW r \in Request, Reread(r)
      PROVE  Typed'
  <2>1. notified' \subseteq Task \X User /\ untold' \subseteq Task \X User
    BY <1>0, <1>5 DEF Reread, Steps, Typed, TypeOK
  <2>. QED
    BY <1>5, <2>1, StepTyped DEF Reread, Answer, Steps, Answers, Typed, TypeOK
<1>6. ASSUME NEW r \in Request, Notify(r)
      PROVE  Typed'
  <2>1. call[r] \in Call
    BY <1>6 DEF Notify, Typed, Held, Steps
  <2>2. notified' \subseteq Task \X User /\ untold' \subseteq Task \X User
    BY <1>0, <1>6, <2>1 DEF Notify, Reassigns, Call, Steps, Typed, TypeOK
  <2>. QED
    BY <1>6, <2>2, StepTyped DEF Notify, Steps, Answers, Typed, TypeOK
<1>7. ASSUME NEW r \in Request, Audit(r)
      PROVE  Typed'
  BY <1>7, StepTyped DEF Audit, Answer, Steps, Answers, Typed, TypeOK
<1>8. ASSUME NEW r \in Request, Fail(r)
      PROVE  Typed'
  <2>1. notified' \subseteq Task \X User /\ untold' \subseteq Task \X User
    BY <1>0, <1>8 DEF Fail
  <2>. QED
    BY <1>8, <2>1, StepTyped DEF Fail, Answer, Steps, Answers, Typed, TypeOK
<1>9. CASE ChangeEdges
  BY <1>9 DEF ChangeEdges, AddEdge, RemoveEdge, InFlight, Typed, TypeOK, Held
<1>10. CASE UNCHANGED vars
  BY <1>10 DEF vars, Typed, TypeOK, Held
<1>. QED
  BY <1>1, <1>2, <1>3, <1>4, <1>5, <1>6, <1>7, <1>8, <1>9, <1>10 DEF Next

----------------------------------------------------------------------------
LEMMA NextFresh == Inv /\ [Next]_vars => Fresh'
<1>. SUFFICES ASSUME Inv, [Next]_vars
              PROVE  Fresh'
  OBVIOUS
<1>. USE DEF Inv, Typed
\* Whatever writes races all the others, and answers or goes past its own write.
<1>1. ASSUME NEW r \in Request, RaceOthers(r), pc'[r] \notin {"check", "write"},
             \A q \in Request \ {r} : pc'[q] = pc[q]
      PROVE  Fresh'
  BY <1>1 DEF RaceOthers, InFlight, Steps, Fresh
\* What writes nothing leaves what the others have read as it is.
<1>2. ASSUME NEW r \in Request, UNCHANGED <<row, edges, raced>>, pc'[r] \notin {"check", "write"},
             \A q \in Request \ {r} : pc'[q] = pc[q] /\ call'[q] = call[q]
      PROVE  Fresh'
  BY <1>2 DEF Fresh, Visible, OpenBlockers, Live
<1>3. ASSUME NEW r \in Request, NEW u \in User, NEW t \in Task, NEW s \in Status, NEW a \in User,
             Create(r, u, t, s, a)
      PROVE  Fresh'
  BY <1>3, <1>1 DEF Create, Goto, TypeOK
<1>4. ASSUME NEW r \in Request, NEW op \in Op \ {"create"}, NEW u \in User, NEW t \in Task,
             NEW s \in Status \cup {Same}, NEW a \in User \cup {Same}, Start(r, op, u, t, s, a)
      PROVE  Fresh'
  <2>. DEFINE c == [op |-> op, by |-> u, task |-> t, status |-> s, assignedTo |-> a, seen |-> row[t]]
  <2>1. /\ call' = [call EXCEPT ![r] = c]
        /\ pc' = [pc EXCEPT ![r] = IF Completes(c) THEN "check" ELSE "write"]
        /\ Visible(u, t) /\ UNCHANGED <<row, edges, raced>>
    BY <1>4 DEF Start, Goto
  <2>2. c.by = u /\ c.task = t /\ c.seen = row[t]
    OBVIOUS
  <2>. HIDE DEF c
  <2>3. pc'[r] = "write" => ~Completes(call'[r])
    BY <2>1 DEF TypeOK
  <2>4. \A q \in Request \ {r} : pc'[q] = pc[q] /\ call'[q] = call[q]
    BY <2>1 DEF TypeOK
  <2>5. call'[r] = c
    BY <2>1 DEF TypeOK
  <2>6. ASSUME NEW q \in Request \ {r}, pc'[q] \in {"check", "write"}, q \notin raced'
        PROVE  /\ row'[call'[q].task] = call'[q].seen
               /\ Visible(call[q].by, call[q].task)'
               /\ pc'[q] = "write" /\ Completes(call'[q]) => OpenBlockers(call[q].task)' = {}
    BY <2>1, <2>4, <2>6 DEF Fresh, Visible, OpenBlockers, Live
  <2>7. row'[call'[r].task] = call'[r].seen /\ Visible(call[r].by, call[r].task)'
    BY <2>1, <2>2, <2>5 DEF Visible, Live
  <2>. QED
    BY <2>3, <2>6, <2>7 DEF Fresh, Completes
<1>5. ASSUME NEW r \in Request, Check(r)
      PROVE  Fresh'
  <2>1. CASE OpenBlockers(call[r].task) = {}
    BY <1>5, <2>1 DEF Check, Goto, TypeOK, Fresh, Visible, OpenBlockers, Live
  <2>2. CASE OpenBlockers(call[r].task) # {}
    BY <1>5, <2>2, <1>2 DEF Check, Answer, Goto, TypeOK
  <2>. QED
    BY <2>1, <2>2
<1>6. ASSUME NEW r \in Request, Write(r)
      PROVE  Fresh'
  <2>1. CASE Writable(call[r].task)
    BY <1>6, <2>1, <1>1 DEF Write, Goto, TypeOK
  <2>2. CASE ~Writable(call[r].task)
    BY <1>6, <2>2, <1>2 DEF Write, Answer, Goto, TypeOK
  <2>. QED
    BY <2>1, <2>2
<1>7. ASSUME NEW r \in Request, Reread(r) \/ Notify(r) \/ Audit(r) \/ Fail(r)
      PROVE  Fresh'
  BY <1>7, <1>2 DEF Reread, Notify, Audit, Fail, Answer, Goto, TypeOK
<1>8. CASE ChangeEdges
  BY <1>8 DEF ChangeEdges, InFlight, Steps, Fresh
<1>9. CASE UNCHANGED vars
  BY <1>9 DEF vars, Fresh, Visible, OpenBlockers, Live
<1>. QED
  BY <1>3, <1>4, <1>5, <1>6, <1>7, <1>8, <1>9 DEF Next

THEOREM Invariance == Spec => []Inv
<1>1. Inv /\ [Next]_vars => Inv'
  BY NextTyped, NextFresh DEF Inv
<1>. QED
  BY InitInv, <1>1, PTL DEF Spec

\* Every variable keeps its type.
THEOREM TypeCorrect == Spec => []TypeOK
<1>1. Inv => TypeOK
  BY DEF Inv, Typed
<1>. QED
  BY Invariance, <1>1, PTL

----------------------------------------------------------------------------
(* The action properties *)

\* Only Create and Write change the table.
LEMMA RowWriters ==
    [Next]_vars =>
        \/ UNCHANGED row
        \/ \E r \in Request, u \in User, t \in Task, s \in Status, a \in User : Create(r, u, t, s, a)
        \/ \E r \in Request : Write(r)
<1>1. ASSUME NEW r \in Request, NEW op \in Op \ {"create"}, NEW u \in User, NEW t \in Task,
             NEW s \in Status \cup {Same}, NEW a \in User \cup {Same}, Start(r, op, u, t, s, a)
      PROVE  UNCHANGED row
  BY <1>1 DEF Start
<1>2. ASSUME NEW r \in Request, Check(r) \/ Reread(r) \/ Notify(r) \/ Audit(r) \/ Fail(r)
      PROVE  UNCHANGED row
  BY <1>2 DEF Check, Reread, Notify, Audit, Fail
<1>3. CASE ChangeEdges \/ UNCHANGED vars
  BY <1>3 DEF ChangeEdges, vars
<1>. QED
  BY <1>1, <1>2, <1>3 DEF Next

\* What a step that writes a task as call r knows, if nobody raced it.
LEMMA UnracedWrite ==
    ASSUME Inv, [Next]_vars, NEW r \in Request, NEW t \in Task, Writes(r, t), r \notin raced
    PROVE  /\ row'[t] = NewRow(call[r], row[t]) /\ row[t] = call[r].seen /\ row[t] \in Row
           /\ call[r] \in Call /\ call[r].op # "create"
           /\ Visible(call[r].by, t)
           /\ Completes(call[r]) => OpenBlockers(t) = {}
<1>. USE DEF Inv, Typed
<1>1. Write(r)
  <2>1. ASSUME NEW q \in Request, NEW u \in User, NEW v \in Task, NEW s \in Status, NEW a \in User,
               Create(q, u, v, s, a)
        PROVE  FALSE
    BY <2>1 DEF Create, Writes, Goto, TypeOK
  <2>2. ASSUME NEW q \in Request, Write(q)
        PROVE  q = r
    BY <2>2 DEF Write, Writes, Answer, Goto, TypeOK
  <2>3. row' # row
    BY DEF Writes
  <2>. QED
    BY <2>1, <2>2, <2>3, RowWriters
<1>2. row'[t] = NewRow(call[r], row[t])
  BY <1>1 DEF Write, Writes, TypeOK
<1>. QED
  BY <1>2 DEF Writes, Fresh, Held, Steps

\* Both completion paths respect the blockers, as long as nothing is written
\* between the call's first read and its write.
THEOREM CompletionGuarded == Spec => UnracedCompletionUnblocked
<1>1. Inv /\ [Next]_vars =>
        [\A r \in Request, t \in Task :
            Writes(r, t) /\ r \notin raced /\ row'[t].status = "COMPLETED"
                         /\ row[t].status # "COMPLETED"
            => OpenBlockers(t) = {}]_vars
  <2>. SUFFICES ASSUME Inv, [Next]_vars, NEW r \in Request, NEW t \in Task, Writes(r, t),
                       r \notin raced, row'[t].status = "COMPLETED", row[t].status # "COMPLETED"
                PROVE  Completes(call[r])
    BY UnracedWrite
  <2>1. row'[t] = NewRow(call[r], row[t]) /\ row[t] = call[r].seen /\ call[r] \in Call
        /\ call[r].op # "create"
    BY UnracedWrite
  <2>2. CASE call[r].op = "complete"
    BY <2>2 DEF Completes
  <2>3. CASE call[r].op # "complete"
    <3>1. Given(call[r].status, row[t].status) = "COMPLETED"
      BY <2>1, <2>3 DEF NewRow
    <3>2. call[r].status = "COMPLETED"
      BY <3>1 DEF Given
    <3>3. call[r].op = "update"
      BY <2>1, <3>2, SameAssumption DEF Writes, Inv, Typed, Held
    <3>. QED
      BY <2>1, <3>2, <3>3 DEF Completes
  <2>. QED
    BY <2>2, <2>3
<1>. QED
  BY Invariance, <1>1, PTL DEF Spec, UnracedCompletionUnblocked

\* Nobody writes a task he may not see, as long as nothing is written between
\* the call's first read and its write.
THEOREM WritesAuthorized == Spec => UnracedWriteAuthorized
<1>1. Inv /\ [Next]_vars =>
        [\A r \in Request, t \in Task :
            Writes(r, t) /\ r \notin raced
            => Live(t) /\ <<call[r].by, row[t].assignedTo>> \in Sees]_vars
  BY UnracedWrite DEF Visible
<1>. QED
  BY Invariance, <1>1, PTL DEF Spec, UnracedWriteAuthorized

\* On every path between the statuses, completedAt follows the status.
THEOREM StampsAgree == Spec => UnracedStampAgrees
<1>1. Inv /\ [Next]_vars =>
        [\A r \in Request, t \in Task :
            Writes(r, t) /\ r \notin raced /\ Agree(row[t]) => Agree(row'[t])]_vars
  <2>. SUFFICES ASSUME Inv, [Next]_vars, NEW r \in Request, NEW t \in Task, Writes(r, t),
                       r \notin raced, Agree(row[t])
                PROVE  Agree(row'[t])
    OBVIOUS
  <2>. DEFINE c == call[r]
              old == row[t]
  <2>1. row'[t] = NewRow(c, old) /\ old = c.seen /\ old \in Row /\ c \in Call /\ c.op # "create"
    BY UnracedWrite
  <2>2. (c.status # Same => c.op = "update") /\ (old.stamped <=> old.status = "COMPLETED")
    BY DEF Writes, Inv, Typed, Held, Agree
  <2>3. /\ row'[t].stamped = Stamp(c, old)
        /\ row'[t].status = IF c.op = "complete" THEN "COMPLETED" ELSE Given(c.status, old.status)
    BY <2>1 DEF NewRow
  <2>4. old.status \in Status /\ old.stamped \in BOOLEAN /\ c.status \in Status \cup {Same}
    BY <2>1 DEF Row, Call
  <2>. HIDE DEF c, old
  <2>5. Stamp(c, old) <=> row'[t].status = "COMPLETED"
    BY <2>1, <2>2, <2>3, <2>4, SameAssumption DEF Stamp, Completes, Given, Status
  <2>. QED
    BY <2>3, <2>5 DEF Agree
<1>. QED
  BY Invariance, <1>1, PTL DEF Spec, UnracedStampAgrees

\* A deleted task is never written again, raced or not.
THEOREM DeletionIsFinal == Spec => DeletedIsFinal
<1>1. Inv /\ [Next]_vars =>
        [\A t \in Task : row[t] # NoTask /\ row[t].deleted => row'[t] = row[t]]_vars
  <2>. SUFFICES ASSUME Inv, [Next]_vars, NEW t \in Task, row[t] # NoTask, row[t].deleted
                PROVE  row'[t] = row[t]
    OBVIOUS
  <2>. USE DEF Inv, Typed
  <2>1. ASSUME NEW r \in Request, NEW u \in User, NEW v \in Task, NEW s \in Status, NEW a \in User,
               Create(r, u, v, s, a)
        PROVE  row'[t] = row[t]
    BY <2>1 DEF Create, TypeOK
  <2>2. ASSUME NEW r \in Request, Write(r)
        PROVE  row'[t] = row[t]
    BY <2>2 DEF Write, Writable, Live, TypeOK
  <2>. QED
    BY <2>1, <2>2, RowWriters
<1>. QED
  BY Invariance, <1>1, PTL DEF Spec, DeletedIsFinal

----------------------------------------------------------------------------
(* The new assignee is told *)

\* The assignee of t has been told or need not be, or why he is not is known.
Told(t) ==
    \/ row[t].assignedTo = row[t].assigner
    \/ <<t, row[t].assignedTo>> \in notified \cup untold

\* The call that gave him the task has not come to telling him.
WillTell(r, t) ==
    /\ pc[r] \in {"reread", "notify"} /\ call[r].task = t
    /\ call[r].assignedTo = row[t].assignedTo /\ Reassigns(call[r])

\* Why AssigneeTold holds: a call is at work for whoever is still to be told.
Telling == \A t \in Task : Live(t) => Told(t) \/ \E r \in Request : WillTell(r, t)

LEMMA NextTelling == Inv /\ Telling /\ [Next]_vars => Telling'
<1>. SUFFICES ASSUME Inv, Telling, [Next]_vars, NEW t \in Task, Live(t)'
              PROVE  Told(t)' \/ \E r \in Request : WillTell(r, t)'
  BY DEF Telling
<1>. USE DEF Inv, Typed
\* A step that leaves the task as it is, by a call that is not going to tell, or
\* that goes on to, or has.
<1>1. ASSUME row'[t] = row[t], notified \subseteq notified', untold \subseteq untold',
             \A q \in Request : WillTell(q, t) =>
                 Told(t)' \/ (pc'[q] \in {"reread", "notify"} /\ call'[q] = call[q])
      PROVE  Told(t)' \/ \E r \in Request : WillTell(r, t)'
  <2>1. Told(t) \/ \E r \in Request : WillTell(r, t)
    BY <1>1 DEF Telling, Live
  <2>2. Told(t) => Told(t)'
    BY <1>1 DEF Told
  <2>3. ASSUME NEW q \in Request, WillTell(q, t), ~Told(t)'
        PROVE  WillTell(q, t)'
    BY <1>1, <2>3 DEF WillTell, Reassigns
  <2>. QED
    BY <2>1, <2>2, <2>3
\* A call that tells nobody has said why.
<1>2. ASSUME NEW r \in Request, TellsNobody(r), row'[t] = row[t], WillTell(r, t)
      PROVE  Told(t)'
  BY <1>2 DEF TellsNobody, WillTell, Told
<1>3. ASSUME NEW r \in Request, row'[t] = row[t], TellsNobody(r),
             \A q \in Request \ {r} : pc'[q] = pc[q] /\ call'[q] = call[q]
      PROVE  Told(t)' \/ \E q \in Request : WillTell(q, t)'
  <2>1. notified \subseteq notified' /\ untold \subseteq untold'
    BY <1>3 DEF TellsNobody
  <2>2. \A q \in Request : WillTell(q, t) =>
            Told(t)' \/ (pc'[q] \in {"reread", "notify"} /\ call'[q] = call[q])
    BY <1>2, <1>3 DEF WillTell
  <2>. QED
    BY <1>1, <1>3, <2>1, <2>2
<1>4. ASSUME NEW r \in Request, pc[r] \notin {"reread", "notify"}, row'[t] = row[t],
             UNCHANGED <<notified, untold>>,
             \A q \in Request \ {r} : pc'[q] = pc[q] /\ call'[q] = call[q]
      PROVE  Told(t)' \/ \E q \in Request : WillTell(q, t)'
  <2>1. \A q \in Request : WillTell(q, t) => pc'[q] \in {"reread", "notify"} /\ call'[q] = call[q]
    BY <1>4 DEF WillTell
  <2>. QED
    BY <1>1, <1>4, <2>1
<1>5. ASSUME NEW r \in Request, NEW u \in User, NEW v \in Task, NEW s \in Status, NEW a \in User,
             Create(r, u, v, s, a)
      PROVE  Told(t)' \/ \E q \in Request : WillTell(q, t)'
  <2>. DEFINE new == [status |-> s, stamped |-> FALSE, assignedTo |-> a, assigner |-> u,
                      deleted |-> FALSE]
              c == [op |-> "create", by |-> u, task |-> v, status |-> s, assignedTo |-> a,
                    seen |-> NoTask]
  <2>1. row' = [row EXCEPT ![v] = new] /\ call' = [call EXCEPT ![r] = c]
        /\ UNCHANGED <<notified, untold>>
    BY <1>5 DEF Create
  <2>2. pc'[r] = "reread" /\ pc[r] = "idle" /\ \A q \in Request \ {r} : pc'[q] = pc[q]
    BY <1>5 DEF Create, Goto, TypeOK
  <2>3. new.assignedTo = a /\ new.assigner = u /\ c.by = u /\ c.task = v /\ c.assignedTo = a
        /\ c.op = "create"
    OBVIOUS
  <2>. HIDE DEF new, c
  <2>4. CASE t # v
    BY <1>4, <2>1, <2>2, <2>4 DEF TypeOK
  <2>5. CASE t = v /\ a = u
    BY <2>1, <2>3, <2>5 DEF Told, TypeOK
  <2>6. CASE t = v /\ a # u
    <3>1. row'[t] = new /\ call'[r] = c
      BY <2>1, <2>6 DEF TypeOK
    <3>2. Reassigns(c)
      BY <2>3, <2>6, SameAssumption DEF Reassigns
    <3>. QED
      BY <2>2, <2>3, <2>6, <3>1, <3>2 DEF WillTell, Reassigns
  <2>. QED
    BY <2>4, <2>5, <2>6
<1>6. ASSUME NEW r \in Request, Write(r), Writable(call[r].task)
      PROVE  Told(t)' \/ \E q \in Request : WillTell(q, t)'
  <2>. DEFINE c == call[r]
              old == row[c.task]
              new == NewRow(c, old)
  <2>1. /\ pc[r] = "write" /\ row' = [row EXCEPT ![c.task] = new] /\ NewAssignee(c)
        /\ UNCHANGED call /\ Goto(r, IF c.op = "delete" THEN "audit" ELSE "reread")
    BY <1>6 DEF Write
  <2>2. c \in Call /\ c.task \in Task /\ Live(c.task) /\ c.op # "create"
    BY <1>6, <2>1 DEF Writable, Held, Steps, Call
  <2>3. \A q \in Request : WillTell(q, t) => pc'[q] \in {"reread", "notify"} /\ call'[q] = call[q]
    BY <2>1 DEF WillTell, Goto, TypeOK
  <2>4. /\ new.assignedTo = Given(c.assignedTo, old.assignedTo)
        /\ new.assigner = IF new.assignedTo = old.assignedTo THEN old.assigner ELSE c.by
        /\ c.op = "delete" => new.deleted
    BY DEF NewRow
  <2>5. row'[c.task] = new /\ \A v \in Task : v # c.task => row'[v] = row[v]
    BY <2>1, <2>2 DEF TypeOK
  <2>. HIDE DEF new
  <2>6. CASE t # c.task
    <3>1. Told(t) => Told(t)'
      BY <2>1, <2>5, <2>6 DEF NewAssignee, Told
    <3>2. Told(t) \/ \E q \in Request : WillTell(q, t)
      BY <2>5, <2>6 DEF Telling, Live
    <3>3. \A q \in Request : WillTell(q, t) => WillTell(q, t)'
      BY <2>3, <2>5, <2>6 DEF WillTell, Reassigns
    <3>. QED
      BY <3>1, <3>2, <3>3
  <2>7. CASE t = c.task /\ new.assignedTo = old.assignedTo
    <3>1. UNCHANGED <<notified, untold>>
      BY <2>1, <2>4, <2>7 DEF NewAssignee, Given
    <3>2. row'[t].assignedTo = row[t].assignedTo /\ row'[t].assigner = row[t].assigner
      BY <2>4, <2>5, <2>7
    <3>3. Told(t) => Told(t)'
      BY <3>1, <3>2 DEF Told
    <3>4. \A q \in Request : WillTell(q, t) => WillTell(q, t)'
      BY <2>3, <3>2 DEF WillTell, Reassigns
    <3>5. Told(t) \/ \E q \in Request : WillTell(q, t)
      BY <2>2, <2>7 DEF Telling
    <3>. QED
      BY <3>3, <3>4, <3>5
  <2>8. CASE t = c.task /\ new.assignedTo # old.assignedTo
    <3>1. c.assignedTo # Same /\ c.assignedTo # old.assignedTo
          /\ new.assignedTo = c.assignedTo /\ new.assigner = c.by
      BY <2>4, <2>8 DEF Given
    <3>2. row'[t] = new /\ c.op # "delete"
      BY <2>4, <2>5, <2>8 DEF Live
    <3>3. CASE c.assignedTo = c.by
      BY <3>1, <3>2, <3>3 DEF Told
    <3>4. CASE c.assignedTo = c.seen.assignedTo
      <4>1. <<t, c.assignedTo>> \in untold'
        BY <2>1, <2>8, <3>1, <3>4 DEF NewAssignee
      <4>. QED
        BY <3>1, <3>2, <4>1 DEF Told
    <3>5. CASE c.assignedTo # c.by /\ c.assignedTo # c.seen.assignedTo
      <4>1. Reassigns(c) /\ pc'[r] = "reread" /\ call'[r] = c
        BY <2>1, <2>2, <3>1, <3>2, <3>5 DEF Reassigns, Goto, TypeOK
      <4>. QED
        BY <2>8, <3>1, <3>2, <4>1 DEF WillTell, Reassigns
    <3>. QED
      BY <3>3, <3>4, <3>5
  <2>. QED
    BY <2>6, <2>7, <2>8
<1>7. ASSUME NEW r \in Request, Reread(r)
      PROVE  Told(t)' \/ \E q \in Request : WillTell(q, t)'
  <2>1. UNCHANGED row /\ \A q \in Request \ {r} : pc'[q] = pc[q] /\ call'[q] = call[q]
    BY <1>7 DEF Reread, Answer, Goto, TypeOK
  <2>2. CASE Visible(call[r].by, call[r].task)
    <3>1. pc'[r] = "notify" /\ call'[r] = call[r] /\ UNCHANGED <<notified, untold>>
      BY <1>7, <2>2 DEF Reread, Goto, TypeOK
    <3>2. \A q \in Request : WillTell(q, t) => pc'[q] \in {"reread", "notify"} /\ call'[q] = call[q]
      BY <2>1, <3>1 DEF WillTell
    <3>. QED
      BY <1>1, <2>1, <3>1, <3>2
  <2>3. CASE ~Visible(call[r].by, call[r].task)
    BY <1>3, <1>7, <2>1, <2>3 DEF Reread
  <2>. QED
    BY <2>2, <2>3
<1>8. ASSUME NEW r \in Request, Notify(r)
      PROVE  Told(t)' \/ \E q \in Request : WillTell(q, t)'
  <2>1. UNCHANGED <<row, call>> /\ \A q \in Request \ {r} : pc'[q] = pc[q] /\ call'[q] = call[q]
    BY <1>8 DEF Notify, Goto, TypeOK
  <2>2. CASE TellsNobody(r)
    BY <1>3, <2>1, <2>2
  <2>3. CASE notified' = notified \cup {<<call[r].task, call[r].assignedTo>>} /\ UNCHANGED untold
    <3>1. WillTell(r, t) => Told(t)'
      BY <2>1, <2>3 DEF WillTell, Told
    <3>2. \A q \in Request : WillTell(q, t) =>
              Told(t)' \/ (pc'[q] \in {"reread", "notify"} /\ call'[q] = call[q])
      BY <2>1, <3>1 DEF WillTell
    <3>. QED
      BY <1>1, <2>1, <2>3, <3>2
  <2>. QED
    BY <1>8, <2>2, <2>3 DEF Notify
<1>9. ASSUME NEW r \in Request, NEW op \in Op \ {"create"}, NEW u \in User, NEW v \in Task,
             NEW s \in Status \cup {Same}, NEW a \in User \cup {Same}, Start(r, op, u, v, s, a)
      PROVE  Told(t)' \/ \E q \in Request : WillTell(q, t)'
  <2>1. /\ pc[r] = "idle" /\ UNCHANGED <<row, notified, untold>>
        /\ \E c : call' = [call EXCEPT ![r] = c]
        /\ \E step : Goto(r, step)
    BY <1>9 DEF Start
  <2>. QED
    BY <1>4, <2>1 DEF Goto, TypeOK
<1>10. ASSUME NEW r \in Request, Check(r) \/ (Write(r) /\ ~Writable(call[r].task)) \/ Audit(r)
      PROVE  Told(t)' \/ \E q \in Request : WillTell(q, t)'
  BY <1>4, <1>10 DEF Check, Write, Audit, Answer, Goto, TypeOK
<1>11. ASSUME NEW r \in Request, Fail(r)
      PROVE  Told(t)' \/ \E q \in Request : WillTell(q, t)'
  BY <1>3, <1>11 DEF Fail, Answer, Goto, TypeOK
<1>12. CASE ChangeEdges \/ UNCHANGED vars
  <2>1. UNCHANGED <<row, pc, call, notified, untold>>
    BY <1>12 DEF ChangeEdges, vars
  <2>. QED
    BY <1>1, <2>1 DEF WillTell
<1>. QED
  BY <1>5, <1>6, <1>7, <1>8, <1>9, <1>10, <1>11, <1>12 DEF Next

\* Whoever was given a task has been notified of it once no call for it is under
\* way, whatever raced, unless the insert or the call failed, the caller had lost
\* sight of the task, or the call had read him as the assignee.
THEOREM AssigneesAreTold == Spec => []AssigneeTold
<1>1. Init => Telling
  BY DEF Init, Telling, Live
<1>2. Telling => AssigneeTold
  BY DEF Telling, AssigneeTold, Told, WillTell, InFlight, Steps
<1>. QED
  BY Invariance, NextTelling, <1>1, <1>2, PTL DEF Spec
=============================================================================
