------------------------- MODULE TimeEntries_proofs -------------------------
(***************************************************************************)
(* For every set of users and of calls: a user never has two running       *)
(* timers, only stopTimer and deleteTimeEntry end one, and a write that    *)
(* nobody raced keeps the columns of an entry in agreement.                *)
(***************************************************************************)
EXTENDS TimeEntries, TLAPS

\* A call under way holds its arguments and, before it writes, the row it read.
Held ==
    \A r \in Request :
        /\ pc[r] \in Steps => call[r] \in Call
        /\ pc[r] = "write" => call[r].op \in {"stop", "update", "delete"} /\ call[r].seen \in Row

\* The entry of a call that has not inserted is not there yet; the one that a
\* call is about to write is, and is no running one if its times are edited.
Fresh ==
    \A r \in Request :
        /\ pc[r] \in {"idle", "open", "insert"} => entry[r] = NoEntry
        /\ pc[r] = "write" =>
              /\ entry[call[r].id] # NoEntry
              /\ call[r].op = "update" /\ ~(call[r].duration = Same /\ call[r].startTime = Same)
                    => ~IsRunning(call[r].id)

\* What makes the look-up of startTimer hold at its insert: a transaction that
\* can still commit found no timer of its user, and there is none now.
Guarded ==
    \A r \in Request : pc[r] = "insert" /\ r \notin doomed => ~HasTimer(call[r].user)

Typed == TypeOK /\ Held
Inv == Typed /\ Fresh /\ Guarded /\ OneRunningTimer

----------------------------------------------------------------------------
LEMMA InputsAreIntegers == Duration \subseteq Int /\ Moment \subseteq Int
  BY DurationAssumption

LEMMA InitInv == Init => Inv
  BY NullAssumption DEF Init, Inv, Typed, TypeOK, Held, Fresh, Guarded, OneRunningTimer,
     IsRunning, Live, Steps

\* What a write makes of a row: a row, running only if it ran.
LEMMA NewRowIsRow ==
    ASSUME NEW c \in Call, c.seen \in Row, c.op \in {"stop", "update", "delete"}, NEW old \in Row
    PROVE  /\ NewRow(c, old) \in Row
           /\ NewRow(c, old).user = old.user
           /\ NewRow(c, old).endTime = Running => old.endTime = Running
           /\ old.deleted => NewRow(c, old).deleted
<1>1. CASE c.op = "stop"
  <2>. DEFINE length == IF c.at < c.seen.startTime THEN 0 ELSE c.at - c.seen.startTime
  <2>1. c.at \in Int /\ length \in Int
    BY DEF Call, Row
  <2>2. NewRow(c, old) = [old EXCEPT !.endTime = c.at, !.duration = length]
    BY <1>1 DEF NewRow
  <2>3. c.at # Running
    BY <2>1, NullAssumption
  <2>4. NewRow(c, old) = [user |-> old.user, startTime |-> old.startTime, endTime |-> c.at,
                          duration |-> length, deleted |-> old.deleted]
    BY <2>2 DEF Row
  <2>. HIDE DEF length
  <2>. QED
    BY <2>1, <2>3, <2>4 DEF Row
<1>2. CASE c.op = "delete"
  BY <1>2 DEF NewRow, Row, Call
<1>3. CASE c.op = "update"
  <2>1. /\ Given(c.startTime, c.seen.startTime) \in Int /\ Given(c.duration, c.seen.duration) \in Int
        /\ Given(c.startTime, old.startTime) \in Int /\ Given(c.duration, old.duration) \in Int
    BY DEF Given, Call, Row
  <2>2. NewEnd(c, old) \in Int \cup {Running} /\ (NewEnd(c, old) = Running => old.endTime = Running)
    BY <2>1, NullAssumption DEF NewEnd, Row
  <2>3. NewRow(c, old) = [old EXCEPT !.startTime = Given(c.startTime, @),
                                     !.duration = Given(c.duration, @),
                                     !.endTime = NewEnd(c, old)]
    BY <1>3 DEF NewRow
  <2>. QED
    BY <2>1, <2>2, <2>3 DEF Row
<1>. QED
  BY <1>1, <1>2, <1>3

\* A write makes no entry and starts no timer.
LEMMA WriteKeepsStopped ==
    ASSUME Typed, NEW r \in Request, Write(r), NEW e \in Request
    PROVE  /\ entry'[e] = NoEntry <=> entry[e] = NoEntry
           /\ IsRunning(e)' => IsRunning(e) /\ entry'[e].user = entry[e].user
<1>1. CASE Writable(call[r])
  <2>1. entry[call[r].id] \in Row /\ call[r] \in Call /\ call[r].id \in Request
    BY <1>1 DEF Write, Writable, Live, Typed, TypeOK, Held, Steps, Call
  <2>. DEFINE new == NewRow(call[r], entry[call[r].id])
  <2>2. /\ new \in Row
        /\ new.user = entry[call[r].id].user
        /\ new.endTime = Running => entry[call[r].id].endTime = Running
        /\ entry[call[r].id].deleted => new.deleted
    BY <2>1, NewRowIsRow DEF Write, Typed, Held
  <2>3. entry' = [entry EXCEPT ![call[r].id] = new]
    BY <1>1 DEF Write
  <2>. HIDE DEF new
  <2>. QED
    BY <1>1, <2>1, <2>2, <2>3, NoEntryAssumption DEF Writable, IsRunning, Live, Typed, TypeOK
<1>2. CASE ~Writable(call[r])
  BY <1>2 DEF Write, IsRunning, Live
<1>. QED
  BY <1>1, <1>2

LEMMA NextTyped == Typed /\ [Next]_vars => Typed'
<1>. SUFFICES ASSUME Typed, [Next]_vars
              PROVE  Typed'
  OBVIOUS
<1>1. ASSUME NEW r \in Request, NEW u \in User, StartTimer(r, u)
      PROVE  Typed'
  BY <1>1 DEF StartTimer, Goto, Typed, TypeOK, Held, Steps, Call, Op
<1>2. ASSUME NEW r \in Request, NEW u \in User, NEW d \in Duration, NEW s \in Moment \cup {Same},
             CreateTimeEntry(r, u, d, s)
      PROVE  Typed'
  <2>. DEFINE start == IF s = Same THEN now - d ELSE s
  <2>1. start \in Int /\ start + d \in Int /\ d \in Int
    BY InputsAreIntegers DEF Typed, TypeOK
  <2>2. [user |-> u, startTime |-> start, endTime |-> start + d, duration |-> d,
         deleted |-> FALSE] \in Row
    BY <2>1 DEF Row
  <2>. QED
    BY <1>2, <2>2 DEF CreateTimeEntry, Goto, Typed, TypeOK, Held, Steps, Answers
<1>3. ASSUME NEW r \in Request, NEW u \in User, NEW op \in {"stop", "update", "delete"},
             NEW e \in Request, NEW d \in Duration \cup {Same}, NEW s \in Moment \cup {Same},
             Read(r, op, u, e, d, s)
      PROVE  Typed'
  <2>1. entry[e] \in Row
    BY <1>3 DEF Read, Readable, Editable, IsRunning, Live, Typed, TypeOK
  <2>2. d \in Int \cup {Same} /\ s \in Int \cup {Same}
    BY InputsAreIntegers
  <2>3. [op |-> op, user |-> u, id |-> e, startTime |-> s, duration |-> d, at |-> now,
         seen |-> entry[e]] \in Call
    BY <2>1, <2>2 DEF Call, Op, Typed, TypeOK
  <2>. QED
    BY <1>3, <2>1, <2>3 DEF Read, Goto, Typed, TypeOK, Held, Steps
<1>4. ASSUME NEW r \in Request, FindRunning(r)
      PROVE  Typed'
  BY <1>4 DEF FindRunning, Goto, Answer, Typed, TypeOK, Held, Steps, Answers
<1>5. ASSUME NEW r \in Request, InsertTimer(r)
      PROVE  Typed'
  <2>1. [user |-> call[r].user, startTime |-> call[r].at, endTime |-> Running,
         duration |-> 0, deleted |-> FALSE] \in Row
    BY <1>5 DEF InsertTimer, Typed, Held, Steps, Call, Row
  <2>. QED
    BY <1>5, <2>1 DEF InsertTimer, Goto, Answer, Typed, TypeOK, Held, Steps, Answers
<1>6. ASSUME NEW r \in Request, AbortTimer(r)
      PROVE  Typed'
  BY <1>6 DEF AbortTimer, Goto, Answer, Typed, TypeOK, Held, Steps, Answers
<1>7. ASSUME NEW r \in Request, Write(r)
      PROVE  Typed'
  <2>1. CASE Writable(call[r])
    <3>1. entry[call[r].id] \in Row /\ call[r] \in Call /\ call[r].id \in Request
      BY <1>7, <2>1 DEF Write, Writable, Live, Typed, TypeOK, Held, Steps, Call
    <3>2. NewRow(call[r], entry[call[r].id]) \in Row
      BY <1>7, <3>1, NewRowIsRow DEF Write, Typed, Held
    <3>. QED
      BY <1>7, <2>1, <3>2 DEF Write, Goto, Answer, Typed, TypeOK, Held, Steps, Answers
  <2>2. CASE ~Writable(call[r])
    BY <1>7, <2>2 DEF Write, Goto, Answer, Typed, TypeOK, Held, Steps, Answers
  <2>. QED
    BY <2>1, <2>2
<1>8. ASSUME NEW r \in Request, Fail(r)
      PROVE  Typed'
  BY <1>8 DEF Fail, Goto, Answer, Typed, TypeOK, Held, Steps, Answers
<1>9. CASE Tick
  BY <1>9 DEF Tick, Typed, TypeOK, Held
<1>10. CASE UNCHANGED vars
  BY <1>10 DEF vars, Typed, TypeOK, Held
<1>. QED
  BY <1>1, <1>2, <1>3, <1>4, <1>5, <1>6, <1>7, <1>8, <1>9, <1>10 DEF Next

----------------------------------------------------------------------------
LEMMA NextFresh == Inv /\ [Next]_vars => Fresh'
<1>. SUFFICES ASSUME Inv, [Next]_vars
              PROVE  Fresh'
  OBVIOUS
<1>. USE DEF Inv, Typed
<1>1. ASSUME NEW r \in Request, NEW u \in User, StartTimer(r, u)
      PROVE  Fresh'
  BY <1>1 DEF StartTimer, Goto, TypeOK, Fresh, IsRunning, Live
<1>2. ASSUME NEW r \in Request, NEW u \in User, NEW d \in Duration, NEW s \in Moment \cup {Same},
             CreateTimeEntry(r, u, d, s)
      PROVE  Fresh'
  <2>. DEFINE start == IF s = Same THEN now - d ELSE s
              new == [user |-> u, startTime |-> start, endTime |-> start + d,
                      duration |-> d, deleted |-> FALSE]
  <2>1. entry[r] = NoEntry
    BY <1>2 DEF CreateTimeEntry, Fresh
  <2>2. \A q \in Request : pc[q] = "write" => call[q].id # r /\ entry'[call[q].id] = entry[call[q].id]
    BY <1>2, <2>1 DEF CreateTimeEntry, Fresh, Held, Steps, Call, TypeOK
  <2>. QED
    BY <1>2, <2>2 DEF CreateTimeEntry, Goto, TypeOK, Fresh, IsRunning, Live
<1>3. ASSUME NEW r \in Request, NEW u \in User, NEW op \in {"stop", "update", "delete"},
             NEW e \in Request, NEW d \in Duration \cup {Same}, NEW s \in Moment \cup {Same},
             Read(r, op, u, e, d, s)
      PROVE  Fresh'
  <2>1. Live(e) /\ (op = "update" /\ ~(d = Same /\ s = Same) => ~IsRunning(e))
    BY <1>3 DEF Read, Readable, Editable, IsRunning
  <2>. QED
    BY <1>3, <2>1 DEF Read, Goto, TypeOK, Fresh, IsRunning, Live
<1>4. ASSUME NEW r \in Request, FindRunning(r)
      PROVE  Fresh'
  BY <1>4 DEF FindRunning, Goto, Answer, TypeOK, Fresh, IsRunning, Live
<1>5. ASSUME NEW r \in Request, InsertTimer(r)
      PROVE  Fresh'
  <2>1. entry[r] = NoEntry
    BY <1>5 DEF InsertTimer, Fresh
  <2>2. \A q \in Request : pc[q] = "write" => call[q].id # r /\ entry'[call[q].id] = entry[call[q].id]
    BY <1>5, <2>1 DEF InsertTimer, Fresh, Held, Steps, Call, TypeOK
  <2>. QED
    BY <1>5, <2>2 DEF InsertTimer, Goto, Answer, TypeOK, Fresh, IsRunning, Live
<1>6. ASSUME NEW r \in Request, AbortTimer(r)
      PROVE  Fresh'
  BY <1>6 DEF AbortTimer, Goto, Answer, TypeOK, Fresh, IsRunning, Live
<1>7. ASSUME NEW r \in Request, Write(r)
      PROVE  Fresh'
  BY <1>7, WriteKeepsStopped DEF Write, Goto, Answer, TypeOK, Held, Steps, Call, Fresh
<1>8. ASSUME NEW r \in Request, Fail(r)
      PROVE  Fresh'
  BY <1>8 DEF Fail, Goto, Answer, TypeOK, Fresh, IsRunning, Live, Steps
<1>9. CASE Tick
  BY <1>9 DEF Tick, Fresh, IsRunning, Live
<1>10. CASE UNCHANGED vars
  BY <1>10 DEF vars, Fresh, IsRunning, Live
<1>. QED
  BY <1>1, <1>2, <1>3, <1>4, <1>5, <1>6, <1>7, <1>8, <1>9, <1>10 DEF Next

----------------------------------------------------------------------------
\* Among the steps, only InsertTimer starts a timer.
LEMMA NextGuarded == Inv /\ [Next]_vars => Guarded' /\ OneRunningTimer'
<1>. SUFFICES ASSUME Inv, [Next]_vars
              PROVE  Guarded' /\ OneRunningTimer'
  OBVIOUS
<1>. USE DEF Inv, Typed
<1>1. ASSUME \A e \in Request : IsRunning(e)' => IsRunning(e) /\ entry'[e].user = entry[e].user,
             doomed' = doomed,
             \A r \in Request : pc'[r] = "insert" =>
                 \/ pc[r] = "insert" /\ call'[r] = call[r]
                 \/ call'[r] = call[r] /\ ~HasTimer(call[r].user)
      PROVE  Guarded' /\ OneRunningTimer'
  <2>1. \A u \in User : HasTimer(u)' => HasTimer(u)
    BY <1>1 DEF HasTimer
  <2>2. \A r \in Request : pc'[r] = "insert" => call[r].user \in User
    BY <1>1, NextTyped DEF TypeOK, Held, Steps, Call
  <2>. QED
    BY <1>1, <2>1, <2>2 DEF Guarded, OneRunningTimer
<1>2. ASSUME NEW r \in Request, NEW u \in User, StartTimer(r, u)
      PROVE  Guarded' /\ OneRunningTimer'
  BY <1>2, <1>1 DEF StartTimer, Goto, TypeOK, IsRunning, Live
<1>3. ASSUME NEW r \in Request, NEW u \in User, NEW d \in Duration, NEW s \in Moment \cup {Same},
             CreateTimeEntry(r, u, d, s)
      PROVE  Guarded' /\ OneRunningTimer'
  <2>. DEFINE start == IF s = Same THEN now - d ELSE s
  <2>1. start + d \in Int
    <3>1. now \in Int /\ d \in Int /\ (s # Same => s \in Int)
      BY InputsAreIntegers DEF TypeOK
    <3>2. CASE s = Same
      BY <3>1, <3>2
    <3>3. CASE s # Same
      BY <3>1, <3>3
    <3>. QED
      BY <3>2, <3>3
  <2>2. start + d # Running
    BY <2>1, NullAssumption
  <2>. HIDE DEF start
  <2>3. entry' = [entry EXCEPT ![r] = [user |-> u, startTime |-> start, endTime |-> start + d,
                                       duration |-> d, deleted |-> FALSE]]
    BY <1>3 DEF CreateTimeEntry, start
  <2>4. \A e \in Request : IsRunning(e)' => e # r /\ entry'[e] = entry[e]
    BY <2>2, <2>3 DEF TypeOK, IsRunning, Live
  <2>. QED
    BY <1>3, <1>1, <2>4 DEF CreateTimeEntry, Goto, TypeOK, IsRunning, Live
<1>4. ASSUME NEW r \in Request, NEW u \in User, NEW op \in {"stop", "update", "delete"},
             NEW e \in Request, NEW d \in Duration \cup {Same}, NEW s \in Moment \cup {Same},
             Read(r, op, u, e, d, s)
      PROVE  Guarded' /\ OneRunningTimer'
  BY <1>4, <1>1 DEF Read, Goto, TypeOK, IsRunning, Live
<1>5. ASSUME NEW r \in Request, FindRunning(r)
      PROVE  Guarded' /\ OneRunningTimer'
  BY <1>5, <1>1 DEF FindRunning, Goto, Answer, TypeOK, IsRunning, Live
<1>6. ASSUME NEW r \in Request, InsertTimer(r)
      PROVE  Guarded' /\ OneRunningTimer'
  <2>1. ~HasTimer(call[r].user) /\ call[r] \in Call
    BY <1>6 DEF InsertTimer, Serializable, Guarded, Held, Steps
  <2>2. entry' = [entry EXCEPT ![r] = [user |-> call[r].user, startTime |-> call[r].at,
                                       endTime |-> Running, duration |-> 0, deleted |-> FALSE]]
    BY <1>6 DEF InsertTimer
  <2>3. \A e \in Request :
            /\ e # r => entry'[e] = entry[e]
            /\ e = r => entry'[e].user = call[r].user
    BY <2>2 DEF TypeOK
  <2>4. OneRunningTimer'
    BY <2>1, <2>3 DEF OneRunningTimer, HasTimer, IsRunning, Live
  <2>5. ASSUME NEW s \in Request, pc'[s] = "insert", s \notin doomed'
        PROVE  ~HasTimer(call[s].user)'
    <3>1. pc[s] = "insert" /\ s # r /\ s \notin doomed /\ call'[s] = call[s]
          /\ call[s].user # call[r].user
      BY <1>6, <2>5 DEF InsertTimer, Answer, Goto, TypeOK
    <3>2. ~HasTimer(call[s].user)
      BY <3>1 DEF Guarded
    <3>. QED
      BY <2>3, <3>1, <3>2 DEF HasTimer, IsRunning, Live
  <2>. QED
    BY <2>4, <2>5 DEF Guarded
<1>7. ASSUME NEW r \in Request, AbortTimer(r)
      PROVE  Guarded' /\ OneRunningTimer'
  BY <1>7, <1>1 DEF AbortTimer, Goto, Answer, TypeOK, IsRunning, Live
<1>8. ASSUME NEW r \in Request, Write(r)
      PROVE  Guarded' /\ OneRunningTimer'
  BY <1>8, <1>1, WriteKeepsStopped DEF Write, Goto, Answer, TypeOK
<1>9. ASSUME NEW r \in Request, Fail(r)
      PROVE  Guarded' /\ OneRunningTimer'
  BY <1>9, <1>1 DEF Fail, Goto, Answer, TypeOK, IsRunning, Live
<1>10. CASE Tick
  BY <1>10, <1>1 DEF Tick, IsRunning, Live
<1>11. CASE UNCHANGED vars
  BY <1>11, <1>1 DEF vars, IsRunning, Live
<1>. QED
  BY <1>2, <1>3, <1>4, <1>5, <1>6, <1>7, <1>8, <1>9, <1>10, <1>11 DEF Next

THEOREM Invariance == Spec => []Inv
<1>1. Inv /\ [Next]_vars => Inv'
  BY NextTyped, NextFresh, NextGuarded DEF Inv
<1>. QED
  BY InitInv, <1>1, PTL DEF Spec

\* Every variable keeps its type.
THEOREM TypeCorrect == Spec => []TypeOK
<1>1. Inv => TypeOK
  BY DEF Inv, Typed
<1>. QED
  BY Invariance, <1>1, PTL

\* However many clients press start at the same moment, and whatever is
\* stopped, edited, deleted or lost in between, a user has one timer at most.
THEOREM OneTimer == Spec => []OneRunningTimer
<1>1. Inv => OneRunningTimer
  BY DEF Inv
<1>. QED
  BY Invariance, <1>1, PTL

----------------------------------------------------------------------------
(* The action properties *)

\* The entry that a step changes: none, a new one, or the one that is written.
LEMMA OnlyOneChanges ==
    ASSUME Inv, [Next]_vars, NEW e \in Request, entry[e] # NoEntry, entry'[e] # entry[e]
    PROVE  \E r \in Request : Write(r) /\ Writes(r, e) /\ Writable(call[r])
                              /\ entry'[e] = NewRow(call[r], entry[e])
<1>. USE DEF Inv, Typed
<1>1. ASSUME NEW r \in Request, NEW u \in User, NEW d \in Duration, NEW s \in Moment \cup {Same},
             CreateTimeEntry(r, u, d, s)
      PROVE  FALSE
  BY <1>1 DEF CreateTimeEntry, Fresh, TypeOK
<1>2. ASSUME NEW r \in Request, InsertTimer(r)
      PROVE  FALSE
  BY <1>2 DEF InsertTimer, Fresh, TypeOK
<1>3. ASSUME NEW r \in Request, Write(r)
      PROVE  Writes(r, e) /\ Writable(call[r]) /\ entry'[e] = NewRow(call[r], entry[e])
  BY <1>3 DEF Write, Writes, Answer, Goto, TypeOK
<1>. QED
  BY <1>1, <1>2, <1>3 DEF Next, vars, StartTimer, Read, FindRunning, AbortTimer, Fail, Tick

\* An edit never ends a running timer, though it may have read the entry
\* long before it writes.
THEOREM EditsSpareTimers == Spec => OnlyStopStops
<1>1. Inv /\ [Next]_vars =>
        [\A e \in Request :
            IsRunning(e) /\ ~IsRunning(e)' =>
                \E r \in Request : Writes(r, e) /\ call[r].op \in {"stop", "delete"}]_vars
  <2>. SUFFICES ASSUME Inv, [Next]_vars, NEW e \in Request, IsRunning(e), ~IsRunning(e)'
                PROVE  \E r \in Request : Writes(r, e) /\ call[r].op \in {"stop", "delete"}
    OBVIOUS
  <2>1. entry[e] # NoEntry /\ entry'[e] # entry[e]
    BY DEF IsRunning, Live
  <2>2. PICK r \in Request : Write(r) /\ Writes(r, e) /\ entry'[e] = NewRow(call[r], entry[e])
    BY <2>1, OnlyOneChanges
  <2>3. ASSUME call[r].op = "update"
        PROVE  FALSE
    <3>1. call[r].duration = Same /\ call[r].startTime = Same
      BY <2>2, <2>3 DEF Writes, Inv, Fresh
    <3>2. NewRow(call[r], entry[e]) = [entry[e] EXCEPT !.startTime = @, !.duration = @,
                                                       !.endTime = entry[e].endTime]
      BY <2>3, <3>1 DEF NewRow, NewEnd, Given
    <3>3. entry[e] \in Row
      BY <2>1 DEF Inv, Typed, TypeOK
    <3>. QED
      BY <2>1, <2>2, <3>2, <3>3 DEF Row
  <2>. QED
    BY <2>2, <2>3 DEF Inv, Typed, Held, Writes
<1>. QED
  BY Invariance, <1>1, PTL DEF Spec, OnlyStopStops

\* Of several stops of one timer one counts.
THEOREM StopsOnce == Spec => StoppedStays
<1>1. Inv /\ [Next]_vars =>
        [\A r, e \in Request :
            Writes(r, e) /\ call[r].op = "stop" /\ ~IsRunning(e) => entry'[e] = entry[e]]_vars
  <2>. SUFFICES ASSUME Inv, [Next]_vars, NEW r \in Request, NEW e \in Request,
                       Writes(r, e), call[r].op = "stop", ~IsRunning(e), entry'[e] # entry[e]
                PROVE  FALSE
    OBVIOUS
  <2>1. entry[e] # NoEntry
    BY DEF Inv, Fresh, Writes
  <2>2. PICK q \in Request : Write(q) /\ Writes(q, e) /\ Writable(call[q])
    BY <2>1, OnlyOneChanges
  <2>3. q = r
    BY <2>2 DEF Write, Writes, Answer, Goto, Inv, Typed, TypeOK
  <2>. QED
    BY <2>2, <2>3 DEF Writable, Writes
<1>. QED
  BY Invariance, <1>1, PTL DEF Spec, StoppedStays

\* A deleted entry is never written again.
THEOREM DeletionIsFinal == Spec => DeletedIsFinal
<1>1. Inv /\ [Next]_vars =>
        [\A e \in Request : entry[e] # NoEntry /\ entry[e].deleted => entry'[e] = entry[e]]_vars
  BY OnlyOneChanges DEF Writable, Writes, Live
<1>. QED
  BY Invariance, <1>1, PTL DEF Spec, DeletedIsFinal

----------------------------------------------------------------------------
(* The columns agree *)

\* Until somebody else writes the entry, it is as the call read it.
Seen == \A r \in Request : pc[r] = "write" /\ r \notin raced => entry[call[r].id] = call[r].seen

\* A timer never starts later than now, nor after the moment of its stop.
Timed ==
    /\ \A e \in Request : entry[e] # NoEntry /\ entry[e].endTime = Running => entry[e].startTime <= now
    /\ \A r \in Request :
          /\ pc[r] \in {"open", "insert"} => call[r].at <= now
          /\ pc[r] = "write" /\ call[r].op = "stop" => call[r].seen.startTime <= call[r].at

LEMMA NextSeen == Inv /\ Seen /\ [Next]_vars => Seen'
<1>. SUFFICES ASSUME Inv, Seen, [Next]_vars, NEW r \in Request, pc'[r] = "write", r \notin raced'
              PROVE  entry'[call'[r].id] = call'[r].seen
  BY DEF Seen
<1>. USE DEF Inv, Typed
<1>1. CASE pc[r] = "write" /\ call'[r] = call[r] /\ raced \subseteq raced'
  <2>1. call[r].id \in Request /\ entry[call[r].id] = call[r].seen /\ entry[call[r].id] # NoEntry
    BY <1>1 DEF Held, Steps, Call, Fresh, Seen
  <2>2. ASSUME entry'[call[r].id] # entry[call[r].id]
        PROVE  FALSE
    <3>1. PICK q \in Request : Write(q) /\ Writes(q, call[r].id) /\ Writable(call[q])
      BY <2>1, <2>2, OnlyOneChanges
    <3>2. q # r
      BY <1>1, <3>1 DEF Writes
    <3>3. raced' = raced \cup {s \in Request \ {q} : pc[s] = "write" /\ call[s].id = call[q].id}
      BY <3>1 DEF Write
    <3>. QED
      BY <1>1, <3>1, <3>2, <3>3 DEF Writes
  <2>. QED
    BY <1>1, <2>1, <2>2
<1>2. ASSUME NEW q \in Request, NEW u \in User, NEW op \in {"stop", "update", "delete"},
             NEW e \in Request, NEW d \in Duration \cup {Same}, NEW s \in Moment \cup {Same},
             Read(q, op, u, e, d, s)
      PROVE  entry'[call'[r].id] = call'[r].seen
  <2>1. CASE q = r
    BY <1>2, <2>1 DEF Read, TypeOK
  <2>2. CASE q # r
    BY <1>1, <1>2, <2>2 DEF Read, Goto, TypeOK
  <2>. QED
    BY <2>1, <2>2
<1>3. ASSUME NEW q \in Request, NEW u \in User, StartTimer(q, u)
      PROVE  entry'[call'[r].id] = call'[r].seen
  BY <1>1, <1>3 DEF StartTimer, Goto, TypeOK
<1>4. ASSUME NEW q \in Request, NEW u \in User, NEW d \in Duration, NEW s \in Moment \cup {Same},
             CreateTimeEntry(q, u, d, s)
      PROVE  entry'[call'[r].id] = call'[r].seen
  BY <1>1, <1>4 DEF CreateTimeEntry, Goto, TypeOK
<1>5. ASSUME NEW q \in Request, FindRunning(q) \/ InsertTimer(q) \/ AbortTimer(q) \/ Fail(q)
      PROVE  entry'[call'[r].id] = call'[r].seen
  BY <1>1, <1>5 DEF FindRunning, InsertTimer, AbortTimer, Fail, Answer, Goto, TypeOK
<1>6. ASSUME NEW q \in Request, Write(q)
      PROVE  entry'[call'[r].id] = call'[r].seen
  BY <1>1, <1>6 DEF Write, Answer, Goto, TypeOK
<1>7. CASE Tick \/ UNCHANGED vars
  BY <1>1, <1>7 DEF Tick, vars
<1>. QED
  BY <1>2, <1>3, <1>4, <1>5, <1>6, <1>7 DEF Next

\* A row that runs after a write started when it did before.
LEMMA StartKept ==
    ASSUME NEW c \in Call, c.seen \in Row, c.op \in {"stop", "update", "delete"}, NEW old \in Row,
           NewRow(c, old).endTime = Running
    PROVE  NewRow(c, old).startTime = old.startTime
<1>1. CASE c.op = "stop"
  <2>1. NewRow(c, old).endTime = c.at
    BY <1>1 DEF NewRow, Row
  <2>. QED
    BY <2>1, NullAssumption DEF Call
<1>2. CASE c.op = "delete"
  BY <1>2 DEF NewRow, Row
<1>3. CASE c.op = "update"
  <2>1. NewRow(c, old).endTime = NewEnd(c, old)
        /\ NewRow(c, old).startTime = Given(c.startTime, old.startTime)
    BY <1>3 DEF NewRow, Row
  <2>2. Given(c.startTime, c.seen.startTime) \in Int /\ Given(c.duration, c.seen.duration) \in Int
    BY DEF Given, Call, Row
  <2>3. c.startTime = Same
    BY <2>1, <2>2, NullAssumption DEF NewEnd
  <2>. QED
    BY <2>1, <2>3 DEF Given
<1>. QED
  BY <1>1, <1>2, <1>3

LEMMA NextTimed == Inv /\ Timed /\ [Next]_vars => Timed'
<1>. SUFFICES ASSUME Inv, Timed, [Next]_vars
              PROVE  Timed'
  OBVIOUS
<1>. USE DEF Inv, Typed
<1>1. now \in Int /\ now' \in Int /\ now <= now'
  BY DEF TypeOK, Next, vars, StartTimer, CreateTimeEntry, Read, FindRunning, InsertTimer, AbortTimer, Write, Fail, Tick
<1>2. ASSUME NEW r \in Request, pc[r] \in {"open", "insert", "write"}
      PROVE  call[r].at \in Int
  BY <1>2 DEF Held, Steps, Call
\* Who runs ran, or is the one that was inserted.
<1>3. ASSUME NEW e \in Request, entry'[e] # NoEntry, entry'[e].endTime = Running
      PROVE  entry'[e].startTime <= now'
  <2>1. CASE entry[e] # NoEntry
    <3>1. entry[e] \in Row
      BY <2>1 DEF TypeOK
    <3>2. entry'[e].startTime = entry[e].startTime /\ entry[e].endTime = Running
      <4>1. CASE entry'[e] = entry[e]
        BY <1>3, <4>1
      <4>2. CASE entry'[e] # entry[e]
        <5>1. PICK r \in Request : Write(r) /\ Writes(r, e) /\ entry'[e] = NewRow(call[r], entry[e])
          BY <2>1, <4>2, OnlyOneChanges
        <5>2. call[r] \in Call /\ call[r].seen \in Row /\ call[r].op \in {"stop", "update", "delete"}
          BY <5>1 DEF Writes, Held, Steps
        <5>. QED
          BY <1>3, <3>1, <5>1, <5>2, StartKept, NewRowIsRow
      <4>. QED
        BY <4>1, <4>2
    <3>3. entry[e].startTime <= now /\ entry[e].startTime \in Int
      BY <2>1, <3>1, <3>2 DEF Timed, Row
    <3>. QED
      BY <1>1, <3>2, <3>3
  <2>2. CASE entry[e] = NoEntry
    <3>1. ASSUME NEW r \in Request, InsertTimer(r)
          PROVE  entry'[e].startTime <= now'
      <4>1. entry'[e].startTime = call[r].at
        BY <1>3, <2>2, <3>1 DEF InsertTimer, TypeOK
      <4>2. call[r].at <= now /\ call[r].at \in Int
        BY <1>2, <3>1 DEF InsertTimer, Timed
      <4>. QED
        BY <1>1, <4>1, <4>2
    <3>2. ASSUME NEW r \in Request, NEW u \in User, NEW d \in Duration, NEW s \in Moment \cup {Same},
                 CreateTimeEntry(r, u, d, s)
          PROVE  FALSE
      <4>. DEFINE start == IF s = Same THEN now - d ELSE s
      <4>1. entry'[e].endTime = start + d
        BY <1>3, <2>2, <3>2 DEF CreateTimeEntry, TypeOK
      <4>2. start \in Int /\ d \in Int
        BY <1>1, InputsAreIntegers
      <4>. HIDE DEF start
      <4>3. start + d \in Int
        BY <4>2
      <4>. QED
        BY <1>3, <4>1, <4>3, NullAssumption
    <3>3. ASSUME NEW r \in Request, Write(r)
          PROVE  FALSE
      BY <1>3, <2>2, <3>3, WriteKeepsStopped
    <3>4. UNCHANGED entry => FALSE
      BY <1>3, <2>2
    <3>. QED
      BY <3>1, <3>2, <3>3, <3>4 DEF Next, vars, StartTimer, Read, FindRunning, AbortTimer, Fail, Tick
  <2>. QED
    BY <2>1, <2>2
<1>4. ASSUME NEW r \in Request,
             \/ pc'[r] = pc[r] /\ call'[r] = call[r]
             \/ pc[r] = "open" /\ pc'[r] = "insert" /\ call'[r] = call[r]
             \/ pc'[r] \notin {"open", "insert", "write"}
             \/ pc'[r] = "open" /\ call'[r].at = now
             \/ pc'[r] = "write" /\ (call'[r].op = "stop" => call'[r].seen.startTime <= call'[r].at)
      PROVE  /\ pc'[r] \in {"open", "insert"} => call'[r].at <= now'
             /\ pc'[r] = "write" /\ call'[r].op = "stop" => call'[r].seen.startTime <= call'[r].at
  BY <1>1, <1>2, <1>4 DEF Timed
<1>5. ASSUME NEW r \in Request
      PROVE  \/ pc'[r] = pc[r] /\ call'[r] = call[r]
             \/ pc[r] = "open" /\ pc'[r] = "insert" /\ call'[r] = call[r]
             \/ pc'[r] \notin {"open", "insert", "write"}
             \/ pc'[r] = "open" /\ call'[r].at = now
             \/ pc'[r] = "write" /\ (call'[r].op = "stop" => call'[r].seen.startTime <= call'[r].at)
  <2>1. ASSUME NEW q \in Request, NEW u \in User, StartTimer(q, u)
        PROVE  \/ pc'[r] = pc[r] /\ call'[r] = call[r]
               \/ pc'[r] = "open" /\ call'[r].at = now
    BY <2>1 DEF StartTimer, Goto, TypeOK
  <2>2. ASSUME NEW q \in Request, NEW u \in User, NEW d \in Duration, NEW s \in Moment \cup {Same},
               CreateTimeEntry(q, u, d, s)
        PROVE  \/ pc'[r] = pc[r] /\ call'[r] = call[r]
               \/ pc'[r] \notin {"open", "insert", "write"}
    BY <2>2 DEF CreateTimeEntry, Goto, TypeOK
  <2>3. ASSUME NEW q \in Request, NEW u \in User, NEW op \in {"stop", "update", "delete"},
               NEW e \in Request, NEW d \in Duration \cup {Same}, NEW s \in Moment \cup {Same},
               Read(q, op, u, e, d, s)
        PROVE  \/ pc'[r] = pc[r] /\ call'[r] = call[r]
               \/ pc'[r] = "write" /\ (call'[r].op = "stop" => call'[r].seen.startTime <= call'[r].at)
    <3>1. op = "stop" => entry[e].startTime <= now
      BY <2>3 DEF Read, Readable, IsRunning, Live, Timed
    <3>2. CASE q # r
      BY <2>3, <3>2 DEF Read, Goto, TypeOK
    <3>3. CASE q = r
      <4>1. pc'[r] = "write" /\ call'[r] = [op |-> op, user |-> u, id |-> e, startTime |-> s, duration |-> d,
                                            at |-> now, seen |-> entry[e]]
        BY <2>3, <3>3 DEF Read, Goto, TypeOK
      <4>. QED
        BY <3>1, <4>1
    <3>. QED
      BY <3>2, <3>3
  <2>4. ASSUME NEW q \in Request, FindRunning(q)
        PROVE  \/ pc'[r] = pc[r] /\ call'[r] = call[r]
               \/ pc[r] = "open" /\ pc'[r] = "insert" /\ call'[r] = call[r]
               \/ pc'[r] \notin {"open", "insert", "write"}
    BY <2>4 DEF FindRunning, Answer, Goto, TypeOK
  <2>5. ASSUME NEW q \in Request, InsertTimer(q) \/ AbortTimer(q) \/ Write(q) \/ Fail(q)
        PROVE  \/ pc'[r] = pc[r] /\ call'[r] = call[r]
               \/ pc'[r] \notin {"open", "insert", "write"}
    <3>1. Answer(q, "done") \/ Answer(q, "refused") \/ Answer(q, "failed")
      BY <2>5 DEF InsertTimer, AbortTimer, Write, Fail
    <3>. QED
      BY <3>1 DEF Answer, Goto, TypeOK
  <2>6. CASE Tick \/ UNCHANGED vars
    BY <2>6 DEF Tick, vars
  <2>. QED
    BY <2>1, <2>2, <2>3, <2>4, <2>5, <2>6 DEF Next
<1>. QED
  BY <1>3, <1>4, <1>5 DEF Timed

\* What a write makes of a row that is as it was read.
LEMMA NewRowAgrees ==
    ASSUME NEW c \in Call, c.seen \in Row, c.op \in {"stop", "update", "delete"}, Agree(c.seen),
           c.op = "stop" => c.seen.startTime <= c.at
    PROVE  Agree(NewRow(c, c.seen))
<1>. DEFINE old == c.seen
<1>1. CASE c.op = "stop"
  <2>1. old.startTime \in Int /\ c.at \in Int /\ ~(c.at < old.startTime)
    BY <1>1 DEF Row, Call
  <2>2. NewRow(c, old) = [old EXCEPT !.endTime = c.at, !.duration = c.at - old.startTime]
    BY <1>1, <2>1 DEF NewRow
  <2>3. /\ NewRow(c, old).endTime = c.at /\ NewRow(c, old).startTime = old.startTime
        /\ NewRow(c, old).duration = c.at - old.startTime
    BY <2>2 DEF Row
  <2>. QED
    BY <2>1, <2>3 DEF Agree
<1>2. CASE c.op = "delete"
  BY <1>2 DEF NewRow, Row, Agree
<1>3. CASE c.op = "update"
  <2>1. /\ NewRow(c, old).endTime = NewEnd(c, old)
        /\ NewRow(c, old).startTime = Given(c.startTime, old.startTime)
        /\ NewRow(c, old).duration = Given(c.duration, old.duration)
    BY <1>3 DEF NewRow, Row
  <2>2. CASE c.duration = Same /\ c.startTime = Same
    BY <2>1, <2>2 DEF NewEnd, Given, Agree
  <2>3. CASE ~(c.duration = Same /\ c.startTime = Same)
    BY <2>1, <2>3 DEF NewEnd, Agree
  <2>. QED
    BY <2>2, <2>3
<1>. QED
  BY <1>1, <1>2, <1>3

\* A write keeps the start, the end and the duration of an entry in agreement,
\* unless another call has written the entry since it was read.
THEOREM ColumnsAgree == Spec => UnracedColumnsAgree
<1>1. ASSUME Inv, Seen, Timed, [Next]_vars, NEW r \in Request, NEW e \in Request,
             Writes(r, e), r \notin raced, Agree(entry[e])
      PROVE  Agree(entry'[e])
  <2>. USE DEF Inv, Typed
  <2>1. pc[r] = "write" /\ call[r].id = e /\ entry[e] = call[r].seen /\ entry[e] # NoEntry
    BY <1>1 DEF Writes, Seen, Fresh
  <2>2. CASE entry'[e] = entry[e]
    BY <1>1, <2>2
  <2>3. CASE entry'[e] # entry[e]
    <3>1. PICK q \in Request : Write(q) /\ Writes(q, e) /\ entry'[e] = NewRow(call[q], entry[e])
      BY <1>1, <2>1, <2>3, OnlyOneChanges
    <3>2. q = r
      BY <1>1, <3>1 DEF Write, Writes, Answer, Goto, TypeOK
    <3>3. /\ call[r] \in Call /\ call[r].seen \in Row /\ call[r].op \in {"stop", "update", "delete"}
          /\ call[r].op = "stop" => call[r].seen.startTime <= call[r].at
      BY <1>1, <2>1 DEF Held, Steps, Timed
    <3>. QED
      BY <1>1, <2>1, <3>1, <3>2, <3>3, NewRowAgrees
  <2>. QED
    BY <2>2, <2>3
<1>2. Init => Seen /\ Timed
  BY DEF Init, Seen, Timed
<1>3. Inv /\ Seen /\ Timed /\ [Next]_vars =>
        [\A r, e \in Request :
            Writes(r, e) /\ r \notin raced /\ Agree(entry[e]) => Agree(entry'[e])]_vars
  BY <1>1
<1>. QED
  BY Invariance, NextSeen, NextTimed, <1>2, <1>3, PTL DEF Spec, UnracedColumnsAgree
=============================================================================
