---------------------------- MODULE TimeEntries ----------------------------
(***************************************************************************)
(* TimeEntriesService of one tenant: a running timer is an entry whose     *)
(* endTime is null.  startTimer looks for a running one and inserts in a   *)
(* SERIALIZABLE transaction, because no unique key says that a user has    *)
(* one timer; the other calls read an entry and write it in queries of     *)
(* their own.                                                              *)
(*                                                                         *)
(* Time is in whole seconds.  The re-read and the audit row that end a     *)
(* handler are left out: they change no entry.  So are the task, the       *)
(* description and who may see an entry, none of which changes its times.  *)
(***************************************************************************)
EXTENDS Integers

CONSTANTS User,
          Request,   \* the calls; an entry's id is the call that made it
          MaxDuration, \* MAX_MANUAL_DURATION_SECONDS
          Duration,  \* durations that pass validateDuration
          Moment,    \* start times a caller may give
          Same,      \* an input that is not given
          Running,   \* a null endTime
          NoEntry, NoCall,
          MaxTime    \* bound: the last second of the clock

ASSUME DurationAssumption ==
    MaxDuration \in Nat /\ Duration \subseteq 1..MaxDuration /\ Moment \subseteq Int
ASSUME NullAssumption == Running \notin Int /\ Same \notin Int

Row == [user : User, startTime : Int, endTime : Int \cup {Running},
        duration : Int, deleted : BOOLEAN]

ASSUME NoEntryAssumption == NoEntry \notin Row

VARIABLES
    entry,   \* the TimeEntry table
    pc,      \* the next step of a call, or its answer
    call,    \* its arguments and the entry as it read it
    doomed,  \* open transactions that can no longer be serialized
    raced,   \* calls whose entry was written since they read it
    now

vars == <<entry, pc, call, doomed, raced, now>>

Op == {"start", "stop", "update", "delete"}
Call == [op : Op, user : User, id : Request, startTime : Int \cup {Same},
         duration : Int \cup {Same}, at : Int, seen : Row \cup {NoEntry}]

Steps == {"open", "insert", "write"}
Answers == {"done", "refused", "failed"}

Init ==
    /\ entry = [r \in Request |-> NoEntry]
    /\ pc = [r \in Request |-> "idle"]
    /\ call = [r \in Request |-> NoCall]
    /\ doomed = {} /\ raced = {}
    /\ now = 0

Live(e) == entry[e] # NoEntry /\ ~entry[e].deleted
IsRunning(e) == Live(e) /\ entry[e].endTime = Running
HasTimer(u) == \E e \in Request : IsRunning(e) /\ entry[e].user = u

Goto(r, step) == pc' = [pc EXCEPT ![r] = step]

\* The call answers, and what it read is gone.
Answer(r, answer) ==
    /\ Goto(r, answer)
    /\ call' = [call EXCEPT ![r] = NoCall]

----------------------------------------------------------------------------
(* startTimer *)

\* The start is the moment of the call, before the transaction begins.
StartTimer(r, u) ==
    /\ pc[r] = "idle"
    /\ call' = [call EXCEPT ![r] = [op |-> "start", user |-> u, id |-> r, startTime |-> Same,
                                    duration |-> Same, at |-> now, seen |-> NoEntry]]
    /\ Goto(r, "open")
    /\ UNCHANGED <<entry, doomed, raced, now>>

FindRunning(r) ==
    /\ pc[r] = "open"
    /\ IF HasTimer(call[r].user) THEN Answer(r, "refused")
       ELSE Goto(r, "insert") /\ UNCHANGED call
    /\ UNCHANGED <<entry, doomed, raced, now>>

\* Mutant: READ COMMITTED, which detects nothing.
Serializable_ReadCommitted(r) == TRUE

Serializable(r) == r \notin doomed

\* Mutant: the duration of a running timer is null as well.
InsertTimer_NullDuration(r) ==
    LET c == call[r] IN
    /\ pc[r] = "insert" /\ Serializable(r)
    /\ entry' = [entry EXCEPT ![r] = [user |-> c.user, startTime |-> c.at, endTime |-> Running,
                                      duration |-> Running, deleted |-> FALSE]]
    /\ doomed' = doomed \cup {s \in Request : pc[s] = "insert" /\ call[s].user = c.user}
    /\ Answer(r, "done")
    /\ UNCHANGED <<raced, now>>

\* Two open transactions that both found no timer of one user and both insert
\* one conflict in both directions: Postgres aborts the second.
InsertTimer(r) ==
    LET c == call[r] IN
    /\ pc[r] = "insert" /\ Serializable(r)
    /\ entry' = [entry EXCEPT ![r] = [user |-> c.user, startTime |-> c.at, endTime |-> Running,
                                      duration |-> 0, deleted |-> FALSE]]
    /\ doomed' = doomed \cup {s \in Request : pc[s] = "insert" /\ call[s].user = c.user}
    /\ Answer(r, "done")
    /\ UNCHANGED <<raced, now>>

\* P2034, which Postgres may also raise for no reason of its own.
AbortTimer(r) ==
    /\ pc[r] = "insert"
    /\ Answer(r, "refused")
    /\ UNCHANGED <<entry, doomed, raced, now>>

----------------------------------------------------------------------------
(* createTimeEntry: one insert *)

CreateTimeEntry(r, u, d, s) ==
    LET start == IF s = Same THEN now - d ELSE s IN
    /\ pc[r] = "idle"
    /\ entry' = [entry EXCEPT ![r] = [user |-> u, startTime |-> start, endTime |-> start + d,
                                      duration |-> d, deleted |-> FALSE]]
    /\ Goto(r, "done")
    /\ UNCHANGED <<call, doomed, raced, now>>

----------------------------------------------------------------------------
(* stopTimer, updateTimeEntry and deleteTimeEntry: a read, then a write *)

\* Mutant: the times of a running entry may be edited.
Editable_Running(e, d, s) == Live(e)

Editable(e, d, s) == Live(e) /\ (IsRunning(e) => d = Same /\ s = Same)

\* stopTimer finds running entries of its caller only.
Readable(op, u, e, d, s) ==
    \/ op = "stop" /\ IsRunning(e) /\ entry[e].user = u
    \/ op = "update" /\ Editable(e, d, s)
    \/ op = "delete" /\ Live(e)

Read(r, op, u, e, d, s) ==
    /\ pc[r] = "idle" /\ Readable(op, u, e, d, s)
    /\ op # "update" => d = Same /\ s = Same
    /\ call' = [call EXCEPT ![r] = [op |-> op, user |-> u, id |-> e, startTime |-> s,
                                    duration |-> d, at |-> now, seen |-> entry[e]]]
    /\ Goto(r, "write")
    /\ UNCHANGED <<entry, doomed, raced, now>>

Given(input, old) == IF input = Same THEN old ELSE input

\* Mutant: endTime keeps up with the duration and not with the start.
NewEnd_DurationOnly(c, old) ==
    IF c.duration = Same THEN old.endTime ELSE Given(c.startTime, c.seen.startTime) + c.duration

\* endTime is written when an input moves it, from the row as it was read.
NewEnd(c, old) ==
    IF c.duration = Same /\ c.startTime = Same THEN old.endTime
    ELSE Given(c.startTime, c.seen.startTime) + Given(c.duration, c.seen.duration)

NewRow(c, old) ==
    CASE c.op = "stop" ->
            [old EXCEPT !.endTime = c.at,
                        !.duration = IF c.at < c.seen.startTime THEN 0
                                     ELSE c.at - c.seen.startTime]
      [] c.op = "update" ->
            [old EXCEPT !.startTime = Given(c.startTime, @),
                        !.duration = Given(c.duration, @),
                        !.endTime = NewEnd(c, old)]
      [] c.op = "delete" -> [old EXCEPT !.deleted = TRUE]

Writable(c) == Live(c.id) /\ (c.op = "stop" => IsRunning(c.id))

\* updateMany: a count of 0 is not found.
Write(r) ==
    LET c == call[r] IN
    /\ pc[r] = "write"
    /\ IF Writable(c)
       THEN /\ entry' = [entry EXCEPT ![c.id] = NewRow(c, entry[c.id])]
            /\ raced' = raced \cup {s \in Request \ {r} : pc[s] = "write" /\ call[s].id = c.id}
            /\ Answer(r, "done")
       ELSE Answer(r, "refused") /\ UNCHANGED <<entry, raced>>
    /\ UNCHANGED <<doomed, now>>

----------------------------------------------------------------------------
\* A query fails or the process stops: an open transaction is rolled back.
Fail(r) ==
    /\ pc[r] \in Steps
    /\ Answer(r, "failed")
    /\ UNCHANGED <<entry, doomed, raced, now>>

Tick ==
    /\ now < MaxTime
    /\ now' = now + 1
    /\ UNCHANGED <<entry, pc, call, doomed, raced>>

Next ==
    \/ \E r \in Request :
          \/ \E u \in User :
                \/ StartTimer(r, u)
                \/ \E d \in Duration, s \in Moment \cup {Same} : CreateTimeEntry(r, u, d, s)
                \/ \E op \in {"stop", "update", "delete"}, e \in Request,
                      d \in Duration \cup {Same}, s \in Moment \cup {Same} :
                      Read(r, op, u, e, d, s)
          \/ FindRunning(r) \/ InsertTimer(r) \/ AbortTimer(r)
          \/ Write(r) \/ Fail(r)
    \/ Tick

Spec == Init /\ [][Next]_vars

----------------------------------------------------------------------------
(* Properties *)

TypeOK ==
    /\ entry \in [Request -> Row \cup {NoEntry}]
    /\ pc \in [Request -> {"idle"} \cup Steps \cup Answers]
    /\ call \in [Request -> Call \cup {NoCall}]
    /\ doomed \subseteq Request /\ raced \subseteq Request
    /\ now \in Int

\* Call r writes entry e, or finds that it may not, in this step.
Writes(r, e) == pc[r] = "write" /\ pc'[r] # "write" /\ call[r].id = e

\* AC 6: a user never has two running timers, however many clients start one
\* at the same time and whatever stops or fails in between.
OneRunningTimer ==
    \A d, e \in Request :
        IsRunning(d) /\ IsRunning(e) /\ entry[d].user = entry[e].user => d = e

\* Only stopTimer ends a timer: an edit never does, though the entry it read
\* may have been started, stopped or deleted by the time it writes.
OnlyStopStops ==
    [][\A e \in Request :
          IsRunning(e) /\ ~IsRunning(e)' =>
              \E r \in Request : Writes(r, e) /\ call[r].op \in {"stop", "delete"}]_vars

\* AC 8: of several stops of one timer one counts.  A second one, sent later,
\* never stretches an entry that has stopped or was deleted.
StoppedStays ==
    [][\A r, e \in Request :
          Writes(r, e) /\ call[r].op = "stop" /\ ~IsRunning(e)
          => entry'[e] = entry[e]]_vars

\* AC 10: a deleted entry is final.
DeletedIsFinal ==
    [][\A e \in Request :
          entry[e] # NoEntry /\ entry[e].deleted => entry'[e] = entry[e]]_vars

Agree(w) == w.endTime = Running \/ w.endTime = w.startTime + w.duration

\* The three columns keep agreeing under every write of an entry that no
\* other call has written since it was read.
UnracedColumnsAgree ==
    [][\A r, e \in Request :
          Writes(r, e) /\ r \notin raced /\ Agree(entry[e]) => Agree(entry'[e])]_vars
============================================================================
