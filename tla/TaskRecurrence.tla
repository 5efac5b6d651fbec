--------------------------- MODULE TaskRecurrence ---------------------------
(***************************************************************************)
(* TaskRecurrenceService: the sweep that makes the occurrences of a        *)
(* recurring task.  It is fired, without being awaited, by every task list *)
(* query (lazy, once per process and day) and by an ADMIN mutation, so     *)
(* several sweeps of a tenant overlap.  An action is what a sweep does     *)
(* between two awaits.  Each date is looked up and inserted in a           *)
(* SERIALIZABLE transaction: the table has no unique key.  Users meanwhile *)
(* edit, clear and delete the occurrences through TasksService.            *)
(*                                                                         *)
(* A tenant has one template, with a due date and a pattern.  What an      *)
(* occurrence copies from it, the audit row written in the transaction,    *)
(* the TASK_CHANGED event and the counts returned are left out.            *)
(***************************************************************************)
EXTENDS Integers

CONSTANTS Tenant,
          Sweep,       \* the sweeps; each one runs at most once
          Advance(_),  \* advanceByPattern: the date after a date
          First,       \* dueDate of the template
          LastDate,    \* recurrenceEndDate of the template
          MaxPerRun,   \* MAX_OCCURRENCES_PER_TEMPLATE_PER_RUN
          EditDates,   \* the dates a user may set, the null one among them
          NoDate,      \* a null date
          NoRun,
          MaxDay       \* bound: the last day of the clock and of any due date

ASSUME DateAssumption ==
    /\ MaxDay \in Nat /\ MaxPerRun \in Nat
    /\ First \in 0..MaxDay /\ LastDate \in 0..MaxDay
    /\ NoDate \notin Int /\ EditDates \subseteq 0..MaxDay \cup {NoDate}
    /\ \A d \in 0..MaxDay : Advance(d) \in Nat /\ Advance(d) > d

VARIABLES
    occurrences,    \* per tenant, the tasks with the template as parentTaskId
    recurring,      \* tenants whose template is neither deleted nor stopped
    lastSweepDate,  \* field of the service: one for the process, not per tenant
    today,
    pc,             \* the next step of a sweep, or its end
    run,            \* its arguments and what it has read
    doomed,         \* open transactions that can no longer be serialized
    disturbed,      \* sweeps that lost a date or had the table edited under them
    swept           \* <<tenant, day>>: a sweep of that day ran to its end

vars == <<occurrences, recurring, lastSweepDate, today, pc, run, doomed, disturbed, swept>>

Day == 0..MaxDay

\* by: the sweep that made it, on the date `on'.  edited: a user set its date.
Occurrence == [by : Sweep, on : Day, dueDate : Day \cup {NoDate},
               edited : BOOLEAN, deleted : BOOLEAN]

\* date: the next date to make, of `left' more at most.  from: the latest due
\* date when the anchor was read.  blank: some due date was null then.
Run == [tenant : Tenant, lazy : BOOLEAN, day : Day, date : Nat, left : Nat,
        exists : BOOLEAN, from : Day, blank : BOOLEAN]

Steps == {"anchor", "next", "insert"}
Ends == {"done", "skipped", "failed"}

Init ==
    /\ occurrences = [t \in Tenant |-> {}]
    /\ recurring = Tenant
    /\ lastSweepDate = NoDate
    /\ today = First
    /\ pc = [r \in Sweep |-> "idle"]
    /\ run = [r \in Sweep |-> NoRun]
    /\ doomed = {} /\ disturbed = {} /\ swept = {}

InFlight == {r \in Sweep : pc[r] \in Steps}

Goto(r, step) == pc' = [pc EXCEPT ![r] = step]

\* The sweep ends, and what it held is gone with it.
End(r, how) ==
    /\ Goto(r, how)
    /\ run' = [run EXCEPT ![r] = NoRun]
    /\ doomed' = doomed \ {r}
    /\ disturbed' = disturbed \ {r}

----------------------------------------------------------------------------
(* Dates *)

DueDates(t) == {w.dueDate : w \in occurrences[t]}

\* The latest due date that is one, deleted occurrences included.
IsLatest(d, t) ==
    IF DueDates(t) \subseteq {NoDate} THEN d = First
    ELSE d \in DueDates(t) /\ \A e \in DueDates(t) \ {NoDate} : e <= d

\* Mutant: the template's own date is the anchor of every run.
Anchor_Template(t, latest) == First

\* findFirst by dueDate descending: Postgres sorts a null first, and a null
\* falls back to the template's date.
Anchor(t, latest) == IF NoDate \in DueDates(t) THEN First ELSE latest

\* Mutant: the cap is forgotten.
Due_NoCap(r) == run[r].date <= run[r].day /\ run[r].date <= LastDate

\* computeDueOccurrences, a date at a time: MaxPerRun dates at most, none
\* beyond the day of the sweep or the end date, which are both inclusive.
Due(r) == run[r].left > 0 /\ run[r].date <= run[r].day /\ run[r].date <= LastDate

----------------------------------------------------------------------------
(* A sweep *)

Asked(t, lazy) ==
    [tenant |-> t, lazy |-> lazy, day |-> today, date |-> First, left |-> 0,
     exists |-> FALSE, from |-> First, blank |-> FALSE]

\* ensureRecurrenceGeneratedToday (lazy) or the mutation.  The template is
\* read once: a sweep goes on with it whatever becomes of it.
Start(r, t, lazy) ==
    /\ pc[r] = "idle"
    /\ ~(lazy /\ lastSweepDate = today)
    /\ run' = [run EXCEPT ![r] = Asked(t, lazy)]
    /\ Goto(r, IF t \in recurring THEN "anchor" ELSE "next")
    /\ UNCHANGED <<occurrences, recurring, lastSweepDate, today, doomed, disturbed, swept>>

\* A lazy sweep is skipped on a day the process has swept.
Skip(r, t) ==
    /\ pc[r] = "idle"
    /\ lastSweepDate = today
    /\ run' = [run EXCEPT ![r] = Asked(t, TRUE)]
    /\ Goto(r, "skipped")
    /\ UNCHANGED <<occurrences, recurring, lastSweepDate, today, doomed, disturbed, swept>>

ReadAnchor(r) ==
    LET t == run[r].tenant IN
    /\ pc[r] = "anchor"
    /\ \E latest \in Day :
          /\ IsLatest(latest, t)
          /\ run' = [run EXCEPT ![r].date = Advance(Anchor(t, latest)), ![r].left = MaxPerRun,
                                ![r].from = latest, ![r].blank = NoDate \in DueDates(t)]
    /\ Goto(r, "next")
    /\ UNCHANGED <<occurrences, recurring, lastSweepDate, today, doomed, disturbed, swept>>

Exists(t, d) == \E w \in occurrences[t] : w.dueDate = d

\* The transaction of the next date opens with the look-up.
LookUp(r) ==
    /\ pc[r] = "next" /\ Due(r)
    /\ run' = [run EXCEPT ![r].exists = Exists(run[r].tenant, run[r].date)]
    /\ doomed' = doomed \ {r}
    /\ Goto(r, "insert")
    /\ UNCHANGED <<occurrences, recurring, lastSweepDate, today, disturbed, swept>>

\* Mutant: READ COMMITTED, which detects nothing.
Serializable_ReadCommitted(r) == TRUE

Serializable(r) == r \notin doomed

NextDate(r) ==
    /\ Goto(r, "next")
    /\ run' = [run EXCEPT ![r].date = Advance(@), ![r].left = @ - 1]

\* Of two transactions that found nothing on one date, one commits.
Insert(r) ==
    LET t == run[r].tenant
        d == run[r].date IN
    /\ pc[r] = "insert" /\ ~run[r].exists /\ Serializable(r)
    /\ occurrences' = [occurrences EXCEPT ![t] = @ \cup
          {[by |-> r, on |-> d, dueDate |-> d, edited |-> FALSE, deleted |-> FALSE]}]
    /\ doomed' = doomed \cup {s \in Sweep : /\ pc[s] = "insert" /\ run[s].tenant = t
                                            /\ run[s].date = d}
    /\ NextDate(r)
    /\ UNCHANGED <<recurring, lastSweepDate, today, disturbed, swept>>

SkipExisting(r) ==
    /\ pc[r] = "insert" /\ run[r].exists
    /\ NextDate(r)
    /\ UNCHANGED <<occurrences, recurring, lastSweepDate, today, doomed, disturbed, swept>>

\* P2034, which Postgres may also raise for no reason of its own: the date is
\* given up, the next one is tried.
AbortInsert(r) ==
    /\ pc[r] = "insert"
    /\ disturbed' = disturbed \cup {r}
    /\ NextDate(r)
    /\ UNCHANGED <<occurrences, recurring, lastSweepDate, today, doomed, swept>>

\* Mutant: the day is recorded as it is at the end of the sweep.
SweptDay_AtEnd(r) == today

\* todayKey, computed as the sweep began.
SweptDay(r) == run[r].day

Finish(r) ==
    /\ pc[r] = "next" /\ ~Due(r)
    /\ lastSweepDate' = IF run[r].lazy THEN SweptDay(r) ELSE lastSweepDate
    /\ swept' = swept \cup {<<run[r].tenant, run[r].day>>}
    /\ End(r, "done")
    /\ UNCHANGED <<occurrences, recurring, today>>

\* Any other error ends the sweep; the lazy entry point swallows it.
Fail(r) ==
    /\ pc[r] \in Steps
    /\ End(r, "failed")
    /\ UNCHANGED <<occurrences, recurring, lastSweepDate, today, swept>>

----------------------------------------------------------------------------
(* The environment *)

\* updateTask sets or clears the due date, deleteTask marks the row.
EditOccurrence(t, w, d) ==
    /\ w \in occurrences[t] /\ ~w.deleted /\ w.dueDate # d
    /\ occurrences' = [occurrences EXCEPT ![t] =
                         (@ \ {w}) \cup {[w EXCEPT !.dueDate = d, !.edited = TRUE]}]
    /\ disturbed' = disturbed \cup {r \in InFlight : run[r].tenant = t}
    /\ UNCHANGED <<recurring, lastSweepDate, today, pc, run, doomed, swept>>

DeleteOccurrence(t, w) ==
    /\ w \in occurrences[t] /\ ~w.deleted
    /\ occurrences' = [occurrences EXCEPT ![t] = (@ \ {w}) \cup {[w EXCEPT !.deleted = TRUE]}]
    /\ UNCHANGED <<recurring, lastSweepDate, today, pc, run, doomed, disturbed, swept>>

StopTemplate(t) ==
    /\ recurring' = recurring \ {t}
    /\ UNCHANGED <<occurrences, lastSweepDate, today, pc, run, doomed, disturbed, swept>>

NextDay ==
    /\ today < MaxDay
    /\ today' = today + 1
    /\ UNCHANGED <<occurrences, recurring, lastSweepDate, pc, run, doomed, disturbed, swept>>

\* The process stops, its field and its sweeps with it.
Restart ==
    /\ lastSweepDate' = NoDate
    /\ pc' = [r \in Sweep |-> IF r \in InFlight THEN "failed" ELSE pc[r]]
    /\ run' = [r \in Sweep |-> NoRun]
    /\ doomed' = {} /\ disturbed' = {}
    /\ UNCHANGED <<occurrences, recurring, today, swept>>

Step(r) ==
    \/ ReadAnchor(r) \/ LookUp(r) \/ Insert(r) \/ SkipExisting(r) \/ AbortInsert(r)
    \/ Finish(r) \/ Fail(r)

Next ==
    \/ \E r \in Sweep :
          \/ \E t \in Tenant, lazy \in BOOLEAN : Start(r, t, lazy)
          \/ \E t \in Tenant : Skip(r, t)
          \/ Step(r)
    \/ \E t \in Tenant :
          \/ \E w \in occurrences[t] :
                \/ \E d \in EditDates : EditOccurrence(t, w, d)
                \/ DeleteOccurrence(t, w)
          \/ StopTemplate(t)
    \/ NextDay \/ Restart

Spec == Init /\ [][Next]_vars

----------------------------------------------------------------------------
(* Properties *)

TypeOK ==
    /\ occurrences \in [Tenant -> SUBSET Occurrence]
    /\ recurring \subseteq Tenant
    /\ lastSweepDate \in Day \cup {NoDate}
    /\ today \in Day
    /\ pc \in [Sweep -> {"idle"} \cup Steps \cup Ends]
    /\ run \in [Sweep -> Run \cup {NoRun}]
    /\ doomed \subseteq Sweep /\ disturbed \subseteq Sweep
    /\ swept \subseteq Tenant \X Day

\* AC 30h: overlapping sweeps make one occurrence per date, and one a user
\* deleted is not made again, as long as no user has moved it.
OnePerDate ==
    \A t \in Tenant : \A v, w \in occurrences[t] :
        ~v.edited /\ ~w.edited /\ v.dueDate = w.dueDate => v = w

\* A sweep is skipped only on a day on which one has run to its end, not on
\* the word of one that failed, is still running or began the day before.
SkippedWasSwept ==
    [][\A r \in Sweep :
          pc[r] = "idle" /\ pc'[r] = "skipped" =>
              \E t \in Tenant : <<t, today>> \in swept]_vars

\* The sweep ends and has not made the date that follows the latest one.
LeavesDueDate(r) ==
    LET d == Advance(run[r].from) IN
    /\ pc[r] = "next" /\ pc'[r] = "done"
    /\ run[r].tenant \in recurring /\ d <= run[r].day /\ d <= LastDate
    /\ ~Exists(run[r].tenant, d)

\* AC 30e, as far as the code can keep it: each run continues from the latest
\* occurrence, unless it lost a date, a user moved one meanwhile or the due
\* date of an occurrence is null.
RunContinues ==
    [][\A r \in Sweep :
          LeavesDueDate(r) => r \in disturbed \/ run[r].blank \/ MaxPerRun = 0]_vars
============================================================================
