------------------------ MODULE TaskRecurrence_proofs ------------------------
(***************************************************************************)
(* For every set of tenants and of sweeps, every pattern, horizon and cap: *)
(* overlapping sweeps make at most one occurrence per date, skip no day    *)
(* that was not swept and continue from the latest occurrence.             *)
(***************************************************************************)
EXTENDS TaskRecurrence, TLAPS

\* A sweep under way holds what it has read, and inserts only on due dates.
Held ==
    \A r \in Sweep :
        /\ pc[r] \in Steps => run[r] \in Run
        /\ pc[r] = "insert" => run[r].date \in Day /\ run[r].left # 0

\* What makes the look-up hold at the insert: a transaction that found nothing
\* and can still commit would still find no occurrence that a sweep put there.
Guarded ==
    \A r \in Sweep : pc[r] = "insert" /\ ~run[r].exists /\ r \notin doomed =>
        \A w \in occurrences[run[r].tenant] : ~w.edited => w.dueDate # run[r].date

Typed == TypeOK /\ Held
Inv == Typed /\ Guarded /\ OnePerDate

LEMMA InitInv == Init => Inv
  BY DateAssumption DEF Init, Inv, Typed, TypeOK, Held, Guarded, OnePerDate, Steps, Day

LEMMA AdvanceDated ==
    ASSUME NEW t \in Tenant, NEW latest \in Day
    PROVE  Advance(Anchor(t, latest)) \in Nat
<1>1. CASE NoDate \in DueDates(t)
  BY <1>1, DateAssumption DEF Anchor
<1>2. CASE NoDate \notin DueDates(t)
  BY <1>2, DateAssumption DEF Anchor, Day
<1>. QED
  BY <1>1, <1>2

LEMMA NextDateTyped ==
    ASSUME Typed, NEW r \in Sweep, pc[r] = "insert", NextDate(r)
    PROVE  /\ pc' \in [Sweep -> {"idle"} \cup Steps \cup Ends]
           /\ run' \in [Sweep -> Run \cup {NoRun}]
           /\ Held'
<1>1. run[r] \in Run /\ run[r].date \in Day /\ run[r].left # 0
  BY DEF Typed, Held, Steps
<1>2. Advance(run[r].date) \in Nat /\ run[r].left - 1 \in Nat
  BY <1>1, DateAssumption DEF Day, Run
<1>3. [run[r] EXCEPT !.date = Advance(@), !.left = @ - 1] \in Run
  BY <1>1, <1>2 DEF Run
<1>4. run' = [run EXCEPT ![r] = [run[r] EXCEPT !.date = Advance(@), !.left = @ - 1]]
  BY DEF NextDate
<1>. QED
  BY <1>3, <1>4 DEF NextDate, Goto, Typed, TypeOK, Held, Steps

LEMMA NextTyped == Typed /\ [Next]_vars => Typed'
<1>. SUFFICES ASSUME Typed, [Next]_vars
              PROVE  Typed'
  OBVIOUS
<1>1. ASSUME NEW r \in Sweep, NEW t \in Tenant, NEW lazy \in BOOLEAN,
             Start(r, t, lazy) \/ Skip(r, t)
      PROVE  Typed'
  <2>1. Asked(t, lazy) \in Run /\ Asked(t, TRUE) \in Run
    BY DateAssumption DEF Asked, Run, Day, Typed, TypeOK
  <2>2. run' \in [Sweep -> Run \cup {NoRun}] /\ (pc'[r] # "skipped" => run'[r] \in Run)
        /\ \A q \in Sweep \ {r} : run'[q] = run[q]
    BY <1>1, <2>1 DEF Start, Skip, Typed, TypeOK
  <2>3. /\ pc' \in [Sweep -> {"idle"} \cup Steps \cup Ends]
        /\ pc'[r] # "insert" /\ \A q \in Sweep \ {r} : pc'[q] = pc[q]
    BY <1>1 DEF Start, Skip, Goto, Typed, TypeOK, Steps, Ends
  <2>4. Held'
    BY <2>2, <2>3 DEF Held, Typed, Steps
  <2>. QED
    BY <1>1, <2>2, <2>3, <2>4 DEF Start, Skip, Typed, TypeOK
<1>2. ASSUME NEW r \in Sweep, ReadAnchor(r)
      PROVE  Typed'
  <2>1. run[r] \in Run
    BY <1>2 DEF ReadAnchor, Typed, Held, Steps
  <2>2. PICK latest \in Day :
            run' = [run EXCEPT ![r].date = Advance(Anchor(run[r].tenant, latest)),
                               ![r].left = MaxPerRun, ![r].from = latest,
                               ![r].blank = NoDate \in DueDates(run[r].tenant)]
    BY <1>2 DEF ReadAnchor
  <2>. DEFINE date == Advance(Anchor(run[r].tenant, latest))
  <2>3. date \in Nat /\ MaxPerRun \in Nat /\ latest \in Day
    BY <2>1, AdvanceDated, DateAssumption DEF Run
  <2>. HIDE DEF date
  <2>4. run' = [run EXCEPT ![r].date = date, ![r].left = MaxPerRun, ![r].from = latest,
                           ![r].blank = NoDate \in DueDates(run[r].tenant)]
    BY <2>2 DEF date
  <2>. DEFINE blank == NoDate \in DueDates(run[r].tenant)
  <2>5. [run[r] EXCEPT !.date = date, !.left = MaxPerRun, !.from = latest, !.blank = blank] \in Run
    <3>. blank \in BOOLEAN
      OBVIOUS
    <3>. HIDE DEF blank
    <3>. QED
      BY <2>1, <2>3 DEF Run
  <2>6. run'[r] \in Run /\ run' \in [Sweep -> Run \cup {NoRun}]
        /\ \A q \in Sweep \ {r} : run'[q] = run[q]
    BY <2>4, <2>5 DEF Typed, TypeOK
  <2>. QED
    BY <1>2, <2>6 DEF ReadAnchor, Goto, Typed, TypeOK, Held, Steps
<1>3. ASSUME NEW r \in Sweep, LookUp(r)
      PROVE  Typed'
  <2>1. run[r] \in Run
    BY <1>3 DEF LookUp, Typed, Held, Steps
  <2>2. run[r].date \in Day /\ run[r].left # 0
    BY <1>3, <2>1, DateAssumption DEF LookUp, Due, Run, Day
  <2>3. run' = [run EXCEPT ![r].exists = Exists(run[r].tenant, run[r].date)]
    BY <1>3 DEF LookUp
  <2>4. Exists(run[r].tenant, run[r].date) \in BOOLEAN
    BY DEF Exists
  <2>5. /\ run'[r] \in Run /\ run'[r].date = run[r].date /\ run'[r].left = run[r].left
        /\ run' \in [Sweep -> Run \cup {NoRun}]
        /\ \A q \in Sweep \ {r} : run'[q] = run[q]
    BY <2>1, <2>3, <2>4 DEF Run, Typed, TypeOK
  <2>. QED
    BY <1>3, <2>2, <2>5 DEF LookUp, Goto, Typed, TypeOK, Held, Steps
<1>4. ASSUME NEW r \in Sweep, Insert(r)
      PROVE  Typed'
  <2>1. run[r] \in Run /\ run[r].date \in Day
    BY <1>4 DEF Insert, Typed, Held, Steps
  <2>2. [by |-> r, on |-> run[r].date, dueDate |-> run[r].date, edited |-> FALSE,
         deleted |-> FALSE] \in Occurrence
    BY <2>1 DEF Occurrence
  <2>3. occurrences' \in [Tenant -> SUBSET Occurrence]
    BY <1>4, <2>2 DEF Insert, Typed, TypeOK
  <2>. QED
    BY <1>4, <2>3, NextDateTyped DEF Insert, Typed, TypeOK
<1>5. ASSUME NEW r \in Sweep, SkipExisting(r) \/ AbortInsert(r)
      PROVE  Typed'
  BY <1>5, NextDateTyped DEF SkipExisting, AbortInsert, Typed, TypeOK
<1>6. ASSUME NEW r \in Sweep, Finish(r)
      PROVE  Typed'
  <2>1. run[r] \in Run
    BY <1>6 DEF Finish, Typed, Held, Steps
  <2>. QED
    BY <1>6, <2>1 DEF Finish, SweptDay, End, Goto, Run, Typed, TypeOK, Held, Steps, Ends
<1>7. ASSUME NEW r \in Sweep, Fail(r)
      PROVE  Typed'
  BY <1>7 DEF Fail, End, Goto, Typed, TypeOK, Held, Steps, Ends
<1>8. ASSUME NEW t \in Tenant, NEW w \in occurrences[t], NEW d \in EditDates,
             EditOccurrence(t, w, d)
      PROVE  Typed'
  <2>1. w \in Occurrence /\ d \in Day \cup {NoDate}
    BY DateAssumption DEF Typed, TypeOK, Day
  <2>2. [w EXCEPT !.dueDate = d, !.edited = TRUE] \in Occurrence
    BY <2>1 DEF Occurrence
  <2>. QED
    BY <1>8, <2>2 DEF EditOccurrence, InFlight, Typed, TypeOK, Held
<1>9. ASSUME NEW t \in Tenant, NEW w \in occurrences[t], DeleteOccurrence(t, w)
      PROVE  Typed'
  <2>1. [w EXCEPT !.deleted = TRUE] \in Occurrence
    <3>1. w \in Occurrence
      BY DEF Typed, TypeOK
    <3>. QED
      BY <3>1 DEF Occurrence
  <2>. DEFINE new == [w EXCEPT !.deleted = TRUE]
  <2>. HIDE DEF new
  <2>2. occurrences' \in [Tenant -> SUBSET Occurrence]
    <3>1. occurrences' = [occurrences EXCEPT ![t] = (@ \ {w}) \cup {new}]
      BY <1>9 DEF DeleteOccurrence, new
    <3>2. new \in Occurrence
      BY <2>1 DEF new
    <3>. QED
      BY <3>1, <3>2 DEF Typed, TypeOK
  <2>3. UNCHANGED <<recurring, lastSweepDate, today, pc, run, doomed, disturbed, swept>>
    BY <1>9 DEF DeleteOccurrence
  <2>. QED
    BY <2>2, <2>3 DEF Typed, TypeOK, Held
<1>10. ASSUME NEW t \in Tenant, StopTemplate(t)
       PROVE  Typed'
  BY <1>10 DEF StopTemplate, Typed, TypeOK, Held
<1>11. CASE NextDay
  BY <1>11, DateAssumption DEF NextDay, Day, Typed, TypeOK, Held
<1>12. CASE Restart
  BY <1>12 DEF Restart, InFlight, Typed, TypeOK, Held, Steps, Ends
<1>13. CASE UNCHANGED vars
  BY <1>13 DEF vars, Typed, TypeOK, Held
<1>. QED
  BY <1>1, <1>2, <1>3, <1>4, <1>5, <1>6, <1>7, <1>8, <1>9, <1>10, <1>11, <1>12, <1>13
  DEF Next, Step

----------------------------------------------------------------------------
LEMMA NextGuarded == Inv /\ [Next]_vars => Guarded' /\ OnePerDate'
<1>. SUFFICES ASSUME Inv, [Next]_vars
              PROVE  Guarded' /\ OnePerDate'
  OBVIOUS
<1>. USE DEF Inv, Typed
<1>1. \A r \in Sweep : pc[r] = "insert" => run[r].tenant \in Tenant
  BY DEF Held, Steps, Run
\* Most steps leave the occurrences and the open transactions of others alone.
<1>2. ASSUME NEW r \in Sweep, UNCHANGED occurrences, pc'[r] # "insert",
             doomed \ {r} \subseteq doomed',
             \A q \in Sweep \ {r} : pc'[q] = pc[q] /\ run'[q] = run[q]
      PROVE  Guarded' /\ OnePerDate'
  BY <1>2 DEF Guarded, OnePerDate
<1>3. ASSUME NEW r \in Sweep, NEW t \in Tenant, NEW lazy \in BOOLEAN,
             Start(r, t, lazy) \/ Skip(r, t)
      PROVE  Guarded' /\ OnePerDate'
  BY <1>3, <1>2 DEF Start, Skip, Goto, TypeOK
<1>4. ASSUME NEW r \in Sweep, ReadAnchor(r) \/ SkipExisting(r) \/ AbortInsert(r)
      PROVE  Guarded' /\ OnePerDate'
  BY <1>4, <1>2 DEF ReadAnchor, SkipExisting, AbortInsert, NextDate, Goto, TypeOK
<1>5. ASSUME NEW r \in Sweep, Finish(r) \/ Fail(r)
      PROVE  Guarded' /\ OnePerDate'
  BY <1>5, <1>2 DEF Finish, Fail, End, Goto, TypeOK
<1>6. ASSUME NEW r \in Sweep, LookUp(r)
      PROVE  Guarded' /\ OnePerDate'
  <2>1. run[r] \in Run
    BY <1>6 DEF LookUp, Held, Steps
  <2>2. /\ run'[r].exists = Exists(run[r].tenant, run[r].date)
        /\ run'[r].tenant = run[r].tenant /\ run'[r].date = run[r].date
        /\ \A q \in Sweep \ {r} : run'[q] = run[q]
    BY <1>6, <2>1 DEF LookUp, TypeOK, Run
  <2>3. UNCHANGED occurrences /\ doomed' = doomed \ {r} /\ pc' = [pc EXCEPT ![r] = "insert"]
    BY <1>6 DEF LookUp, Goto
  <2>4. Guarded'
    BY <2>2, <2>3 DEF Guarded, Exists, TypeOK
  <2>. QED
    BY <2>3, <2>4 DEF OnePerDate
<1>7. ASSUME NEW r \in Sweep, Insert(r)
      PROVE  Guarded' /\ OnePerDate'
  <2>. DEFINE t == run[r].tenant
              d == run[r].date
              new == [by |-> r, on |-> d, dueDate |-> d, edited |-> FALSE, deleted |-> FALSE]
  <2>1. t \in Tenant /\ \A w \in occurrences[t] : ~w.edited => w.dueDate # d
    BY <1>7, <1>1 DEF Insert, Serializable, Guarded
  <2>2. occurrences' = [occurrences EXCEPT ![t] = @ \cup {new}]
    BY <1>7 DEF Insert
  <2>3. new.dueDate = d
    OBVIOUS
  <2>. HIDE DEF new
  <2>4. OnePerDate'
    BY <2>1, <2>2, <2>3 DEF OnePerDate, TypeOK
  <2>5. ASSUME NEW s \in Sweep, pc'[s] = "insert", ~run'[s].exists, s \notin doomed',
               NEW w \in occurrences'[run'[s].tenant], ~w.edited
        PROVE  w.dueDate # run'[s].date
    <3>1. pc[s] = "insert" /\ run'[s] = run[s] /\ s \notin doomed /\ run[s].tenant \in Tenant
      BY <1>7, <2>5, <1>1 DEF Insert, NextDate, Goto, TypeOK
    <3>2. ~(run[s].tenant = t /\ run[s].date = d)
      BY <1>7, <2>5, <3>1 DEF Insert
    <3>3. w \in occurrences[run[s].tenant] \/ (run[s].tenant = t /\ w = new)
      BY <2>1, <2>2, <2>5, <3>1 DEF TypeOK
    <3>. QED
      BY <2>3, <2>5, <3>1, <3>2, <3>3 DEF Guarded
  <2>. QED
    BY <2>4, <2>5 DEF Guarded
<1>8. ASSUME NEW t \in Tenant, NEW w \in occurrences[t], NEW d \in EditDates,
             EditOccurrence(t, w, d)
      PROVE  Guarded' /\ OnePerDate'
  <2>. DEFINE new == [w EXCEPT !.dueDate = d, !.edited = TRUE]
  <2>1. new.edited
    BY DEF TypeOK, Occurrence
  <2>2. occurrences' = [occurrences EXCEPT ![t] = (@ \ {w}) \cup {new}]
        /\ UNCHANGED <<pc, run, doomed>>
    BY <1>8 DEF EditOccurrence
  <2>. HIDE DEF new
  <2>3. \A u \in Tenant : \A v \in occurrences'[u] : ~v.edited => v \in occurrences[u]
    BY <2>1, <2>2 DEF TypeOK
  <2>. QED
    BY <1>1, <2>2, <2>3 DEF Guarded, OnePerDate
<1>9. ASSUME NEW t \in Tenant, NEW w \in occurrences[t], DeleteOccurrence(t, w)
      PROVE  Guarded' /\ OnePerDate'
  <2>. DEFINE new == [w EXCEPT !.deleted = TRUE]
  <2>1. new.edited = w.edited /\ new.dueDate = w.dueDate
    BY DEF TypeOK, Occurrence
  <2>2. occurrences' = [occurrences EXCEPT ![t] = (@ \ {w}) \cup {new}]
        /\ UNCHANGED <<pc, run, doomed>>
    BY <1>9 DEF DeleteOccurrence
  <2>. HIDE DEF new
  <2>3. \A u \in Tenant : \A v \in occurrences'[u] :
            (v \in occurrences[u] /\ ~(u = t /\ v = w)) \/ (u = t /\ v = new)
    BY <2>2 DEF TypeOK
  <2>4. OnePerDate'
    BY <2>1, <2>3 DEF OnePerDate
  <2>5. Guarded'
    BY <1>1, <2>1, <2>2, <2>3 DEF Guarded
  <2>. QED
    BY <2>4, <2>5
<1>10. CASE NextDay \/ (\E t \in Tenant : StopTemplate(t)) \/ UNCHANGED vars
  BY <1>10 DEF NextDay, StopTemplate, vars, Guarded, OnePerDate
<1>11. CASE Restart
  BY <1>11 DEF Restart, InFlight, Steps, TypeOK, Guarded, OnePerDate
<1>. QED
  BY <1>3, <1>4, <1>5, <1>6, <1>7, <1>8, <1>9, <1>10, <1>11 DEF Next, Step

THEOREM Invariance == Spec => []Inv
<1>1. Inv /\ [Next]_vars => Inv'
  BY NextTyped, NextGuarded DEF Inv
<1>. QED
  BY InitInv, <1>1, PTL DEF Spec

\* Every variable keeps its type: no sweep goes beyond the horizon.
THEOREM TypeCorrect == Spec => []TypeOK
<1>1. Inv => TypeOK
  BY DEF Inv, Typed
<1>. QED
  BY Invariance, <1>1, PTL

\* However many sweeps overlap, and whatever users edit and delete and
\* whenever a process restarts, no date is made twice.
THEOREM NoDoubles == Spec => []OnePerDate
<1>1. Inv => OnePerDate
  BY DEF Inv
<1>. QED
  BY Invariance, <1>1, PTL

----------------------------------------------------------------------------
(* What a sweep leaves behind *)

\* The day of the service's field is one that a sweep has ended on.
DaySwept == lastSweepDate # NoDate => \E t \in Tenant : <<t, lastSweepDate>> \in swept

LEMMA NextDaySwept == Inv /\ DaySwept /\ [Next]_vars => DaySwept'
<1>. SUFFICES ASSUME Inv, DaySwept, [Next]_vars
              PROVE  DaySwept'
  OBVIOUS
<1>1. CASE UNCHANGED <<lastSweepDate, swept>>
  BY <1>1 DEF DaySwept
<1>2. ASSUME NEW r \in Sweep, Finish(r)
      PROVE  DaySwept'
  <2>1. run[r].tenant \in Tenant
    BY <1>2 DEF Inv, Typed, Held, Finish, Steps, Run
  <2>2. /\ swept' = swept \cup {<<run[r].tenant, run[r].day>>}
        /\ lastSweepDate' = lastSweepDate \/ lastSweepDate' = run[r].day
    BY <1>2 DEF Finish, SweptDay
  <2>. QED
    BY <2>1, <2>2 DEF DaySwept
<1>3. CASE Restart
  BY <1>3 DEF Restart, DaySwept
<1>. QED
  BY <1>1, <1>2, <1>3 DEF Next, Step, vars, Start, Skip, ReadAnchor, LookUp, Insert, SkipExisting, AbortInsert,
     Fail, EditOccurrence, DeleteOccurrence, StopTemplate, NextDay

\* Where a step takes a sweep.
LEMMA StepGoes ==
    ASSUME NEW q \in Sweep, Step(q)
    PROVE  Goto(q, "next") \/ Goto(q, "insert") \/ Goto(q, "failed") \/ (Goto(q, "done") /\ Finish(q))
<1>1. ReadAnchor(q) \/ Insert(q) \/ SkipExisting(q) \/ AbortInsert(q) => Goto(q, "next")
  BY DEF ReadAnchor, Insert, SkipExisting, AbortInsert, NextDate
<1>2. LookUp(q) => Goto(q, "insert")
  BY DEF LookUp
<1>3. (Fail(q) => Goto(q, "failed")) /\ (Finish(q) => Goto(q, "done"))
  BY DEF Fail, Finish, End
<1>. QED
  BY <1>1, <1>2, <1>3 DEF Step

\* A sweep that is not the one that moves stays.
LEMMA OnlyGoer ==
    ASSUME TypeOK, NEW r \in Sweep, NEW q \in Sweep, NEW step, Goto(q, step), pc'[r] # pc[r]
    PROVE  q = r /\ step = pc'[r]
  BY DEF Goto, TypeOK

\* However sweeps overlap, fail and restart, and whatever day it is when they
\* end, one is skipped only on a day on which one has run to its end.
THEOREM SkipsAreEarned == Spec => SkippedWasSwept
<1>. DEFINE Earned == \A r \in Sweep : pc[r] = "idle" /\ pc'[r] = "skipped" =>
                          \E t \in Tenant : <<t, today>> \in swept
<1>1. ASSUME Inv, DaySwept, [Next]_vars, NEW r \in Sweep, pc[r] = "idle", pc'[r] = "skipped"
      PROVE  \E t \in Tenant : <<t, today>> \in swept
  <2>. USE DEF Inv, Typed
  <2>1. \A q \in Sweep : \A step : Goto(q, step) => step = "skipped"
    BY <1>1, OnlyGoer
  <2>2. ~UNCHANGED pc /\ r \notin InFlight
    BY <1>1 DEF InFlight, Steps
  <2>3. ~\E q \in Sweep : Step(q)
    BY <2>1, StepGoes
  <2>4. ~Restart
    BY <1>1, <2>2 DEF Restart
  <2>5. ASSUME NEW q \in Sweep, NEW t \in Tenant, NEW lazy \in BOOLEAN, Start(q, t, lazy)
        PROVE  FALSE
    <3>1. Goto(q, "anchor") \/ Goto(q, "next")
      BY <2>5 DEF Start
    <3>. QED
      BY <2>1, <3>1
  <2>6. ~NextDay /\ ~UNCHANGED vars
        /\ ~\E t \in Tenant : \/ \E w \in occurrences[t] :
                                   \/ \E d \in EditDates : EditOccurrence(t, w, d)
                                   \/ DeleteOccurrence(t, w)
                              \/ StopTemplate(t)
    BY <2>2 DEF NextDay, vars, EditOccurrence, DeleteOccurrence, StopTemplate
  <2>7. \E q \in Sweep, t \in Tenant : Skip(q, t)
    BY <1>1, <2>3, <2>4, <2>5, <2>6 DEF Next
  <2>8. lastSweepDate = today
    BY <2>7 DEF Skip
  <2>9. today \in Int
    BY <1>1, DateAssumption DEF TypeOK, Day
  <2>. QED
    BY <1>1, <2>8, <2>9, DateAssumption DEF DaySwept
<1>2. Init => DaySwept
  BY DEF Init, DaySwept
<1>3. Inv /\ DaySwept /\ [Next]_vars => Earned
  BY <1>1
<1>. QED
  BY Invariance, NextDaySwept, <1>2, <1>3, PTL DEF Spec, SkippedWasSwept

----------------------------------------------------------------------------
(* Where a run stops *)

\* The next date is the first of the run: the one that follows the latest.
OnFirst(r) == run[r].date = Advance(run[r].from) /\ run[r].left = MaxPerRun

\* Until it is made, the date that follows the latest one is the next; and
\* what a transaction found is there.
Continues(r) ==
    /\ ~run[r].blank /\ run[r].tenant \in recurring =>
          OnFirst(r) \/ Exists(run[r].tenant, Advance(run[r].from))
    /\ pc[r] = "insert" /\ run[r].exists => Exists(run[r].tenant, run[r].date)

\* Why RunContinues holds: so goes every sweep whose table nobody changed.
Continuing == \A r \in Sweep : pc[r] \in {"next", "insert"} /\ r \notin disturbed => Continues(r)

\* No date that is there goes away.
Keeping == \A t \in Tenant : \A d : Exists(t, d) => Exists(t, d)'

\* The other sweeps go on, and no date they may rely on goes away.
LEMMA ContinuingOn ==
    ASSUME Inv, Continuing, NEW r \in Sweep, Keeping,
           recurring' \subseteq recurring, disturbed \subseteq disturbed' \cup {r},
           \A s \in Sweep \ {r} : pc'[s] = pc[s] /\ run'[s] = run[s],
           pc'[r] \in {"next", "insert"} /\ r \notin disturbed' => Continues(r)'
    PROVE  Continuing'
<1>. SUFFICES ASSUME NEW s \in Sweep, s # r, pc'[s] \in {"next", "insert"}, s \notin disturbed'
              PROVE  Continues(s)'
  BY DEF Continuing
<1>1. pc'[s] = pc[s] /\ run'[s] = run[s] /\ s \notin disturbed
  OBVIOUS
<1>2. run[s].tenant \in Tenant
  BY <1>1 DEF Inv, Typed, Held, Steps, Run
<1>. QED
  BY <1>1, <1>2 DEF Continuing, Continues, Keeping, OnFirst

\* A sweep's own insert, or the loss of its date, moves it on.
LEMMA MovedOn ==
    ASSUME Inv, NEW r \in Sweep, pc[r] = "insert", NextDate(r)
    PROVE  /\ pc'[r] = "next" /\ \A s \in Sweep \ {r} : pc'[s] = pc[s] /\ run'[s] = run[s]
           /\ run'[r].tenant = run[r].tenant /\ run'[r].from = run[r].from
           /\ run'[r].blank = run[r].blank /\ run[r].tenant \in Tenant
<1>1. run[r] \in Run
  BY DEF Inv, Typed, Held, Steps
<1>. QED
  BY <1>1 DEF NextDate, Goto, Inv, Typed, TypeOK, Run

LEMMA NextContinuing == Inv /\ Continuing /\ [Next]_vars => Continuing'
<1>. SUFFICES ASSUME Inv, Continuing, [Next]_vars
              PROVE  Continuing'
  OBVIOUS
<1>. USE DEF Inv, Typed
<1>1. UNCHANGED occurrences => Keeping
  BY DEF Keeping, Exists
<1>2. ASSUME NEW r \in Sweep, NEW t \in Tenant, NEW lazy \in BOOLEAN, Start(r, t, lazy) \/ Skip(r, t)
      PROVE  Continuing'
  <2>1. UNCHANGED <<occurrences, recurring, disturbed>>
        /\ \A s \in Sweep \ {r} : pc'[s] = pc[s] /\ run'[s] = run[s]
    BY <1>2 DEF Start, Skip, Goto, TypeOK
  <2>2. ASSUME pc'[r] \in {"next", "insert"}
        PROVE  pc'[r] = "next" /\ run'[r] = Asked(t, lazy) /\ t \notin recurring
    BY <1>2, <2>2 DEF Start, Skip, Goto, TypeOK
  <2>3. pc'[r] \in {"next", "insert"} => Continues(r)'
    BY <2>1, <2>2 DEF Continues, Asked
  <2>. QED
    BY <1>1, <2>1, <2>3, ContinuingOn
<1>3. ASSUME NEW r \in Sweep, ReadAnchor(r)
      PROVE  Continuing'
  <2>. DEFINE t == run[r].tenant
  <2>1. PICK latest \in Day :
          /\ IsLatest(latest, t)
          /\ run' = [run EXCEPT ![r].date = Advance(Anchor(t, latest)), ![r].left = MaxPerRun,
                                ![r].from = latest, ![r].blank = NoDate \in DueDates(t)]
    BY <1>3 DEF ReadAnchor
  <2>2. run[r] \in Run
    BY <1>3 DEF ReadAnchor, Held, Steps
  <2>. DEFINE date == Advance(Anchor(t, latest))
              blank == NoDate \in DueDates(t)
  <2>3. ~blank => date = Advance(latest)
    BY DEF Anchor
  <2>4. run'[r].date = date /\ run'[r].left = MaxPerRun /\ run'[r].from = latest
        /\ run'[r].blank = blank
    <3>. HIDE DEF date, blank
    <3>1. run' = [run EXCEPT ![r].date = date, ![r].left = MaxPerRun,
                             ![r].from = latest, ![r].blank = blank]
      BY <2>1 DEF date, blank
    <3>. QED
      BY <2>2, <3>1 DEF Run, TypeOK
  <2>5. \A s \in Sweep \ {r} : run'[s] = run[s] /\ pc'[s] = pc[s]
    BY <1>3, <2>1 DEF ReadAnchor, Goto, TypeOK
  <2>6. pc'[r] = "next" /\ UNCHANGED <<occurrences, recurring, disturbed>>
    BY <1>3 DEF ReadAnchor, Goto, TypeOK
  <2>. HIDE DEF date, blank
  <2>7. Continues(r)'
    BY <2>3, <2>4, <2>6 DEF Continues, OnFirst
  <2>. QED
    BY <1>1, <2>5, <2>6, <2>7, ContinuingOn
<1>4. ASSUME NEW r \in Sweep, LookUp(r)
      PROVE  Continuing'
  <2>1. run[r] \in Run
    BY <1>4 DEF LookUp, Held, Steps
  <2>2. run'[r] = [run[r] EXCEPT !.exists = Exists(run[r].tenant, run[r].date)]
        /\ \A s \in Sweep \ {r} : run'[s] = run[s] /\ pc'[s] = pc[s]
    BY <1>4 DEF LookUp, Goto, TypeOK
  <2>3. UNCHANGED <<occurrences, recurring, disturbed>> /\ pc[r] = "next"
    BY <1>4 DEF LookUp
  <2>4. /\ run'[r].tenant = run[r].tenant /\ run'[r].date = run[r].date /\ run'[r].left = run[r].left
        /\ run'[r].from = run[r].from /\ run'[r].blank = run[r].blank
        /\ run'[r].exists = Exists(run[r].tenant, run[r].date)
    BY <2>1, <2>2 DEF Run
  <2>5. r \notin disturbed => Continues(r)'
    BY <2>3, <2>4 DEF Continuing, Continues, OnFirst, Exists
  <2>. QED
    BY <1>1, <2>2, <2>3, <2>5, ContinuingOn
<1>5. ASSUME NEW r \in Sweep, Insert(r)
      PROVE  Continuing'
  <2>. DEFINE t == run[r].tenant
              new == [by |-> r, on |-> run[r].date, dueDate |-> run[r].date, edited |-> FALSE,
                      deleted |-> FALSE]
  <2>1. pc[r] = "insert" /\ NextDate(r) /\ UNCHANGED <<recurring, disturbed>>
        /\ occurrences' = [occurrences EXCEPT ![t] = @ \cup {new}]
    BY <1>5 DEF Insert
  <2>2. new.dueDate = run[r].date
    OBVIOUS
  <2>. HIDE DEF new
  <2>3. t \in Tenant
    BY <2>1, MovedOn
  <2>4. \E w \in occurrences'[t] : w.dueDate = run[r].date
    <3>1. new \in occurrences'[t]
      BY <2>1, <2>3 DEF TypeOK
    <3>. QED
      BY <2>2, <3>1
  <2>9. ASSUME NEW u \in Tenant, NEW d, Exists(u, d)
        PROVE  Exists(u, d)'
    <3>1. occurrences[u] \subseteq occurrences'[u]
      BY <2>1, <2>3 DEF TypeOK
    <3>. QED
      BY <2>9, <3>1 DEF Exists
  <2>10. Keeping
    BY <2>9 DEF Keeping
  <2>5. r \notin disturbed => Continues(r)'
    BY <2>1, <2>3, <2>4, <2>10, MovedOn DEF Continuing, Continues, OnFirst, Keeping, Exists
  <2>. QED
    BY <2>1, <2>10, <2>5, MovedOn, ContinuingOn
<1>6. ASSUME NEW r \in Sweep, SkipExisting(r)
      PROVE  Continuing'
  <2>1. pc[r] = "insert" /\ run[r].exists /\ NextDate(r)
        /\ UNCHANGED <<occurrences, recurring, disturbed>>
    BY <1>6 DEF SkipExisting
  <2>2. r \notin disturbed => Continues(r)'
    BY <1>1, <2>1, MovedOn DEF Continuing, Continues, OnFirst, Keeping
  <2>. QED
    BY <1>1, <2>1, <2>2, MovedOn, ContinuingOn
<1>7. ASSUME NEW r \in Sweep, AbortInsert(r)
      PROVE  Continuing'
  <2>1. pc[r] = "insert" /\ NextDate(r) /\ UNCHANGED <<occurrences, recurring>>
        /\ disturbed' = disturbed \cup {r}
    BY <1>7 DEF AbortInsert
  <2>. QED
    BY <1>1, <2>1, MovedOn, ContinuingOn
<1>8. ASSUME NEW r \in Sweep, Finish(r) \/ Fail(r)
      PROVE  Continuing'
  <2>1. UNCHANGED <<occurrences, recurring>> /\ disturbed' = disturbed \ {r}
        /\ pc'[r] \notin {"next", "insert"}
        /\ \A s \in Sweep \ {r} : run'[s] = run[s] /\ pc'[s] = pc[s]
    BY <1>8 DEF Finish, Fail, End, Goto, TypeOK
  <2>. QED
    BY <1>1, <2>1, ContinuingOn
<1>9. ASSUME NEW t \in Tenant, NEW w \in occurrences[t], NEW d \in EditDates, EditOccurrence(t, w, d)
      PROVE  Continuing'
  <2>1. \A u \in Tenant \ {t} : occurrences'[u] = occurrences[u]
    BY <1>9 DEF EditOccurrence, TypeOK
  <2>2. UNCHANGED <<recurring, pc, run>> /\ disturbed' = disturbed \cup {r \in InFlight : run[r].tenant = t}
    BY <1>9 DEF EditOccurrence
  <2>3. ASSUME NEW r \in Sweep, pc'[r] \in {"next", "insert"}, r \notin disturbed'
        PROVE  Continues(r)'
    <3>1. r \notin disturbed /\ run[r].tenant \in Tenant \ {t}
      BY <2>2, <2>3 DEF InFlight, Held, Steps, Run
    <3>. QED
      BY <2>1, <2>2, <2>3, <3>1 DEF Continuing, Continues, OnFirst, Exists
  <2>. QED
    BY <2>3 DEF Continuing
<1>10. ASSUME NEW t \in Tenant, NEW w \in occurrences[t], DeleteOccurrence(t, w)
       PROVE  Continuing'
  <2>. DEFINE new == [w EXCEPT !.deleted = TRUE]
  <2>1. new.dueDate = w.dueDate
    BY DEF TypeOK, Occurrence
  <2>2. occurrences' = [occurrences EXCEPT ![t] = (@ \ {w}) \cup {new}]
        /\ UNCHANGED <<recurring, pc, run, disturbed>>
    BY <1>10 DEF DeleteOccurrence
  <2>. HIDE DEF new
  <2>3. Keeping
    BY <2>1, <2>2 DEF Keeping, Exists, TypeOK
  <2>4. ASSUME NEW r \in Sweep, pc[r] \in {"next", "insert"}
        PROVE  run[r].tenant \in Tenant
    BY <2>4 DEF Held, Steps, Run
  <2>. QED
    BY <2>2, <2>3, <2>4 DEF Continuing, Continues, OnFirst, Keeping
<1>11. CASE NextDay \/ (\E t \in Tenant : StopTemplate(t)) \/ UNCHANGED vars
  <2>1. UNCHANGED <<occurrences, pc, run, disturbed>> /\ recurring' \subseteq recurring
    BY <1>11 DEF NextDay, StopTemplate, vars
  <2>. QED
    BY <2>1 DEF Continuing, Continues, OnFirst, Exists
<1>12. CASE Restart
  BY <1>12 DEF Restart, InFlight, Steps, TypeOK, Continuing
<1>. QED
  BY <1>2, <1>3, <1>4, <1>5, <1>6, <1>7, <1>8, <1>9, <1>10, <1>11, <1>12 DEF Next, Step

\* A sweep that ends has made the date that follows the latest one, if that is
\* due and the template still recurs: overlaps, deletions, restarts and a cap
\* reached cost no date, only an abort, an edited date or a null one can.
THEOREM RunsContinue == Spec => RunContinues
<1>. DEFINE Left == \A r \in Sweep : LeavesDueDate(r) => r \in disturbed \/ run[r].blank \/ MaxPerRun = 0
<1>1. ASSUME Inv, Continuing, [Next]_vars, NEW r \in Sweep, LeavesDueDate(r),
             r \notin disturbed, ~run[r].blank, MaxPerRun # 0
      PROVE  FALSE
  <2>. USE DEF Inv, Typed
  <2>1. pc[r] = "next" /\ pc'[r] = "done"
    BY <1>1 DEF LeavesDueDate
  <2>2. \A q \in Sweep : \A step : Goto(q, step) => (q = r /\ step = "done")
    BY <1>1, <2>1, OnlyGoer
  <2>3. ~UNCHANGED pc
    BY <2>1
  <2>4. \A q \in Sweep : Step(q) => Finish(r)
    BY <2>2, StepGoes
  <2>5. ~Restart
    BY <2>1 DEF Restart, InFlight
  <2>6. ASSUME NEW q \in Sweep, NEW t \in Tenant, NEW lazy \in BOOLEAN, Start(q, t, lazy) \/ Skip(q, t)
        PROVE  FALSE
    <3>1. Goto(q, "anchor") \/ Goto(q, "next") \/ Goto(q, "skipped")
      BY <2>6 DEF Start, Skip
    <3>. QED
      BY <2>2, <3>1
  <2>7. ~NextDay /\ ~UNCHANGED vars
        /\ ~\E t \in Tenant : \/ \E w \in occurrences[t] :
                                   \/ \E d \in EditDates : EditOccurrence(t, w, d)
                                   \/ DeleteOccurrence(t, w)
                              \/ StopTemplate(t)
    BY <2>3 DEF NextDay, vars, EditOccurrence, DeleteOccurrence, StopTemplate
  <2>8. ASSUME NEW q \in Sweep, NEW t \in Tenant
        PROVE  ~Skip(q, t)
    BY <2>6
  <2>9. Finish(r)
    BY <1>1, <2>4, <2>5, <2>6, <2>7, <2>8 DEF Next
  <2>10. OnFirst(r)
    BY <1>1, <2>1 DEF Continuing, Continues, LeavesDueDate
  <2>. QED
    BY <1>1, <2>9, <2>10, DateAssumption DEF Finish, Due, OnFirst, LeavesDueDate
<1>2. Init => Continuing
  BY DEF Init, Continuing
<1>3. Inv /\ Continuing /\ [Next]_vars => Left
  BY <1>1
<1>. QED
  BY Invariance, NextContinuing, <1>2, <1>3, PTL DEF Spec, RunContinues
==============================================================================
