------------------------ MODULE OutboundHttp_proofs ------------------------
(***************************************************************************)
(* For any number of concurrent calls and any limits: the breaker's state  *)
(* follows its count, and the layer keeps the contract of OutboundCall.    *)
(***************************************************************************)
EXTENDS OutboundHttp, TLAPS

\* A request is on its way that the caller still waits for.
Pending(c) == IF pc[c] = "sending" /\ ~reached[c] THEN 1 ELSE 0

\* Every attempt sends one request, which is carried out, on its way, or lost.
Count(c) ==
    /\ done[c] + late[c] + Pending(c) <= attempt[c]
    /\ reached[c] => done[c] > 0
    /\ pc[c] = "idle" => attempt[c] = 0
    /\ pc[c] = "sleeping" => attempt[c] < MaxAttempts

Counted == \A c \in Call : Count(c)

Inv == TypeOK /\ BreakerConsistent /\ Counted

----------------------------------------------------------------------------
LEMMA InitInv == Init => Inv
<1>. SUFFICES ASSUME Init PROVE Inv
  OBVIOUS
<1>. USE HttpAssumption DEF Init
<1>1. TypeOK
  <2>1. 0 \in 0 .. MaxRequests /\ 0 \in 0 .. MaxAttempts
    BY HttpAssumption
  <2>. QED
    BY <2>1 DEF TypeOK
<1>2. BreakerConsistent
  BY DEF BreakerConsistent
<1>3. ASSUME NEW c \in Call PROVE Count(c)
  <2>1. pc[c] = "idle" /\ attempt[c] = 0 /\ ~reached[c] /\ late[c] = 0 /\ done[c] = 0
    OBVIOUS
  <2>. QED
    BY <2>1 DEF Count, Pending
<1>. QED
  BY <1>1, <1>2, <1>3 DEF Inv, Counted

\* Both ways of recording an answer keep the breaker's state and count in step.
LEMMA RecordKeeps ==
    ASSUME TypeOK, BreakerConsistent, RecordSuccess \/ RecordFailure
    PROVE  /\ circuit' \in {"CLOSED", "OPEN", "HALF_OPEN"} /\ failures' \in Nat
           /\ cooled' \in BOOLEAN /\ BreakerConsistent'
<1>. USE HttpAssumption
<1>1. cooled' \in BOOLEAN
  BY DEF TypeOK, RecordSuccess, RecordFailure
<1>2. CASE RecordSuccess
  BY <1>1, <1>2 DEF BreakerConsistent, RecordSuccess
<1>3. CASE RecordFailure
  <2>1. failures \in Nat /\ failures' = failures + 1
    BY <1>3 DEF TypeOK, RecordFailure
  <2>2. CASE circuit = "HALF_OPEN" \/ failures' >= Threshold
    <3>1. circuit' = "OPEN"
      BY <1>3, <2>2 DEF RecordFailure
    <3>2. failures' >= Threshold
      BY <2>1, <2>2 DEF BreakerConsistent
    <3>. QED
      BY <1>1, <2>1, <3>1, <3>2 DEF BreakerConsistent
  <2>3. CASE ~(circuit = "HALF_OPEN" \/ failures' >= Threshold)
    <3>1. circuit' = circuit
      BY <1>3, <2>3 DEF RecordFailure
    <3>2. failures < Threshold /\ failures' < Threshold
      BY <2>1, <2>3
    <3>. QED
      BY <1>1, <2>1, <3>1, <3>2 DEF BreakerConsistent, TypeOK
  <2>. QED
    BY <2>2, <2>3
<1>. QED
  BY <1>2, <1>3

\* What a step must do to the call it moves, when it leaves the others alone.
LEMMA CountedKept ==
    ASSUME Counted, NEW c \in Call, Count(c)',
           \A d \in Call \ {c} : /\ pc'[d] = pc[d] /\ attempt'[d] = attempt[d]
                                 /\ reached'[d] = reached[d]
                                 /\ late'[d] = late[d] /\ done'[d] = done[d]
    PROVE  Counted'
<1>. SUFFICES ASSUME NEW d \in Call, d # c PROVE Count(d)'
  BY DEF Counted
<1>. QED
  BY DEF Counted, Count, Pending

\* An answer, an end of a sleep or an arrival moves one call and leaves the
\* window alone.
LEMMA CallStepInv ==
    ASSUME Inv, NEW c \in Call,
           Reach(c) \/ ReachLate(c) \/ Answering(c)
    PROVE  Inv'
<1>. USE HttpAssumption DEF Inv
<1>0. Count(c)
  BY DEF Counted
<1>1. CASE Reach(c)
  <2>1. TypeOK' /\ BreakerConsistent'
    BY <1>1 DEF Reach, TypeOK, BreakerConsistent
  <2>2. Count(c)'
    BY <1>0, <1>1 DEF Reach, TypeOK, Count, Pending
  <2>. QED
    BY <2>1, <2>2, CountedKept, <1>1 DEF Reach, TypeOK
<1>2. CASE ReachLate(c)
  <2>1. TypeOK' /\ BreakerConsistent'
    BY <1>2 DEF ReachLate, TypeOK, BreakerConsistent
  <2>2. Count(c)'
    BY <1>0, <1>2 DEF ReachLate, TypeOK, Count, Pending
  <2>. QED
    BY <2>1, <2>2, CountedKept, <1>2 DEF ReachLate, TypeOK
<1>3. CASE Succeed(c) \/ FailForGood(c)
  <2>1. /\ circuit' \in {"CLOSED", "OPEN", "HALF_OPEN"} /\ failures' \in Nat
        /\ cooled' \in BOOLEAN /\ BreakerConsistent'
    BY <1>3, RecordKeeps DEF Succeed, FailForGood
  <2>2. TypeOK'
    BY <1>3, <2>1 DEF Succeed, FailForGood, TypeOK
  <2>3. Count(c)'
    BY <1>0, <1>3 DEF Succeed, FailForGood, TypeOK, Count, Pending
  <2>. QED
    BY <2>1, <2>2, <2>3, CountedKept, <1>3 DEF Succeed, FailForGood, TypeOK
<1>4. CASE FailForNow(c)
  <2>1. /\ circuit' \in {"CLOSED", "OPEN", "HALF_OPEN"} /\ failures' \in Nat
        /\ cooled' \in BOOLEAN /\ BreakerConsistent'
    BY <1>4, RecordKeeps DEF FailForNow, breaker, TypeOK, BreakerConsistent
  <2>2. TypeOK'
    BY <1>4, <2>1 DEF FailForNow, GiveUp, TypeOK
  <2>3. Count(c)'
    <3>1. /\ pc[c] = "sending" /\ UNCHANGED <<attempt, reached, done>>
          /\ \/ pc'[c] = "sleeping" /\ attempt[c] < MaxAttempts
             \/ pc'[c] = "error"
      BY <1>4 DEF FailForNow, TypeOK
    <3>2. late'[c] = IF reached[c] THEN late[c] ELSE late[c] + 1
      BY <1>4 DEF FailForNow, GiveUp, TypeOK
    <3>. QED
      BY <1>0, <3>1, <3>2 DEF TypeOK, Count, Pending
  <2>. QED
    BY <2>1, <2>2, <2>3, CountedKept, <1>4 DEF FailForNow, GiveUp, TypeOK
<1>5. CASE Defer(c) \/ Resume(c)
  <2>1. UNCHANGED <<circuit, failures, cooled, used, late, done>>
    BY <1>5 DEF Defer, Resume
  <2>2. /\ pc' \in [Call -> {"idle", "sending", "sleeping", "ok", "error"}]
        /\ reached' \in [Call -> BOOLEAN]
    BY <1>5 DEF Defer, Resume, Send, TypeOK
  <2>3. attempt' \in [Call -> 0 .. MaxAttempts]
    <3>1. CASE Defer(c)
      BY <3>1 DEF Defer, TypeOK
    <3>2. CASE Resume(c)
      <4>1. attempt[c] \in 0 .. MaxAttempts /\ attempt[c] + 1 \in 0 .. MaxAttempts
        BY <1>0, <3>2 DEF Resume, TypeOK, Count
      <4>. QED
        BY <3>2, <4>1 DEF Resume, Send, TypeOK
    <3>. QED
      BY <1>5, <3>1, <3>2
  <2>4. TypeOK' /\ BreakerConsistent'
    BY <2>1, <2>2, <2>3 DEF TypeOK, BreakerConsistent
  <2>5. Count(c)'
    <3>1. CASE Defer(c)
      BY <1>0, <3>1 DEF Defer, TypeOK, Count, Pending
    <3>2. CASE Resume(c)
      BY <1>0, <3>2 DEF Resume, Send, TypeOK, Count, Pending
    <3>. QED
      BY <1>5, <3>1, <3>2
  <2>. QED
    BY <2>4, <2>5, CountedKept, <1>5 DEF Defer, Resume, Send, TypeOK
<1>. QED
  BY <1>1, <1>2, <1>3, <1>4, <1>5 DEF Answering

LEMMA StepInv == Inv /\ [Next]_vars => Inv'
<1>. SUFFICES ASSUME Inv, [Next]_vars PROVE Inv'
  OBVIOUS
<1>. USE HttpAssumption DEF Inv
<1>1. ASSUME NEW c \in Call, Start(c) \/ Refuse(c)
      PROVE  Inv'
  <2>0. Count(c)
    BY DEF Counted
  <2>1. TypeOK'
    <3>1. /\ circuit' \in {"CLOSED", "OPEN", "HALF_OPEN"}
          /\ UNCHANGED <<failures, cooled, late, done>>
      BY <1>1 DEF Start, Refuse, TypeOK
    <3>2. used' \in 0 .. MaxRequests
      BY <1>1 DEF Start, Refuse, TypeOK
    <3>3. /\ pc' \in [Call -> {"idle", "sending", "sleeping", "ok", "error"}]
          /\ reached' \in [Call -> BOOLEAN]
      BY <1>1 DEF Start, Refuse, Send, TypeOK
    <3>4. attempt' \in [Call -> 0 .. MaxAttempts]
      <4>1. attempt[c] + 1 \in 0 .. MaxAttempts
        BY <1>1, <2>0 DEF Start, Refuse, Count
      <4>. QED
        BY <1>1, <4>1 DEF Start, Refuse, Send, TypeOK
    <3>. QED
      BY <3>1, <3>2, <3>3, <3>4 DEF TypeOK
  <2>2. BreakerConsistent'
    BY <1>1 DEF Start, Refuse, BreakerConsistent
  <2>3. Count(c)'
    BY <1>1, <2>0 DEF Start, Refuse, Send, TypeOK, Count, Pending
  <2>. QED
    BY <2>1, <2>2, <2>3, CountedKept, <1>1 DEF Start, Refuse, Send, TypeOK
<1>2. ASSUME NEW c \in Call, Reach(c) \/ ReachLate(c) \/ Answering(c)
      PROVE  Inv'
  BY <1>2, CallStepInv
<1>3. CASE CoolDown \/ LeaveWindow \/ UNCHANGED vars
  <2>1. used' \in 0 .. MaxRequests /\ cooled' \in BOOLEAN
    <3>1. CASE CoolDown
      BY <3>1 DEF CoolDown, TypeOK
    <3>2. CASE LeaveWindow
      BY <3>2 DEF LeaveWindow, TypeOK
    <3>. QED
      BY <1>3, <3>1, <3>2 DEF vars, TypeOK
  <2>. TypeOK' /\ BreakerConsistent'
    <3>1. UNCHANGED <<circuit, failures, pc, attempt, reached, late, done>>
      BY <1>3 DEF CoolDown, LeaveWindow, vars
    <3>. QED
      BY <2>1, <3>1 DEF TypeOK, BreakerConsistent
  <2>2. UNCHANGED <<pc, attempt, reached, late, done>>
    BY <1>3 DEF CoolDown, LeaveWindow, vars
  <2>. QED
    BY <2>2 DEF Counted, Count, Pending
<1>4. CASE Restart
  <2>1. TypeOK' /\ BreakerConsistent'
    <3>1. /\ circuit' = "CLOSED" /\ failures' = 0 /\ cooled' = FALSE
          /\ used' = 0 /\ 0 \in 0 .. MaxRequests
          /\ UNCHANGED <<attempt, reached, done>>
      BY <1>4 DEF Restart
    <3>2. pc' \in [Call -> {"idle", "sending", "sleeping", "ok", "error"}]
      BY <1>4 DEF Restart, InFlight, TypeOK
    <3>3. late' \in [Call -> Nat]
      BY <1>4 DEF Restart, TypeOK
    <3>4. TypeOK'
      BY <3>1, <3>2, <3>3 DEF TypeOK
    <3>5. BreakerConsistent'
      BY <3>1 DEF BreakerConsistent
    <3>. QED
      BY <3>4, <3>5
  <2>2. ASSUME NEW c \in Call PROVE Count(c)'
    <3>1. /\ pc'[c] = IF pc[c] \in {"sending", "sleeping"} THEN "error" ELSE pc[c]
          /\ late'[c] = IF pc[c] = "sending" /\ ~reached[c] THEN late[c] + 1 ELSE late[c]
          /\ UNCHANGED <<attempt, reached, done>>
      BY <1>4 DEF Restart, InFlight
    <3>. QED
      BY <3>1 DEF TypeOK, Counted, Count, Pending
  <2>. QED
    BY <2>1, <2>2 DEF Counted
<1>. QED
  BY <1>1, <1>2, <1>3, <1>4 DEF Next

LEMMA Invariant == Spec => []Inv
  BY InitInv, StepInv, PTL DEF Spec

\* The state of the layer stays well typed: no call makes more attempts than
\* MAX_ATTEMPTS, and the rate window never holds more than its limit.
THEOREM TypeCorrect == Spec => []TypeOK
  BY Invariant, PTL DEF Inv

\* The circuit is closed exactly while fewer than Threshold calls have failed
\* since the last success, in whatever order concurrent calls come back.
THEOREM BreakerFollowsCount == Spec => []BreakerConsistent
  BY Invariant, PTL DEF Inv

----------------------------------------------------------------------------
(* The contract *)

\* A step of the layer is one of the contract or changes nothing there.
LEMMA StepImplements ==
    ASSUME Inv, [Next]_vars
    PROVE  [Contract!CallNext]_(Contract!callVars)
<1>. USE DEF Contract!callVars
<1>1. ASSUME NEW c \in Call, Reach(c) \/ ReachLate(c)
      PROVE  Contract!Do(c)
  <2>1. done[c] < MaxAttempts
    BY <1>1, HttpAssumption DEF Inv, TypeOK, Counted, Count, Pending, Reach, ReachLate
  <2>. QED
    BY <1>1, <2>1 DEF Reach, ReachLate, Contract!Do
<1>2. ASSUME NEW c \in Call, Succeed(c)
      PROVE  Contract!AnswerOk(c)
  BY <1>2 DEF Inv, TypeOK, Counted, Count, Succeed, Succeeded, Contract!AnswerOk
<1>3. ASSUME NEW c \in Call, pc[c] \notin {"ok", "error"},
             pc' = [pc EXCEPT ![c] = "error"], UNCHANGED done
      PROVE  Contract!AnswerError({c})
  BY <1>3 DEF Inv, TypeOK, Contract!AnswerError
<1>4. ASSUME NEW c \in Call, pc[c] \notin {"ok", "error"}, NEW s \in {"sending", "sleeping"},
             pc' = [pc EXCEPT ![c] = s], UNCHANGED done
      PROVE  UNCHANGED Contract!callVars
  BY <1>4 DEF Inv, TypeOK
<1>5. CASE Restart
  <2>1. Contract!AnswerError(InFlight)
    BY <1>5 DEF Restart, InFlight, Inv, TypeOK, Contract!AnswerError
  <2>2. InFlight \in SUBSET Call
    BY DEF InFlight
  <2>3. \E C \in SUBSET Call : Contract!AnswerError(C)
    BY <2>1, <2>2, Zenon DEF Contract!AnswerError
  <2>4. Contract!CallNext
    BY <2>3, Zenon DEF Contract!CallNext
  <2>. QED
    BY <2>4
<1>6. CASE CoolDown \/ LeaveWindow \/ UNCHANGED vars
  BY <1>6 DEF CoolDown, LeaveWindow, vars
<1>7. ASSUME NEW c \in Call, Start(c) \/ Refuse(c) \/ FailForGood(c) \/ FailForNow(c) \/ Defer(c) \/ Resume(c)
      PROVE  [Contract!CallNext]_(Contract!callVars)
  <2>1. pc[c] \notin {"ok", "error"} /\ UNCHANGED done
    BY <1>7 DEF Start, Refuse, FailForGood, FailForNow, Defer, Resume
  <2>2. \E s \in {"error", "sending", "sleeping"} : pc' = [pc EXCEPT ![c] = s]
    BY <1>7 DEF Start, Refuse, FailForGood, FailForNow, Defer, Resume, Send
  <2>3. CASE pc' = [pc EXCEPT ![c] = "error"]
    BY <1>3, <2>1, <2>3 DEF Contract!CallNext
  <2>4. CASE pc' # [pc EXCEPT ![c] = "error"]
    BY <1>4, <2>1, <2>2, <2>4
  <2>. QED
    BY <2>3, <2>4
<1>. QED
  BY <1>1, <1>2, <1>5, <1>6, <1>7 DEF Next, Answering, Contract!CallNext

\* A caller that is told "ok" knows that its request was carried out, and none
\* is carried out more often than MAX_ATTEMPTS times, late ones included.
THEOREM Implements == Spec => KeepsContract
<1>1. Init => Contract!CallInit
  BY DEF Init, Contract!CallInit
<1>2. Inv /\ [Next]_vars => [Contract!CallNext]_(Contract!callVars)
  BY StepImplements
<1>. QED
  BY <1>1, <1>2, Invariant, PTL DEF Spec, KeepsContract, Contract!CallSpec
=============================================================================
