----------------------------- MODULE OutboundHttp -----------------------------
(***************************************************************************)
(* The reliability layer under every call of a calendar provider           *)
(* (CalendarHttp) and of the Graph API (FacebookGraphClient): a circuit    *)
(* breaker and a rate limiter shared by all calls of the process, and for  *)
(* each call up to MaxAttempts requests, each with a timeout.              *)
(*                                                                         *)
(* A request that timed out may still be on its way and be carried out     *)
(* later.  Delays are not measured: a sleep ends, the cool-down passes and *)
(* a request leaves the rate window whenever they like.  FacebookGraph-    *)
(* Client differs in two points, both within these actions: it counts 429  *)
(* among the permanent answers and it never defers.                        *)
(***************************************************************************)
EXTENDS Naturals

CONSTANTS Call,          \* each call is made at most once
          MaxAttempts,   \* MAX_ATTEMPTS
          Threshold,     \* CIRCUIT_BREAKER_FAILURE_THRESHOLD
          MaxRequests    \* RATE_LIMIT_MAX_REQUESTS

ASSUME HttpAssumption ==
    MaxAttempts \in Nat \ {0} /\ Threshold \in Nat \ {0} /\ MaxRequests \in Nat

VARIABLES
    circuit,    \* CLOSED, OPEN or HALF_OPEN
    failures,   \* consecutiveFailures
    cooled,     \* the cool-down of an open circuit is over
    used,       \* calls still in the rate window
    pc,         \* where a call is, or its answer
    attempt,    \* its attempts so far
    reached,    \* the request of this attempt was carried out
    late,       \* requests given up on that may still be carried out
    done        \* how often the other side carried it out

breaker == <<circuit, failures, cooled>>
vars == <<circuit, failures, cooled, used, pc, attempt, reached, late, done>>

Init ==
    /\ circuit = "CLOSED" /\ failures = 0 /\ cooled = FALSE /\ used = 0
    /\ pc = [c \in Call |-> "idle"]
    /\ attempt = [c \in Call |-> 0]
    /\ reached = [c \in Call |-> FALSE]
    /\ late = [c \in Call |-> 0]
    /\ done = [c \in Call |-> 0]

InFlight == {c \in Call : pc[c] \in {"sending", "sleeping"}}

----------------------------------------------------------------------------
(* The circuit breaker *)

CanAttempt == circuit # "OPEN" \/ cooled

\* Mutant: a success ends the half-open state and forgets the count.
RecordSuccess_KeepsCount ==
    /\ circuit' = "CLOSED"
    /\ UNCHANGED <<failures, cooled>>

RecordSuccess ==
    /\ circuit' = "CLOSED" /\ failures' = 0
    /\ UNCHANGED cooled

RecordFailure ==
    /\ failures' = failures + 1
    /\ IF circuit = "HALF_OPEN" \/ failures' >= Threshold
       THEN circuit' = "OPEN" /\ cooled' = FALSE
       ELSE UNCHANGED <<circuit, cooled>>

----------------------------------------------------------------------------
(* A call *)

\* The next request goes out.
Send(c) ==
    /\ pc' = [pc EXCEPT ![c] = "sending"]
    /\ reached' = [reached EXCEPT ![c] = FALSE]
    /\ attempt' = [attempt EXCEPT ![c] = @ + 1]

\* The circuit is asked first: one that has cooled is half open from then on,
\* even if the limiter refuses the call that asked.
Start(c) ==
    /\ pc[c] = "idle" /\ CanAttempt
    /\ circuit' = IF circuit = "OPEN" THEN "HALF_OPEN" ELSE circuit
    /\ \/ /\ used < MaxRequests
          /\ used' = used + 1
          /\ Send(c)
       \/ /\ used >= MaxRequests
          /\ pc' = [pc EXCEPT ![c] = "error"]
          /\ UNCHANGED <<used, attempt, reached>>
    /\ UNCHANGED <<failures, cooled, late, done>>

Refuse(c) ==
    /\ pc[c] = "idle" /\ ~CanAttempt
    /\ pc' = [pc EXCEPT ![c] = "error"]
    /\ UNCHANGED <<circuit, failures, cooled, used, attempt, reached, late, done>>

\* The other side carries out the request of this attempt ...
Reach(c) ==
    /\ pc[c] = "sending" /\ ~reached[c]
    /\ reached' = [reached EXCEPT ![c] = TRUE]
    /\ done' = [done EXCEPT ![c] = @ + 1]
    /\ UNCHANGED <<circuit, failures, cooled, used, pc, attempt, late>>

\* ... or one that the caller has given up on.
ReachLate(c) ==
    /\ late[c] > 0
    /\ late' = [late EXCEPT ![c] = @ - 1]
    /\ done' = [done EXCEPT ![c] = @ + 1]
    /\ UNCHANGED <<circuit, failures, cooled, used, pc, attempt, reached>>

\* Mutant: any answer counts, an error too.
Succeeded_AnyAnswer(c) == TRUE

Succeeded(c) == reached[c]

Succeed(c) ==
    /\ pc[c] = "sending" /\ Succeeded(c)
    /\ pc' = [pc EXCEPT ![c] = "ok"]
    /\ RecordSuccess
    /\ UNCHANGED <<used, attempt, reached, late, done>>

\* A 4xx: the request was refused, and so would be the next one.
FailForGood(c) ==
    /\ pc[c] = "sending" /\ ~reached[c]
    /\ pc' = [pc EXCEPT ![c] = "error"]
    /\ RecordFailure
    /\ UNCHANGED <<used, attempt, reached, late, done>>

\* The caller gives up on a request that may still be on its way.
GiveUp(c) ==
    late' = IF reached[c] THEN late ELSE [late EXCEPT ![c] = @ + 1]

\* Mutant: without a timeout only an answer ends an attempt.
FailForNow_NoTimeout(c) ==
    /\ reached[c] /\ pc[c] = "sending"
    /\ pc' = [pc EXCEPT ![c] = IF attempt[c] < MaxAttempts THEN "sleeping" ELSE "error"]
    /\ UNCHANGED <<circuit, failures, cooled, used, attempt, reached, late, done>>

\* Mutant: one attempt too many.
FailForNow_OffByOne(c) ==
    /\ pc[c] = "sending" /\ attempt[c] <= MaxAttempts
    /\ pc' = [pc EXCEPT ![c] = "sleeping"]
    /\ GiveUp(c)
    /\ UNCHANGED <<circuit, failures, cooled, used, attempt, reached, done>>

\* A timeout, a network error, a 5xx or a 429.
FailForNow(c) ==
    /\ pc[c] = "sending"
    /\ GiveUp(c)
    /\ \/ /\ attempt[c] < MaxAttempts
          /\ pc' = [pc EXCEPT ![c] = "sleeping"]
          /\ UNCHANGED breaker
       \/ /\ attempt[c] >= MaxAttempts
          /\ pc' = [pc EXCEPT ![c] = "error"]
          /\ RecordFailure
    /\ UNCHANGED <<used, attempt, reached, done>>

\* Asked to wait longer than it may, the call leaves the loop by an exception:
\* the breaker is not told.
Defer(c) ==
    /\ pc[c] = "sending" /\ ~reached[c] /\ attempt[c] < MaxAttempts
    /\ pc' = [pc EXCEPT ![c] = "error"]
    /\ UNCHANGED <<circuit, failures, cooled, used, attempt, reached, late, done>>

Resume(c) ==
    /\ pc[c] = "sleeping"
    /\ Send(c)
    /\ UNCHANGED <<circuit, failures, cooled, used, late, done>>

----------------------------------------------------------------------------
(* The clock and the process *)

CoolDown ==
    /\ circuit = "OPEN" /\ ~cooled
    /\ cooled' = TRUE
    /\ UNCHANGED <<circuit, failures, used, pc, attempt, reached, late, done>>

LeaveWindow ==
    /\ used > 0
    /\ used' = used - 1
    /\ UNCHANGED <<circuit, failures, cooled, pc, attempt, reached, late, done>>

\* Breaker and limiter are in memory.
Restart ==
    /\ circuit' = "CLOSED" /\ failures' = 0 /\ cooled' = FALSE /\ used' = 0
    /\ pc' = [c \in Call |-> IF c \in InFlight THEN "error" ELSE pc[c]]
    /\ late' = [c \in Call |-> IF pc[c] = "sending" /\ ~reached[c] THEN late[c] + 1
                               ELSE late[c]]
    /\ UNCHANGED <<attempt, reached, done>>

Answering(c) == Succeed(c) \/ FailForGood(c) \/ FailForNow(c) \/ Defer(c) \/ Resume(c)

Next ==
    \/ \E c \in Call : Start(c) \/ Refuse(c) \/ Reach(c) \/ ReachLate(c) \/ Answering(c)
    \/ CoolDown \/ LeaveWindow \/ Restart

\* A request is aborted after ten seconds and a sleep ends: that is all a caller
\* is sure of.  Nobody has to make a call, no request has to arrive and no
\* answer has to come.
Spec == Init /\ [][Next]_vars /\ \A c \in Call : WF_vars(FailForNow(c) \/ Resume(c))

----------------------------------------------------------------------------
TypeOK ==
    /\ circuit \in {"CLOSED", "OPEN", "HALF_OPEN"}
    /\ failures \in Nat /\ cooled \in BOOLEAN /\ used \in 0 .. MaxRequests
    /\ pc \in [Call -> {"idle", "sending", "sleeping", "ok", "error"}]
    /\ attempt \in [Call -> 0 .. MaxAttempts]
    /\ reached \in [Call -> BOOLEAN]
    /\ late \in [Call -> Nat] /\ done \in [Call -> Nat]

\* Whatever the order in which calls that were admitted before and after it
\* opened come back, the circuit is closed exactly while fewer than Threshold
\* calls have failed since the last success: a late success closes it for
\* good, a late failure does not leave it half open.
BreakerConsistent == circuit = "CLOSED" <=> failures < Threshold

\* A caller that is told "ok" knows that the request was carried out, and no
\* request is carried out more often than MAX_ATTEMPTS times, late ones
\* included: the promise of OutboundCall.
Contract == INSTANCE OutboundCall WITH
    answer <- [c \in Call |-> IF pc[c] \in {"ok", "error"} THEN pc[c] ELSE "none"]

KeepsContract == Contract!CallSpec

\* Every call is answered, however the provider behaves: the loop is bounded
\* and each of its requests has a timeout.
CallEnds == \A c \in Call : c \in InFlight ~> c \notin InFlight
============================================================================
