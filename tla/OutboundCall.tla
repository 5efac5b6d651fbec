----------------------------- MODULE OutboundCall -----------------------------
(***************************************************************************)
(* What a caller may rely on when it asks another service for something:   *)
(* an answer "ok" means that it was done, any other answer means nothing,  *)
(* and it may have been done more than once, at any time, but never more   *)
(* often than there are attempts.  OutboundHttp implements this; a create  *)
(* of CalendarSync is such a call.                                         *)
(***************************************************************************)
EXTENDS Naturals

CONSTANTS Call,
          MaxAttempts   \* MAX_ATTEMPTS, a positive number

VARIABLES answer,   \* none yet, "ok" or "error"
          done      \* how often the other side has done it

callVars == <<answer, done>>

CallInit ==
    /\ answer = [c \in Call |-> "none"]
    /\ done = [c \in Call |-> 0]

\* The other side does it; nothing says that the caller is still waiting.
Do(c) ==
    /\ done[c] < MaxAttempts
    /\ done' = [done EXCEPT ![c] = @ + 1]
    /\ UNCHANGED answer

AnswerOk(c) ==
    /\ answer[c] = "none" /\ done[c] > 0
    /\ answer' = [answer EXCEPT ![c] = "ok"]
    /\ UNCHANGED done

\* Calls fail together when the process that made them stops.
AnswerError(C) ==
    /\ \A c \in C : answer[c] = "none"
    /\ answer' = [c \in Call |-> IF c \in C THEN "error" ELSE answer[c]]
    /\ UNCHANGED done

CallNext ==
    \/ \E c \in Call : Do(c) \/ AnswerOk(c)
    \/ \E C \in SUBSET Call : AnswerError(C)

CallSpec == CallInit /\ [][CallNext]_callVars
============================================================================
