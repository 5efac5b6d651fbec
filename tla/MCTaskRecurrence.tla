-------------------------- MODULE MCTaskRecurrence --------------------------
(***************************************************************************)
(* A daily template due on day 0 and recurring up to day 3.  A run makes   *)
(* two occurrences at most, so that a template left alone for three days   *)
(* needs two runs.                                                         *)
(***************************************************************************)
EXTENDS TaskRecurrence, TLC

CONSTANTS acme, s1, s2

MCAdvance(d) == d + 1

\* An occurrence is moved back, or loses its date.
MCEditDates == {1, NoDate}

OneTenant == {acme}
TwoSweeps == {s1, s2}

\* Sweeps are interchangeable, and every property is a safety one.
Symmetry == Permutations(TwoSweeps)
============================================================================
