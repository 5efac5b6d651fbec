--------------------------- MODULE MCTimeEntries ---------------------------
(***************************************************************************)
(* Three calls of two users, over a clock of three moments: three starts   *)
(* race, or two calls of any kind race on the entry the third one made.    *)
(***************************************************************************)
EXTENDS TimeEntries, TLC

CONSTANTS ann, bob, r1, r2, r3

MCUser == {ann, bob}
MCRequest == {r1, r2, r3}
MCDuration == {1, 2}
MCMoment == {0}

\* Users and calls are interchangeable, and every property is a safety one.
Symmetry == Permutations(MCUser) \cup Permutations(MCRequest)
============================================================================
