--------------------------- MODULE MCCalendarSync ---------------------------
(***************************************************************************)
(* Two users, three jobs: the first one creates the task.                  *)
(***************************************************************************)
EXTENDS CalendarSync, TLC

CONSTANTS ann, bob, j1, j2, j3, d1, d2, e1, e2

MCUser == {ann, bob}
MCJob == {j1, j2, j3}
MCDue == {d1, d2}
MCEvent == {e1, e2}

\* Every operation; the task begins with ann.
MCOps ==
    {<<"create", d1, TRUE, ann>>,
     <<"update", d2, Same, Same>>, <<"update", NoDue, Same, Same>>,
     <<"update", Same, Same, bob>>,
     <<"assign", Same, Same, bob>>,
     <<"complete", Same, FALSE, Same>>, <<"delete", Same, Same, Same>>,
     <<"sync", Same, Same, Same>>, <<"pull", Same, Same, Same>>,
     <<"disconnect", Same, Same, Same>>}

\* What can push; the job left over might be the retry.
MCRetryOps == {<<"create", d1, TRUE, ann>>, <<"update", d2, Same, Same>>, <<"sync", Same, Same, Same>>}

\* Every property but the type speaks of users whose jobs did not race: there
\* is nothing to see beyond a state in which both users' jobs did.
Unraced == raced # MCUser

\* Jobs and events are interchangeable, and every property is a safety one.
Symmetry == Permutations(MCJob) \cup Permutations(MCEvent)
============================================================================
