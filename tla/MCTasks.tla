------------------------------ MODULE MCTasks ------------------------------
(***************************************************************************)
(* Two tasks, of which one can block the other, and two users: boss sees   *)
(* all tasks, rep only its own.                                            *)
(***************************************************************************)
EXTENDS Tasks, TLC

CONSTANTS t1, t2, boss, rep, r1, r2, r3

MCTask == {t1, t2}
MCUser == {boss, rep}
MCSees == {<<boss, boss>>, <<boss, rep>>, <<rep, rep>>}
MCRequest == {r1, r2, r3}

\* Every operation, every status, both assignees.
MCInputs ==
    {<<"create", "open", rep>>, <<"create", "COMPLETED", boss>>}
    \cup {"update"} \X Status \X {Same}
    \cup {<<"update", Same, rep>>, <<"update", Same, boss>>, <<"assign", Same, rep>>}
    \cup {"complete", "delete"} \X {Same} \X {Same}

\* Tasks and calls are interchangeable, and every property is a safety one.
Symmetry == Permutations(MCTask) \cup Permutations(MCRequest)
============================================================================
