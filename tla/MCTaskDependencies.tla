------------------------ MODULE MCTaskDependencies ------------------------
(***************************************************************************)
(* Three calls, each an addition or a removal, on three tasks: two         *)
(* additions that close a cycle together, a cycle of three, a repeated     *)
(* addition, two removals of one row, an edge removed and added again      *)
(* under a removal that holds the old id.  No graph of three edges passes  *)
(* both limits and is too large: MCDependencyBfs exceeds them.             *)
(***************************************************************************)
EXTENDS TaskDependencies, TLC

CONSTANTS t1, t2, t3, r1, r2, r3

MCTask == {t1, t2, t3}
MCRequest == {r1, r2, r3}

\* Tasks and calls are interchangeable, and every property is a safety one.
Symmetry == Permutations(MCTask) \cup Permutations(MCRequest)
============================================================================
