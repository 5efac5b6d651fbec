------------------------- MODULE MCDependencyBfs -------------------------
(***************************************************************************)
(* Every simple graph on four tasks, from every task, with limits small    *)
(* enough to be exceeded by a chain (MaxDepth) and by a wide or cyclic     *)
(* graph (MaxNodes).                                                       *)
(***************************************************************************)
EXTENDS DependencyBfs, TLC

CONSTANTS t1, t2, t3, t4

MCTask == {t1, t2, t3, t4}

\* Sound for the invariants; Terminates is checked without it.
Symmetry == Permutations(MCTask)
============================================================================
