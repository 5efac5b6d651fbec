------------------------- MODULE DependencyOrder -------------------------
(***************************************************************************)
(* What the dependency service promises its callers: one set of edges that *)
(* changes by whole, atomic additions and removals and never holds a cycle,*)
(* however many calls run at once.                                         *)
(***************************************************************************)
EXTENDS DependencyGraph

VARIABLE edges

OrderInit == edges = {}

AddEdge(e) ==
    /\ e \notin edges
    /\ Acyclic(edges \cup {e})
    /\ edges' = edges \cup {e}

RemoveEdge(e) ==
    /\ e \in edges
    /\ edges' = edges \ {e}

OrderNext == \E e \in Edge : AddEdge(e) \/ RemoveEdge(e)

OrderSpec == OrderInit /\ [][OrderNext]_edges
============================================================================
