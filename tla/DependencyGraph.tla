------------------------- MODULE DependencyGraph -------------------------
(***************************************************************************)
(* The pure dependency-graph questions of task-dependency-graph.ts.        *)
(* An edge <<t, d>> says that task t is blocked by task d.  The traversal  *)
(* the code uses to answer them is a state machine of its own,             *)
(* DependencyBfs; here each answer is defined, not computed.               *)
(***************************************************************************)
EXTENDS Naturals, FiniteSets

CONSTANTS Task, MaxNodes, MaxDepth

ASSUME LimitsAssumption == MaxNodes \in Nat /\ MaxDepth \in Nat

Edge == Task \X Task

\* The direct blockers of t: the adjacency list of t.
Direct(t, E) == {d \in Task : <<t, d>> \in E}

\* S is closed when no edge of E leaves it.
Closed(S, E) == \A t \in S : Direct(t, E) \subseteq S

\* Every task that transitively blocks t: the least closed set that holds
\* the direct blockers of t.
TransitiveBlockers(t, E) ==
    {x \in Task : \A S \in SUBSET Task :
                    Direct(t, E) \subseteq S /\ Closed(S, E) => x \in S}

\* The blockers of t at most n edges away from it.
Within(t, E, n) ==
    {x \in Task : \E k \in 1..n : \E walk \in [0..k -> Task] :
        /\ walk[0] = t /\ walk[k] = x
        /\ \A i \in 1..k : <<walk[i - 1], walk[i]>> \in E}

\* The traversal from t gives up: it finds a blocker more than MaxDepth edges
\* away, or it counts more than MaxNodes.  Only a blocker that is not a
\* direct one is counted against MaxNodes as it is added.
Overflows(t, E) ==
    \/ ~(TransitiveBlockers(t, E) \subseteq Within(t, E, MaxDepth))
    \/ /\ Cardinality(TransitiveBlockers(t, E)) > MaxNodes
       /\ TransitiveBlockers(t, E) # Direct(t, E)

\* Adding <<t, d>> to E would close a cycle.
WouldCreateCycle(t, d, E) == t = d \/ t \in TransitiveBlockers(d, E)

----------------------------------------------------------------------------
\* What the graph must be: every nonempty set of tasks has a member that no
\* other member (nor itself) blocks.
Acyclic(E) ==
    \A S \in SUBSET Task : S # {} => \E t \in S : Direct(t, E) \cap S = {}
============================================================================
