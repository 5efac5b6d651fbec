-------------------------- MODULE DependencyBfs --------------------------
(***************************************************************************)
(* collectTransitiveBlockers of task-dependency-graph.ts, one dequeued     *)
(* entry at a time, over every dependency graph on Task: the order of an   *)
(* adjacency list is the database's, so it is any order here.              *)
(***************************************************************************)
EXTENDS DependencyGraph, Sequences

ASSUME TaskAssumption == IsFiniteSet(Task)

VARIABLES graph,     \* the edges of the tenant, fixed
          start,     \* the task whose blockers are wanted, fixed
          queue,     \* entries <<task, depth>>
          blockers,  \* the code's blockers and visited, always equal
          outcome    \* "running", "returned" or "overflow"

bfsVars == <<graph, start, queue, blockers, outcome>>

\* A self edge is refused before it is written, a longer cycle may be there.
SimpleGraphs == SUBSET {e \in Edge : e[1] # e[2]}

\* The lists that hold each member of S once: SetToSeqs of SequencesExt, in
\* the form the proofs use.
Lists(S) == {s \in [1..Cardinality(S) -> S] :
               \A x \in S : \E i \in 1..Cardinality(S) : s[i] = x}

\* Mutant: the queue holds the bare ids.
Entries_NoDepth(s, depth) == s

Entries(s, depth) == [i \in DOMAIN s |-> <<s[i], depth>>]

BfsInit ==
    /\ graph \in SimpleGraphs
    /\ start \in Task
    /\ \E seeds \in Lists(Direct(start, graph)) : queue = Entries(seeds, 1)
    /\ blockers = Direct(start, graph)
    /\ outcome = "running"

\* Mutants: the visited test holds the start from the outset; the depth test
\* admits one level more.
Children_NotStart == Direct(Head(queue)[1], graph) \ (blockers \cup {start})
TooDeep_OffByOne == Head(queue)[2] > MaxDepth + 1

Children == Direct(Head(queue)[1], graph) \ blockers
TooDeep == Head(queue)[2] > MaxDepth

\* Children are counted as they are added: the limit is tested only there.
TooMany == Children # {} /\ Cardinality(blockers \cup Children) > MaxNodes

Overflow ==
    /\ outcome = "running" /\ queue # <<>>
    /\ TooDeep \/ TooMany
    /\ outcome' = "overflow"
    /\ UNCHANGED <<graph, start, queue, blockers>>

\* Mutant: the head of the queue is read and never shifted out.
Expand_NoShift ==
    /\ outcome = "running" /\ queue # <<>>
    /\ ~TooDeep /\ ~TooMany
    /\ \E s \in Lists(Children) :
          queue' = queue \o Entries(s, Head(queue)[2] + 1)
    /\ blockers' = blockers \cup Children
    /\ UNCHANGED <<graph, start, outcome>>

Expand ==
    /\ outcome = "running" /\ queue # <<>>
    /\ ~TooDeep /\ ~TooMany
    /\ \E s \in Lists(Children) :
          queue' = Tail(queue) \o Entries(s, Head(queue)[2] + 1)
    /\ blockers' = blockers \cup Children
    /\ UNCHANGED <<graph, start, outcome>>

Return ==
    /\ outcome = "running" /\ queue = <<>>
    /\ outcome' = "returned"
    /\ UNCHANGED <<graph, start, queue, blockers>>

BfsNext == Overflow \/ Expand \/ Return

\* The loop is synchronous code: it runs until it returns or throws.
BfsSpec == BfsInit /\ [][BfsNext]_bfsVars /\ WF_bfsVars(BfsNext)

----------------------------------------------------------------------------
BfsTypeOK ==
    /\ graph \subseteq Edge /\ start \in Task
    /\ queue \in Seq(Task \X Nat)
    /\ blockers \subseteq Task
    /\ outcome \in {"running", "returned", "overflow"}

\* The answer the cycle check relies on: the traversal returns every
\* transitive blocker and nothing else, pre-existing cycles included.
ReturnsBlockers == outcome = "returned" => blockers = TransitiveBlockers(start, graph)

\* It gives up exactly on the graphs the limits are there for, so whether a
\* dependency is refused does not depend on the order the edges come in.
OverflowExact == outcome # "running" => (outcome = "overflow" <=> Overflows(start, graph))

\* A pre-existing cycle ends the request instead of hanging it (AC 14).
Terminates == <>(outcome # "running")
============================================================================
