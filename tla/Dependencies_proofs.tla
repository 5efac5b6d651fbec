------------------------ MODULE Dependencies_proofs ------------------------
(***************************************************************************)
(* The task dependencies, for every set of tasks and of calls: what the    *)
(* cycle check decides; that the search computes it and gives up exactly   *)
(* where it should, on every finite graph in every order of its edges; and *)
(* that with it the dependency table stays acyclic and free of duplicates, *)
(* a row is removed once, and the service implements DependencyOrder.      *)
(***************************************************************************)
EXTENDS TaskDependencies, DependencyBfs, TLAPS, FiniteSetTheorems

----------------------------------------------------------------------------
(* DependencyGraph: the questions *)

\* The transitive blockers hold the direct ones and no edge leaves them.
LEMMA BlockersClosed ==
    ASSUME NEW E \in SUBSET Edge, NEW t \in Task
    PROVE  /\ TransitiveBlockers(t, E) \subseteq Task
           /\ Direct(t, E) \subseteq TransitiveBlockers(t, E)
           /\ Closed(TransitiveBlockers(t, E), E)
<1>1. TransitiveBlockers(t, E) \subseteq Task
  BY DEF TransitiveBlockers
<1>2. Direct(t, E) \subseteq TransitiveBlockers(t, E)
  BY DEF TransitiveBlockers, Direct
<1>3. ASSUME NEW x \in TransitiveBlockers(t, E), NEW y \in Direct(x, E)
      PROVE  y \in TransitiveBlockers(t, E)
  <2>1. y \in Task
    BY <1>3 DEF Direct
  <2>2. SUFFICES ASSUME NEW S \in SUBSET Task, Direct(t, E) \subseteq S, Closed(S, E)
                 PROVE  y \in S
    BY <2>1 DEF TransitiveBlockers
  <2>3. x \in S
    BY <2>2, <1>3 DEF TransitiveBlockers
  <2>. QED
    BY <2>2, <2>3, <1>3 DEF Closed
<1>. QED
  BY <1>1, <1>2, <1>3 DEF Closed

\* They are the least such set.
LEMMA BlockersLeast ==
    ASSUME NEW E \in SUBSET Edge, NEW t \in Task, NEW S \in SUBSET Task,
           Direct(t, E) \subseteq S, Closed(S, E)
    PROVE  TransitiveBlockers(t, E) \subseteq S
  BY DEF TransitiveBlockers

\* More edges, more blockers: an edge that passes the check against a set of
\* edges passes it against every part of that set.
LEMMA CheckMonotone ==
    ASSUME NEW E \in SUBSET Edge, NEW F \in SUBSET E, NEW t \in Task, NEW d \in Task,
           ~WouldCreateCycle(t, d, E)
    PROVE  ~WouldCreateCycle(t, d, F)
<1>. DEFINE B == TransitiveBlockers(d, E)
<1>1. B \in SUBSET Task /\ Direct(d, E) \subseteq B /\ Closed(B, E)
  BY BlockersClosed
<1>2. F \in SUBSET Edge /\ Direct(d, F) \subseteq B /\ Closed(B, F)
  BY <1>1 DEF Closed, Direct
<1>3. TransitiveBlockers(d, F) \subseteq B
  BY <1>1, <1>2, BlockersLeast
<1>. QED
  BY <1>3 DEF WouldCreateCycle

\* A part of an acyclic set of edges is acyclic: a removal closes no cycle.
LEMMA PartAcyclic ==
    ASSUME NEW E, NEW F \in SUBSET E, Acyclic(E)
    PROVE  Acyclic(F)
<1>. SUFFICES ASSUME NEW S \in SUBSET Task, S # {}
              PROVE  \E x \in S : Direct(x, F) \cap S = {}
  BY DEF Acyclic
<1>1. PICK x \in S : Direct(x, E) \cap S = {}
  BY DEF Acyclic
<1>. QED
  BY <1>1 DEF Direct

\* The check is sound: an edge that passes it closes no cycle.
LEMMA CheckSound ==
    ASSUME NEW E \in SUBSET Edge, NEW t \in Task, NEW d \in Task,
           Acyclic(E), ~WouldCreateCycle(t, d, E)
    PROVE  Acyclic(E \cup {<<t, d>>})
<1>. DEFINE B == {d} \cup TransitiveBlockers(d, E)
            F == E \cup {<<t, d>>}
<1>1. t \notin B /\ B \subseteq Task
  BY BlockersClosed DEF WouldCreateCycle
<1>2. \A x \in B : Direct(x, E) \subseteq B
  BY BlockersClosed DEF Closed
<1>3. \A x \in Task : x # t => Direct(x, F) = Direct(x, E)
  BY DEF Direct
<1>4. Direct(t, F) = Direct(t, E) \cup {d}
  BY DEF Direct
<1>. SUFFICES ASSUME NEW S \in SUBSET Task, S # {}
              PROVE  \E x \in S : Direct(x, F) \cap S = {}
  BY DEF Acyclic
<1>5. CASE d \in S
  <2>1. PICK x \in S \cap B : Direct(x, E) \cap (S \cap B) = {}
    BY <1>5 DEF Acyclic
  <2>2. Direct(x, F) = Direct(x, E)
    BY <1>1, <1>3, <2>1
  <2>. QED
    BY <1>2, <2>1, <2>2
<1>6. CASE d \notin S
  <2>1. PICK x \in S : Direct(x, E) \cap S = {}
    BY DEF Acyclic
  <2>. QED
    BY <1>3, <1>4, <1>6, <2>1
<1>. QED
  BY <1>5, <1>6

\* A blocker is a direct one or blocks one of the direct ones.
LEMMA BlockersUnfold ==
    ASSUME NEW E \in SUBSET Edge, NEW x \in Task, NEW y \in TransitiveBlockers(x, E)
    PROVE  \E z \in Direct(x, E) : y = z \/ y \in TransitiveBlockers(z, E)
<1>. DEFINE S == {u \in Task : \E z \in Direct(x, E) : u = z \/ u \in TransitiveBlockers(z, E)}
<1>1. Direct(x, E) \subseteq S
  BY DEF Direct
<1>2. ASSUME NEW u \in S, NEW v \in Direct(u, E)
      PROVE  v \in S
  <2>1. PICK z \in Direct(x, E) : u = z \/ u \in TransitiveBlockers(z, E)
    BY <1>2
  <2>2. z \in Task /\ v \in Task
    BY <1>2 DEF Direct
  <2>3. v \in TransitiveBlockers(z, E)
    BY <1>2, <2>1, <2>2, BlockersClosed DEF Closed
  <2>. QED
    BY <2>2, <2>3
<1>3. Closed(S, E)
  BY <1>2 DEF Closed
<1>4. TransitiveBlockers(x, E) \subseteq S
  <2>. HIDE DEF S
  <2>1. S \in SUBSET Task
    BY DEF S
  <2>. QED
    BY <1>1, <1>3, <2>1, BlockersLeast
<1>. QED
  BY <1>4

\* The check is complete: an edge that fails it closes a cycle, so no caller
\* is refused an edge the order could take.
LEMMA CheckComplete ==
    ASSUME NEW E \in SUBSET Edge, NEW t \in Task, NEW d \in Task,
           WouldCreateCycle(t, d, E)
    PROVE  ~Acyclic(E \cup {<<t, d>>})
<1>. DEFINE F == E \cup {<<t, d>>}
            S == {x \in Task : x = t \/ t \in TransitiveBlockers(x, E)}
<1>1. d \in S /\ t \in S
  BY DEF WouldCreateCycle
<1>2. ASSUME NEW x \in S
      PROVE  Direct(x, F) \cap S # {}
  <2>1. CASE x = t
    BY <1>1, <2>1 DEF Direct
  <2>2. CASE x # t
    <3>1. PICK z \in Direct(x, E) : t = z \/ t \in TransitiveBlockers(z, E)
      BY <1>2, <2>2, BlockersUnfold
    <3>2. z \in Task /\ z \in Direct(x, F)
      BY <3>1 DEF Direct
    <3>. QED
      BY <3>1, <3>2
  <2>. QED
    BY <2>1, <2>2
<1>. QED
  BY <1>1, <1>2 DEF Acyclic

\* wouldCreateCycle answers its question exactly: on acyclic edges it refuses
\* an edge if and only if adding it would close a cycle.
THEOREM CycleCheckExact ==
    ASSUME NEW E \in SUBSET Edge, NEW t \in Task, NEW d \in Task, Acyclic(E)
    PROVE  WouldCreateCycle(t, d, E) <=> ~Acyclic(E \cup {<<t, d>>})
  BY CheckSound, CheckComplete

----------------------------------------------------------------------------
(* DependencyBfs: the search *)

\* The tasks in the queue.
Queued == {queue[i][1] : i \in DOMAIN queue}

\* What has been found is right, and what it leads to is found or queued.
BfsInv ==
    /\ BfsTypeOK
    /\ Direct(start, graph) \subseteq blockers
    /\ blockers \subseteq TransitiveBlockers(start, graph)
    /\ Queued \subseteq blockers
    /\ \A b \in blockers \ Queued : Direct(b, graph) \subseteq blockers
    /\ outcome = "returned" => queue = <<>>

\* A list of a finite set is a sequence that holds it.
LEMMA ListIsSequence ==
    ASSUME NEW S \in SUBSET Task, NEW s \in Lists(S), NEW depth \in Nat
    PROVE  /\ s \in Seq(S)
           /\ Entries(s, depth) \in Seq(Task \X Nat)
           /\ Len(Entries(s, depth)) = Len(s)
           /\ \A i \in 1..Len(s) : Entries(s, depth)[i] = <<s[i], depth>>
           /\ \A x \in S : \E i \in 1..Len(s) : s[i] = x
<1>1. Cardinality(S) \in Nat
  BY TaskAssumption, FS_Subset, FS_CardinalityType
<1>2. s \in [1..Cardinality(S) -> S]
  BY DEF Lists
<1>3. s \in Seq(S) /\ Len(s) = Cardinality(S)
  BY <1>1, <1>2
<1>4. Entries(s, depth) \in [1..Len(s) -> Task \X Nat]
  BY <1>2, <1>3 DEF Entries
<1>5. Entries(s, depth) \in Seq(Task \X Nat) /\ Len(Entries(s, depth)) = Len(s)
  BY <1>3, <1>4
<1>. QED
  BY <1>2, <1>3, <1>5 DEF Lists, Entries

\* Where the entries of a queue are once its head is gone and others joined.
LEMMA TailAppend ==
    ASSUME NEW T, NEW q \in Seq(T), q # <<>>, NEW m \in Seq(T)
    PROVE  /\ Tail(q) \o m \in Seq(T)
           /\ Len(q) - 1 \in Nat /\ Len(m) \in Nat
           /\ Len(Tail(q) \o m) = (Len(q) - 1) + Len(m)
           /\ DOMAIN (Tail(q) \o m) = 1..((Len(q) - 1) + Len(m))
           /\ \A i \in 1..(Len(q) - 1) : (Tail(q) \o m)[i] = q[i + 1]
           /\ \A i \in 1..Len(m) : (Tail(q) \o m)[(Len(q) - 1) + i] = m[i]
<1>1. Len(q) \in Nat \ {0} /\ Len(m) \in Nat
  OBVIOUS
<1>2. /\ Tail(q) \in Seq(T) /\ Len(Tail(q)) = Len(q) - 1
      /\ \A i \in 1..(Len(q) - 1) : Tail(q)[i] = q[i + 1]
  BY <1>1
<1>3. /\ Tail(q) \o m \in Seq(T)
      /\ Len(Tail(q) \o m) = Len(Tail(q)) + Len(m)
  BY <1>2
<1>4. \A i \in 1..Len(Tail(q)) : (Tail(q) \o m)[i] = Tail(q)[i]
  BY <1>2
<1>5. \A i \in 1..Len(m) : (Tail(q) \o m)[Len(Tail(q)) + i] = m[i]
  BY <1>1, <1>2
<1>. QED
  BY <1>1, <1>2, <1>3, <1>4, <1>5

\* The queue at first: the direct blockers, one edge away.
LEMMA SeedsQueued ==
    ASSUME BfsInit
    PROVE  /\ queue \in Seq(Task \X Nat)
           /\ \A i \in DOMAIN queue : queue[i][1] \in Direct(start, graph) /\ queue[i][2] = 1
           /\ Queued = Direct(start, graph)
<1>. DEFINE D == Direct(start, graph)
<1>1. graph \in SUBSET Edge /\ start \in Task /\ D \in SUBSET Task
  BY DEF BfsInit, SimpleGraphs, Direct
<1>2. PICK seeds \in Lists(D) : queue = Entries(seeds, 1)
  BY DEF BfsInit
<1>3. /\ seeds \in Seq(D) /\ queue \in Seq(Task \X Nat) /\ Len(queue) = Len(seeds)
      /\ \A i \in 1..Len(seeds) : queue[i] = <<seeds[i], 1>>
      /\ \A x \in D : \E i \in 1..Len(seeds) : seeds[i] = x
  BY <1>1, <1>2, ListIsSequence
<1>4. DOMAIN queue = 1..Len(seeds)
  BY <1>3
<1>5. \A i \in 1..Len(seeds) : seeds[i] \in D
  BY <1>3
<1>6. \A i \in DOMAIN queue : queue[i][1] = seeds[i]
  BY <1>3, <1>4
<1>7. \A i \in DOMAIN queue : queue[i][2] = 1
  BY <1>3, <1>4
<1>8. Queued = D
  BY <1>3, <1>4, <1>5, <1>6 DEF Queued
<1>. QED
  BY <1>3, <1>4, <1>5, <1>6, <1>7, <1>8

\* The direct blockers satisfy it.
LEMMA BfsInitInductive == BfsInit => BfsInv
<1>. SUFFICES ASSUME BfsInit
              PROVE  BfsInv
  OBVIOUS
<1>1. graph \in SUBSET Edge /\ start \in Task /\ Direct(start, graph) \in SUBSET Task
  BY DEF BfsInit, SimpleGraphs, Direct
<1>2. Direct(start, graph) \subseteq TransitiveBlockers(start, graph)
  BY <1>1, BlockersClosed
<1>3. BfsTypeOK
  BY <1>1, SeedsQueued DEF BfsInit, BfsTypeOK
<1>. QED
  BY <1>2, <1>3, SeedsQueued DEF BfsInv, BfsInit

\* The queue after a step of the loop: what was behind the head, then its
\* children, one edge further away than it is.
LEMMA ExpandQueue ==
    ASSUME BfsInv, Expand
    PROVE  \E n, k \in Nat :
             /\ queue' \in Seq(Task \X Nat)
             /\ DOMAIN queue = 1..(n + 1) /\ DOMAIN queue' = 1..(n + k)
             /\ Head(queue) = queue[1] /\ queue[1] \in Task \X Nat
             /\ \A i \in 1..n : queue'[i] = queue[i + 1]
             /\ \A i \in 1..k : /\ queue'[n + i][1] \in Children
                                /\ queue'[n + i][2] = queue[1][2] + 1
             /\ \A c \in Children : \E i \in 1..k : queue'[n + i][1] = c
<1>. DEFINE depth == Head(queue)[2]
<1>1. queue \in Seq(Task \X Nat) /\ queue # <<>> /\ blockers \subseteq Task
  BY DEF BfsInv, BfsTypeOK, Expand
<1>2. Len(queue) \in Nat \ {0} /\ Head(queue) = queue[1] /\ queue[1] \in Task \X Nat
  BY <1>1
<1>3. depth + 1 \in Nat /\ Children \in SUBSET Task
  BY <1>2 DEF Children, Direct
<1>4. PICK s \in Lists(Children) : queue' = Tail(queue) \o Entries(s, depth + 1)
  BY DEF Expand
<1>. DEFINE n == Len(queue) - 1
            k == Len(s)
            new == Entries(s, depth + 1)
<1>5. s \in Seq(Children) /\ \A x \in Children : \E i \in 1..k : s[i] = x
  BY <1>3, <1>4, ListIsSequence
<1>6. new \in Seq(Task \X Nat) /\ Len(new) = k /\ \A i \in 1..k : new[i] = <<s[i], depth + 1>>
  BY <1>3, <1>4, ListIsSequence
<1>7. queue' = Tail(queue) \o new
  BY <1>4
<1>8. DOMAIN queue = 1..(n + 1) /\ n \in Nat
  BY <1>1, <1>2
<1>9. k \in Nat /\ \A i \in 1..k : s[i] \in Children
  BY <1>5
<1>. HIDE DEF new
<1>10. /\ queue' \in Seq(Task \X Nat) /\ DOMAIN queue' = 1..(n + k)
       /\ \A i \in 1..n : queue'[i] = queue[i + 1]
       /\ \A i \in 1..k : queue'[n + i] = <<s[i], depth + 1>>
  BY <1>1, <1>6, <1>7, <1>8, TailAppend
<1>11. \A i \in 1..k : queue'[n + i][1] = s[i]
  BY <1>10
<1>12. \A i \in 1..k : queue'[n + i][2] = queue[1][2] + 1
  BY <1>2, <1>10
<1>. HIDE DEF n, k
<1>13. \A i \in 1..k : queue'[n + i][1] \in Children /\ queue'[n + i][2] = queue[1][2] + 1
  BY <1>9, <1>11, <1>12
<1>14. \A c \in Children : \E i \in 1..k : queue'[n + i][1] = c
  BY <1>5, <1>11
<1>15. n \in Nat /\ k \in Nat
  BY <1>8, <1>9
<1>. USE <1>15
<1>. WITNESS n \in Nat, k \in Nat
<1>. QED
  BY <1>2, <1>8, <1>10, <1>13, <1>14

\* So the children are queued, and whoever is not the head still is.
LEMMA ExpandQueued ==
    ASSUME BfsInv, Expand
    PROVE  /\ Queued' \subseteq Queued \cup Children
           /\ Children \subseteq Queued'
           /\ Head(queue)[1] \in Queued
           /\ Queued \ {Head(queue)[1]} \subseteq Queued'
<1>1. PICK n \in Nat, k \in Nat :
         /\ DOMAIN queue = 1..(n + 1) /\ DOMAIN queue' = 1..(n + k)
         /\ Head(queue) = queue[1]
         /\ \A i \in 1..n : queue'[i] = queue[i + 1]
         /\ \A i \in 1..k : queue'[n + i][1] \in Children
         /\ \A c \in Children : \E i \in 1..k : queue'[n + i][1] = c
  BY ExpandQueue
<1>2. ASSUME NEW i \in 1..(n + k)
      PROVE  queue'[i][1] \in Queued \cup Children
  <2>1. CASE i \in 1..n
    <3>1. queue'[i] = queue[i + 1] /\ i + 1 \in DOMAIN queue
      BY <2>1, <1>1
    <3>. QED
      BY <3>1 DEF Queued
  <2>2. CASE i \notin 1..n
    <3>1. i - n \in 1..k /\ n + (i - n) = i
      BY <2>2
    <3>. QED
      BY <3>1, <1>1
  <2>. QED
    BY <2>1, <2>2
<1>3. ASSUME NEW c \in Children
      PROVE  c \in Queued'
  <2>1. PICK i \in 1..k : queue'[n + i][1] = c
    BY <1>1
  <2>2. n + i \in DOMAIN queue'
    BY <1>1
  <2>. QED
    BY <2>1, <2>2 DEF Queued
<1>4. ASSUME NEW i \in DOMAIN queue, queue[i][1] # Head(queue)[1]
      PROVE  queue[i][1] \in Queued'
  <2>1. i \in 1..(n + 1) /\ i # 1
    BY <1>1, <1>4
  <2>2. i - 1 \in 1..n /\ (i - 1) + 1 = i
    BY <2>1
  <2>3. i - 1 \in DOMAIN queue' /\ queue'[i - 1] = queue[i]
    BY <2>2, <1>1
  <2>. QED
    BY <2>3 DEF Queued
<1>5. Head(queue)[1] \in Queued
  <2>1. 1 \in DOMAIN queue
    BY <1>1
  <2>. QED
    BY <1>1, <2>1 DEF Queued
<1>6. Queued' \subseteq Queued \cup Children
  BY <1>1, <1>2 DEF Queued
<1>7. Queued \ {Head(queue)[1]} \subseteq Queued'
  BY <1>4 DEF Queued
<1>. QED
  BY <1>3, <1>5, <1>6, <1>7

\* A step of the loop keeps the invariant.
LEMMA ExpandInductive ==
    ASSUME BfsInv, Expand
    PROVE  BfsInv'
<1>. DEFINE h == Head(queue)[1]
<1>1. /\ blockers \subseteq Task /\ graph \in SUBSET Edge /\ start \in Task
      /\ UNCHANGED <<graph, start, outcome>> /\ outcome = "running"
      /\ blockers' = blockers \cup Children
  BY DEF BfsInv, BfsTypeOK, Expand
<1>2. Children \in SUBSET Task /\ Direct(h, graph) \subseteq blockers'
  BY <1>1 DEF Children, Direct
<1>3. Queued' \subseteq blockers'
  BY <1>1, ExpandQueued DEF BfsInv
<1>4. \A b \in blockers' \ Queued' : Direct(b, graph) \subseteq blockers'
  <2>. SUFFICES ASSUME NEW b \in blockers' \ Queued'
                PROVE  Direct(b, graph) \subseteq blockers'
    OBVIOUS
  <2>1. b \in blockers /\ (b = h \/ b \notin Queued)
    BY <1>1, ExpandQueued
  <2>. QED
    BY <2>1, <1>1, <1>2 DEF BfsInv
<1>5. blockers' \subseteq TransitiveBlockers(start, graph)
  <2>1. h \in TransitiveBlockers(start, graph)
    BY ExpandQueued DEF BfsInv
  <2>2. Direct(h, graph) \subseteq TransitiveBlockers(start, graph)
    BY <2>1, <1>1, BlockersClosed DEF Closed
  <2>. QED
    BY <2>2, <1>1 DEF BfsInv, Children
<1>6. BfsTypeOK'
  BY <1>1, <1>2, ExpandQueue DEF BfsTypeOK
<1>. QED
  BY <1>1, <1>3, <1>4, <1>5, <1>6 DEF BfsInv

\* So does every step of the search.
LEMMA BfsNextInductive == BfsInv /\ [BfsNext]_bfsVars => BfsInv'
<1>1. ASSUME BfsInv, Overflow
      PROVE  BfsInv'
  BY <1>1 DEF Overflow, BfsInv, BfsTypeOK, Queued
<1>2. ASSUME BfsInv, Return
      PROVE  BfsInv'
  BY <1>2 DEF Return, BfsInv, BfsTypeOK, Queued
<1>3. ASSUME BfsInv, UNCHANGED bfsVars
      PROVE  BfsInv'
  BY <1>3 DEF bfsVars, BfsInv, BfsTypeOK, Queued
<1>. QED
  BY <1>1, <1>2, <1>3, ExpandInductive DEF BfsNext

\* An empty queue leaves nothing unexplored: what was found is closed.
LEMMA ReturnedIsExact == BfsInv => ReturnsBlockers
<1>. SUFFICES ASSUME BfsInv, outcome = "returned"
              PROVE  blockers = TransitiveBlockers(start, graph)
  BY DEF ReturnsBlockers
<1>1. Queued = {}
  BY DEF BfsInv, Queued
<1>2. Closed(blockers, graph)
  BY <1>1 DEF BfsInv, Closed
<1>3. graph \in SUBSET Edge /\ start \in Task /\ blockers \in SUBSET Task
  BY DEF BfsInv, BfsTypeOK
<1>4. TransitiveBlockers(start, graph) \subseteq blockers
  BY <1>2, <1>3, BlockersLeast DEF BfsInv
<1>. QED
  BY <1>4 DEF BfsInv

----------------------------------------------------------------------------
(* The limits of the search *)

\* Nothing is less than one edge away.
LEMMA WithinNone ==
    ASSUME NEW E \in SUBSET Edge, NEW t \in Task
    PROVE  Within(t, E, 0) = {}
  BY DEF Within

\* What is near is not far.
LEMMA WithinGrows ==
    ASSUME NEW E \in SUBSET Edge, NEW t \in Task, NEW m \in Nat, NEW n \in Nat, m <= n
    PROVE  Within(t, E, m) \subseteq Within(t, E, n)
<1>1. \A k \in 1..m : k \in 1..n
  OBVIOUS
<1>. QED
  BY <1>1 DEF Within

\* A direct blocker is one edge away.
LEMMA WithinDirect ==
    ASSUME NEW E \in SUBSET Edge, NEW t \in Task, NEW x \in Direct(t, E)
    PROVE  x \in Within(t, E, 1)
<1>. DEFINE walk == [i \in 0..1 |-> IF i = 0 THEN t ELSE x]
<1>1. x \in Task /\ <<t, x>> \in E
  BY DEF Direct
<1>2. walk \in [0..1 -> Task] /\ walk[0] = t /\ walk[1] = x
  BY <1>1
<1>3. \A i \in 1..1 : <<walk[i - 1], walk[i]>> \in E
  BY <1>1, <1>2
<1>. HIDE DEF walk
<1>. QED
  BY <1>1, <1>2, <1>3 DEF Within

\* A direct blocker of a blocker is one edge further away.
LEMMA WithinFurther ==
    ASSUME NEW E \in SUBSET Edge, NEW t \in Task, NEW n \in Nat,
           NEW y \in Within(t, E, n), NEW x \in Direct(y, E)
    PROVE  x \in Within(t, E, n + 1)
<1>0. PICK k \in 1..n : \E walk \in [0..k -> Task] :
        /\ walk[0] = t /\ walk[k] = y
        /\ \A i \in 1..k : <<walk[i - 1], walk[i]>> \in E
  BY DEF Within
<1>1. PICK walk \in [0..k -> Task] :
        /\ walk[0] = t /\ walk[k] = y
        /\ \A i \in 1..k : <<walk[i - 1], walk[i]>> \in E
  BY <1>0
<1>. DEFINE longer == [i \in 0..(k + 1) |-> IF i <= k THEN walk[i] ELSE x]
<1>2. x \in Task /\ <<y, x>> \in E /\ k + 1 \in 1..(n + 1)
  BY DEF Direct
<1>3. longer \in [0..(k + 1) -> Task]
  <2>. SUFFICES ASSUME NEW i \in 0..(k + 1)
                PROVE  (IF i <= k THEN walk[i] ELSE x) \in Task
    OBVIOUS
  <2>1. i <= k => i \in 0..k
    OBVIOUS
  <2>. QED
    BY <1>2, <2>1
<1>4. /\ \A i \in 0..k : longer[i] = walk[i]
      /\ longer[k + 1] = x
  OBVIOUS
<1>. HIDE DEF longer
<1>5. ASSUME NEW i \in 1..(k + 1)
      PROVE  <<longer[i - 1], longer[i]>> \in E
  <2>1. CASE i <= k
    <3>1. i \in 1..k /\ i - 1 \in 0..k /\ i \in 0..k
      BY <2>1
    <3>. QED
      BY <1>1, <1>4, <3>1
  <2>2. CASE i = k + 1
    <3>1. longer[i - 1] = y /\ longer[i] = x
      BY <1>1, <1>4, <2>2
    <3>. QED
      BY <1>2, <3>1
  <2>. QED
    BY <2>1, <2>2
<1>6. longer[0] = t
  BY <1>1, <1>4
<1>. QED
  BY <1>2, <1>3, <1>4, <1>5, <1>6 DEF Within

\* Whatever is not a direct blocker has one before it.
LEMMA WithinLast ==
    ASSUME NEW E \in SUBSET Edge, NEW t \in Task, NEW n \in Nat, NEW x \in Within(t, E, n + 1)
    PROVE  x \in Direct(t, E) \/ \E y \in Within(t, E, n) : x \in Direct(y, E)
<1>0. PICK k \in 1..(n + 1) : \E walk \in [0..k -> Task] :
        /\ walk[0] = t /\ walk[k] = x
        /\ \A i \in 1..k : <<walk[i - 1], walk[i]>> \in E
  BY DEF Within
<1>1. PICK walk \in [0..k -> Task] :
        /\ walk[0] = t /\ walk[k] = x
        /\ \A i \in 1..k : <<walk[i - 1], walk[i]>> \in E
  BY <1>0
<1>2. x \in Task /\ <<walk[k - 1], x>> \in E /\ k - 1 \in 0..k /\ walk[k - 1] \in Task
  BY <1>1
<1>3. CASE k = 1
  BY <1>1, <1>2, <1>3 DEF Direct
<1>4. CASE k # 1
  <2>. DEFINE shorter == [i \in 0..(k - 1) |-> walk[i]]
              y == walk[k - 1]
  <2>1. k - 1 \in 1..n
    BY <1>4
  <2>2. shorter \in [0..(k - 1) -> Task] /\ \A i \in 0..(k - 1) : shorter[i] = walk[i]
    BY <1>1
  <2>. HIDE DEF shorter
  <2>3. shorter[0] = t /\ shorter[k - 1] = y
    BY <1>1, <2>1, <2>2
  <2>4. ASSUME NEW i \in 1..(k - 1)
        PROVE  <<shorter[i - 1], shorter[i]>> \in E
    <3>1. i \in 1..k /\ i - 1 \in 0..(k - 1) /\ i \in 0..(k - 1)
      OBVIOUS
    <3>. QED
      BY <1>1, <2>2, <3>1
  <2>5. y \in Within(t, E, n)
    BY <1>2, <2>1, <2>2, <2>3, <2>4 DEF Within
  <2>. QED
    BY <1>2, <2>5 DEF Direct
<1>. QED
  BY <1>3, <1>4

\* The search goes by distance: an entry holds its task's, entries come in its
\* order, and all that is no further than the head has been found.
Layered ==
    /\ \A i \in DOMAIN queue :
          /\ queue[i][2] \in Nat \ {0}
          /\ queue[i][1] \in Within(start, graph, queue[i][2])
          /\ queue[i][1] \notin Within(start, graph, queue[i][2] - 1)
          /\ queue[i][2] <= queue[1][2] + 1
    /\ \A i, j \in DOMAIN queue : i <= j => queue[i][2] <= queue[j][2]
    /\ queue # <<>> => Within(start, graph, queue[1][2]) \subseteq blockers

\* No limit was passed before the search gave up, and one is when it does.
Limited ==
    /\ blockers = Direct(start, graph) \/ Cardinality(blockers) <= MaxNodes
    /\ blockers \ Queued \subseteq Within(start, graph, MaxDepth)
    /\ outcome = "overflow" => Overflows(start, graph)

\* Both hold of the direct blockers.
LEMMA LimitsInit == BfsInit => Layered /\ Limited
<1>. SUFFICES ASSUME BfsInit
              PROVE  Layered /\ Limited
  OBVIOUS
<1>1. graph \in SUBSET Edge /\ start \in Task /\ blockers = Direct(start, graph)
      /\ outcome = "running"
  BY DEF BfsInit, SimpleGraphs
<1>2. Within(start, graph, 0) = {}
  BY <1>1, WithinNone
<1>3. Within(start, graph, 1) = Direct(start, graph)
  <2>1. Direct(start, graph) \subseteq Within(start, graph, 1)
    BY <1>1, WithinDirect
  <2>2. ASSUME NEW x \in Within(start, graph, 0 + 1)
        PROVE  x \in Direct(start, graph)
    BY <1>1, <1>2, <2>2, WithinLast
  <2>. QED
    BY <2>1, <2>2
<1>4. \A i \in DOMAIN queue : queue[i][1] \in Direct(start, graph) /\ queue[i][2] = 1
  BY SeedsQueued
<1>5. queue # <<>> => 1 \in DOMAIN queue
  BY SeedsQueued
<1>6. Layered
  BY <1>1, <1>2, <1>3, <1>4, <1>5 DEF Layered
<1>. QED
  BY <1>1, <1>6, SeedsQueued DEF Limited

\* A step of the loop keeps the order: the children of the head were not found
\* before it, so they are one edge further away than it is, and what is no
\* further than the new head leads from a task that is done with.
LEMMA ExpandLayered ==
    ASSUME BfsInv, Layered, Expand
    PROVE  Layered'
<1>1. PICK n \in Nat, k \in Nat :
         /\ queue' \in Seq(Task \X Nat)
         /\ DOMAIN queue = 1..(n + 1) /\ DOMAIN queue' = 1..(n + k)
         /\ Head(queue) = queue[1] /\ queue[1] \in Task \X Nat
         /\ \A i \in 1..n : queue'[i] = queue[i + 1]
         /\ \A i \in 1..k : /\ queue'[n + i][1] \in Children
                            /\ queue'[n + i][2] = queue[1][2] + 1
  BY ExpandQueue
<1>. DEFINE h == queue[1][1]
            d == queue[1][2]
            W(m) == Within(start, graph, m)
<1>2. /\ graph \in SUBSET Edge /\ start \in Task /\ graph' = graph /\ start' = start
      /\ blockers' = blockers \cup Children /\ queue # <<>>
      /\ Direct(start, graph) \subseteq blockers
  BY DEF BfsInv, BfsTypeOK, Expand
<1>3. d \in Nat \ {0} /\ h \in W(d) /\ W(d) \subseteq blockers
  BY <1>1, <1>2 DEF Layered
<1>4. ASSUME NEW c \in Children
      PROVE  c \in W(d + 1) /\ c \notin W(d)
  <2>1. c \in Direct(h, graph) /\ c \notin blockers
    BY <1>1 DEF Children
  <2>. QED
    BY <1>2, <1>3, <2>1, WithinFurther
<1>5. ASSUME NEW i \in 1..n
      PROVE  /\ i + 1 \in DOMAIN queue /\ queue'[i] = queue[i + 1]
             /\ queue'[i][2] \in Nat \ {0} /\ d <= queue'[i][2] /\ queue'[i][2] <= d + 1
             /\ queue'[i][1] \in W(queue'[i][2]) /\ queue'[i][1] \notin W(queue'[i][2] - 1)
  <2>1. i + 1 \in DOMAIN queue /\ 1 \in DOMAIN queue /\ 1 <= i + 1 /\ queue'[i] = queue[i + 1]
    BY <1>1
  <2>. QED
    BY <2>1 DEF Layered
<1>6. ASSUME NEW i \in 1..(n + k), i \notin 1..n
      PROVE  queue'[i][1] \in Children /\ queue'[i][2] = d + 1
  <2>1. i - n \in 1..k /\ n + (i - n) = i
    BY <1>6
  <2>. QED
    BY <1>1, <2>1
<1>7. ASSUME NEW i \in 1..(n + k)
      PROVE  /\ queue'[i][2] \in Nat \ {0} /\ d <= queue'[i][2] /\ queue'[i][2] <= d + 1
             /\ queue'[i][1] \in W(queue'[i][2]) /\ queue'[i][1] \notin W(queue'[i][2] - 1)
  <2>1. CASE i \in 1..n
    BY <2>1, <1>5
  <2>2. CASE i \notin 1..n
    <3>1. queue'[i][2] = d + 1 /\ (d + 1) - 1 = d /\ d + 1 \in Nat \ {0} /\ d <= d + 1
      BY <1>3, <1>6, <2>2
    <3>. QED
      BY <1>4, <1>6, <2>2, <3>1
  <2>. QED
    BY <2>1, <2>2
<1>8. ASSUME NEW i \in 1..(n + k), NEW j \in 1..(n + k), i <= j
      PROVE  queue'[i][2] <= queue'[j][2]
  <2>1. CASE j \in 1..n
    <3>1. i \in 1..n /\ i + 1 <= j + 1
      BY <1>8, <2>1
    <3>. QED
      BY <1>5, <2>1, <3>1 DEF Layered
  <2>2. CASE j \notin 1..n
    BY <1>3, <1>6, <1>7, <2>2
  <2>. QED
    BY <2>1, <2>2
<1>9. ASSUME queue' # <<>>
      PROVE  1 \in 1..(n + k) /\ W(queue'[1][2]) \subseteq blockers'
  <2>1. 1 \in 1..(n + k)
    BY <1>1, <1>9
  <2>2. queue'[1][2] = d \/ queue'[1][2] = d + 1
    BY <1>3, <1>7, <2>1
  <2>3. CASE queue'[1][2] = d
    BY <1>2, <1>3, <2>1, <2>3
  <2>4. CASE queue'[1][2] = d + 1
    <3>1. ASSUME NEW x \in W(d + 1), x \notin Direct(start, graph)
          PROVE  x \in blockers'
      <4>1. PICK y \in W(d) : x \in Direct(y, graph)
        BY <1>2, <1>3, <3>1, WithinLast
      <4>2. y \notin Queued'
        <5>. SUFFICES ASSUME NEW i \in 1..(n + k), queue'[i][1] = y
                      PROVE  FALSE
          BY <1>1 DEF Queued
        <5>1. 1 <= i /\ queue'[i][2] \in Nat /\ d + 1 <= queue'[i][2]
          BY <1>7, <1>8, <2>1, <2>4
        <5>2. d <= queue'[i][2] - 1 /\ queue'[i][2] - 1 \in Nat
          BY <1>3, <5>1
        <5>3. y \in W(queue'[i][2] - 1)
          BY <1>2, <1>3, <4>1, <5>2, WithinGrows
        <5>. QED
          BY <1>7, <5>3
      <4>3. BfsInv'
        BY ExpandInductive
      <4>4. Direct(y, graph) \subseteq blockers'
        BY <1>2, <1>3, <4>1, <4>2, <4>3 DEF BfsInv
      <4>. QED
        BY <4>1, <4>4
    <3>. QED
      BY <1>2, <2>1, <2>4, <3>1
  <2>. QED
    BY <2>1, <2>2, <2>3, <2>4
<1>10. \A i \in 1..(n + k) : queue'[i][2] <= queue'[1][2] + 1
  <2>. SUFFICES ASSUME NEW i \in 1..(n + k)
                PROVE  queue'[i][2] <= queue'[1][2] + 1
    OBVIOUS
  <2>1. 1 \in 1..(n + k)
    OBVIOUS
  <2>. QED
    BY <1>3, <1>7, <2>1
<1>. QED
  BY <1>1, <1>2, <1>7, <1>8, <1>9, <1>10 DEF Layered

\* A step of the loop passes no limit, or gives up at one.
LEMMA LimitsStep ==
    ASSUME BfsInv, Layered, Limited, BfsNext
    PROVE  Limited'
<1>1. graph \in SUBSET Edge /\ start \in Task /\ graph' = graph /\ start' = start
      /\ MaxDepth \in Nat /\ MaxNodes \in Nat
  BY LimitsAssumption DEF BfsInv, BfsTypeOK, BfsNext, Overflow, Expand, Return
<1>2. IsFiniteSet(TransitiveBlockers(start, graph)) /\ TransitiveBlockers(start, graph) \subseteq Task
  BY <1>1, TaskAssumption, FS_Subset, BlockersClosed
<1>3. ASSUME queue # <<>>
      PROVE  /\ queue[1][1] \in Queued /\ queue[1][2] \in Nat \ {0}
             /\ queue[1][1] \in Within(start, graph, queue[1][2])
             /\ queue[1][1] \notin Within(start, graph, queue[1][2] - 1)
             /\ Head(queue) = queue[1]
  <2>1. 1 \in DOMAIN queue /\ Head(queue) = queue[1]
    BY <1>3 DEF BfsInv, BfsTypeOK
  <2>. QED
    BY <2>1 DEF Layered, Queued
<1>4. CASE Expand
  <2>1. blockers' = Direct(start, graph) \/ Cardinality(blockers') <= MaxNodes
    <3>1. CASE Children = {}
      BY <1>1, <1>4, <3>1 DEF Limited, Expand
    <3>2. CASE Children # {}
      <4>1. blockers \cup Children \subseteq Task
        BY DEF Children, Direct, BfsInv, BfsTypeOK
      <4>2. Cardinality(blockers \cup Children) \in Nat
        BY <4>1, TaskAssumption, FS_Subset, FS_CardinalityType
      <4>. QED
        BY <1>1, <1>4, <3>2, <4>2 DEF Expand, TooMany, Limited
    <3>. QED
      BY <3>1, <3>2
  <2>2. queue # <<>> /\ ~TooDeep /\ blockers' = blockers \cup Children /\ outcome' = "running"
    BY <1>4 DEF Expand
  <2>3. queue[1][1] \in Within(start, graph, MaxDepth)
    BY <1>1, <1>3, <2>2, WithinGrows DEF TooDeep
  <2>4. blockers' \ Queued' \subseteq Within(start, graph, MaxDepth)
    BY <1>3, <1>4, <2>2, <2>3, ExpandQueued DEF Limited
  <2>. QED
    BY <1>1, <2>1, <2>2, <2>4 DEF Limited
<1>5. CASE Overflow
  <2>1. queue # <<>> /\ (TooDeep \/ TooMany) /\ UNCHANGED <<blockers, queue>>
    BY <1>5 DEF Overflow
  <2>2. queue[1][1] \in TransitiveBlockers(start, graph)
    BY <1>3, <2>1 DEF BfsInv
  <2>3. CASE TooDeep
    <3>1. MaxDepth <= queue[1][2] - 1 /\ queue[1][2] - 1 \in Nat
      BY <1>1, <1>3, <2>1, <2>3 DEF TooDeep
    <3>2. queue[1][1] \notin Within(start, graph, MaxDepth)
      BY <1>1, <1>3, <2>1, <3>1, WithinGrows
    <3>. QED
      BY <1>1, <2>1, <2>2, <3>2 DEF Limited, Overflows, Queued
  <2>4. CASE TooMany
    <3>1. Direct(queue[1][1], graph) \subseteq TransitiveBlockers(start, graph)
      BY <1>1, <2>2, BlockersClosed DEF Closed
    <3>2. blockers \cup Children \subseteq TransitiveBlockers(start, graph)
      BY <1>3, <2>1, <3>1 DEF BfsInv, Children
    <3>3. Cardinality(blockers \cup Children) <= Cardinality(TransitiveBlockers(start, graph))
      BY <1>2, <3>2, FS_Subset
    <3>4. /\ Cardinality(blockers \cup Children) \in Nat
          /\ Cardinality(TransitiveBlockers(start, graph)) \in Nat
      BY <1>2, <3>2, FS_Subset, FS_CardinalityType
    <3>5. Cardinality(TransitiveBlockers(start, graph)) > MaxNodes
      BY <1>1, <2>4, <3>3, <3>4 DEF TooMany
    <3>6. TransitiveBlockers(start, graph) # Direct(start, graph)
      BY <2>4, <3>2 DEF TooMany, Children, BfsInv
    <3>7. Overflows(start, graph)
      BY <3>5, <3>6 DEF Overflows
    <3>. QED
      BY <1>1, <2>1, <3>7 DEF Limited, Queued
  <2>. QED
    BY <2>1, <2>3, <2>4
<1>6. CASE Return
  BY <1>6, <1>1 DEF Return, Limited, Queued
<1>. QED
  BY <1>4, <1>5, <1>6 DEF BfsNext

\* What is known of the limits is inductive over what is known of the blockers.
LEMMA LimitsInductive == BfsInv /\ Layered /\ Limited /\ [BfsNext]_bfsVars => (Layered /\ Limited)'
<1>1. ASSUME Layered, Limited, UNCHANGED bfsVars
      PROVE  (Layered /\ Limited)'
  BY <1>1 DEF bfsVars, Layered, Limited, Queued
<1>2. ASSUME Layered, Overflow \/ Return
      PROVE  Layered'
  BY <1>2 DEF Overflow, Return, Layered
<1>. QED
  BY <1>1, <1>2, ExpandLayered, LimitsStep DEF BfsNext

\* A search that returns found everything, near enough and few enough.
LEMMA VerdictExact == BfsInv /\ Limited => OverflowExact
<1>. SUFFICES ASSUME BfsInv, Limited, outcome = "returned"
              PROVE  ~Overflows(start, graph)
  BY DEF OverflowExact, BfsInv, BfsTypeOK, Limited
<1>1. Queued = {} /\ blockers = TransitiveBlockers(start, graph)
  BY ReturnedIsExact DEF BfsInv, Queued, ReturnsBlockers
<1>2. Cardinality(blockers) \in Nat /\ MaxNodes \in Nat
  BY TaskAssumption, LimitsAssumption, FS_Subset, FS_CardinalityType DEF BfsInv, BfsTypeOK
<1>. QED
  BY <1>1, <1>2 DEF Limited, Overflows

\* collectTransitiveBlockers returns exactly the transitive blockers.
THEOREM TraversalCorrect == BfsSpec => []ReturnsBlockers
<1>1. BfsSpec => []BfsInv
  BY BfsInitInductive, BfsNextInductive, PTL DEF BfsSpec
<1>. QED
  BY <1>1, ReturnedIsExact, PTL

\* It gives up exactly on the graphs with a blocker beyond MaxDepth edges or
\* more than MaxNodes of them, whatever order the database returns the edges in.
THEOREM LimitsExact == BfsSpec => []OverflowExact
<1>1. BfsSpec => [](BfsInv /\ Layered /\ Limited)
  BY BfsInitInductive, BfsNextInductive, LimitsInit, LimitsInductive, PTL DEF BfsSpec
<1>. QED
  BY <1>1, VerdictExact, PTL

\* The queue holds tasks with depths, and what is found are tasks.
THEOREM SearchTyped == BfsSpec => []BfsTypeOK
<1>1. BfsSpec => []BfsInv
  BY BfsInitInductive, BfsNextInductive, PTL DEF BfsSpec
<1>2. BfsInv => BfsTypeOK
  BY DEF BfsInv
<1>. QED
  BY <1>1, <1>2, PTL

----------------------------------------------------------------------------
(* TaskDependencies: the service *)

\* A call holds the arguments its step works on.
Arguments ==
    \A r \in Request :
        /\ pc[r] \in {"findBlocker", "open", "loaded", "auditAdd"} => edge[r] \in Edge
        /\ pc[r] \in {"findRowTask", "delete", "auditRemove"} => target[r] \in Request

Typed == TypeOK /\ Arguments

----------------------------------------------------------------------------
\* The types hold at first.
LEMMA InitTyped == Init => Typed
  BY DEF Init, Typed, TypeOK, Arguments

\* The ways most steps end: the call answers, or goes on with what it has.
LEMMA AnswerTyped ==
    ASSUME Typed, NEW r \in Request, NEW a \in Answers, Answer(r, a),
           rows' \subseteq rows, live' = live,
           audit' \subseteq audit \cup [action : {"CREATE", "DELETE"},
                                        entity : Edge \cup Request, by : Request]
    PROVE  Typed'
<1>1. TypeOK'
  BY DEF Answer, Typed, TypeOK
<1>2. Arguments'
  BY DEF Answer, Answers, Typed, TypeOK, Arguments
<1>. QED
  BY <1>1, <1>2 DEF Typed

\* A call that goes on has what its next step needs.
LEMMA GotoTyped ==
    ASSUME Typed, NEW r \in Request, NEW step \in Steps, Goto(r, step),
           rows' \subseteq rows, UNCHANGED <<live, audit>>,
           step \in {"open", "auditAdd"} => edge[r] \in Edge,
           step \in {"delete", "auditRemove"} => target[r] \in Request,
           step \notin {"findBlocker", "loaded", "findRowTask"}
    PROVE  Typed'
<1>1. TypeOK'
  BY DEF Goto, Typed, TypeOK
<1>2. Arguments'
  BY DEF Goto, Steps, Typed, TypeOK, Arguments
<1>. QED
  BY <1>1, <1>2 DEF Typed

\* Every action keeps the types.
LEMMA NextTyped == Typed /\ [Next]_vars => Typed'
<1>. SUFFICES ASSUME Typed, [Next]_vars
              PROVE  Typed'
  OBVIOUS
<1>1. ASSUME NEW r \in Request, NEW t \in Task, NEW d \in Task, StartAdd(r, t, d)
      PROVE  Typed'
  BY <1>1 DEF StartAdd, Edge, Typed, TypeOK, Arguments, Steps
<1>2. ASSUME NEW r \in Request, NEW w \in rows, StartRemove(r, w)
      PROVE  Typed'
  BY <1>2 DEF StartRemove, Row, Typed, TypeOK, Arguments, Steps
<1>3. ASSUME NEW r \in Request, FindBlocker(r)
      PROVE  Typed'
  <2>1. CASE Answer(r, "notFound")
    BY <1>3, <2>1, AnswerTyped DEF FindBlocker, Answers
  <2>2. CASE Goto(r, "open")
    <3>1. edge[r] \in Edge
      BY <1>3 DEF FindBlocker, Typed, Arguments
    <3>. QED
      BY <1>3, <2>2, <3>1, GotoTyped DEF FindBlocker, Steps
  <2>. QED
    BY <1>3, <2>1, <2>2 DEF FindBlocker
<1>4. ASSUME NEW r \in Request, LoadEdges(r)
      PROVE  Typed'
  BY <1>4 DEF LoadEdges, Edges, Row, Typed, TypeOK, Arguments, Steps
<1>5. ASSUME NEW r \in Request, RejectAdd(r)
      PROVE  Typed'
  <2>1. PICK a \in Answers : Answer(r, a)
    BY <1>5 DEF RejectAdd, Answers
  <2>. QED
    BY <1>5, <2>1, AnswerTyped DEF RejectAdd
<1>6. ASSUME NEW r \in Request, CommitAdd(r)
      PROVE  Typed'
  BY <1>6 DEF CommitAdd, Row, Typed, TypeOK, Arguments, Steps
<1>7. ASSUME NEW r \in Request, AuditAdd(r)
      PROVE  Typed'
  <2>1. edge[r] \in Edge
    BY <1>7 DEF AuditAdd, Typed, Arguments
  <2>. QED
    BY <1>7, <2>1, AnswerTyped DEF AuditAdd, Answers
<1>8. ASSUME NEW r \in Request, FindRowTask(r)
      PROVE  Typed'
  <2>1. CASE Answer(r, "notFound")
    BY <1>8, <2>1, AnswerTyped DEF FindRowTask, Answers
  <2>2. CASE Goto(r, "delete")
    <3>1. target[r] \in Request
      BY <1>8 DEF FindRowTask, Typed, Arguments
    <3>. QED
      BY <1>8, <2>2, <3>1, GotoTyped DEF FindRowTask, Steps
  <2>. QED
    BY <1>8, <2>1, <2>2 DEF FindRowTask
<1>9. ASSUME NEW r \in Request, DeleteRow(r)
      PROVE  Typed'
  <2>1. rows' \subseteq rows /\ UNCHANGED <<live, audit>>
    BY <1>9 DEF DeleteRow
  <2>2. CASE Answer(r, "notFound")
    BY <2>1, <2>2, AnswerTyped DEF Answers
  <2>3. CASE Goto(r, "auditRemove")
    <3>1. target[r] \in Request
      BY <1>9 DEF DeleteRow, Typed, Arguments
    <3>. QED
      BY <2>1, <2>3, <3>1, GotoTyped DEF Steps
  <2>. QED
    BY <1>9, <2>2, <2>3 DEF DeleteRow
<1>10. ASSUME NEW r \in Request, AuditRemove(r)
       PROVE  Typed'
  <2>1. target[r] \in Request
    BY <1>10 DEF AuditRemove, Typed, Arguments
  <2>. QED
    BY <1>10, <2>1, AnswerTyped DEF AuditRemove, Answers
<1>11. ASSUME NEW t \in Task, DeleteTask(t)
       PROVE  Typed'
  BY <1>11 DEF DeleteTask, Typed, TypeOK, Arguments
<1>12. ASSUME NEW r \in Request, Fail(r)
       PROVE  Typed'
  BY <1>12, AnswerTyped DEF Fail, Answers
<1>13. CASE UNCHANGED vars
  BY <1>13 DEF vars, Typed, TypeOK, Arguments
<1>. QED
  BY <1>1, <1>2, <1>3, <1>4, <1>5, <1>6, <1>7, <1>8, <1>9, <1>10, <1>11, <1>12, <1>13
  DEF Next, Step

\* Every variable keeps to its type, and a call holds what its step needs.
THEOREM TypeCorrect == Spec => []TypeOK
<1>1. Spec => []Typed
  BY InitTyped, NextTyped, PTL DEF Spec
<1>. QED
  BY <1>1, PTL DEF Typed

----------------------------------------------------------------------------
(* The table: acyclic, without duplicates.  Only a commit adds a row, and  *)
(* what it read covers what it adds to.                                    *)

\* A step that commits no addition and opens no transaction.
NoCommit ==
    /\ rows' \subseteq rows
    /\ \A r \in Request : pc'[r] = "loaded" =>
          pc[r] = "loaded" /\ snapshot'[r] = snapshot[r] /\ conflict'[r] = conflict[r]

Table == UniqueEdges /\ SnapshotCovers /\ EdgesAcyclic

\* An empty table is acyclic.
LEMMA InitTable == Init => Table
<1>. SUFFICES ASSUME Init
              PROVE  Table
  OBVIOUS
<1>1. Edges = {}
  BY DEF Init, Edges
<1>2. Acyclic(Edges)
  BY <1>1 DEF Acyclic, Direct
<1>. QED
  BY <1>1, <1>2 DEF Init, Table, UniqueEdges, SnapshotCovers, EdgesAcyclic

\* A step that adds no edge and opens no transaction keeps the table right.
LEMMA NoCommitKeepsTable ==
    ASSUME Table, NoCommit
    PROVE  Table'
<1>1. Edges' \subseteq Edges
  BY DEF NoCommit, Edges
<1>2. UniqueEdges'
  BY DEF NoCommit, Table, UniqueEdges
<1>3. SnapshotCovers'
  BY <1>1 DEF NoCommit, Table, SnapshotCovers
<1>4. EdgesAcyclic'
  BY <1>1, PartAcyclic DEF Table, EdgesAcyclic
<1>. QED
  BY <1>2, <1>3, <1>4 DEF Table

\* A commit adds an edge that was checked against all there are.
LEMMA CommitKeepsTable ==
    ASSUME Typed, Table, NEW r \in Request, CommitAdd(r)
    PROVE  /\ Table'
           /\ edge[r] \in Edge \ Edges
           /\ Acyclic(Edges \cup {edge[r]})
           /\ Edges' = Edges \cup {edge[r]}
<1>1. edge[r] \in Edge /\ edge[r] \notin Edges
  BY DEF CommitAdd, UniqueKeyFree, Typed, Arguments
<1>2. Edges' = Edges \cup {edge[r]}
  <2>1. [id |-> r, edge |-> edge[r]].edge = edge[r]
    OBVIOUS
  <2>2. \A w \in rows' : w \in rows \/ w = [id |-> r, edge |-> edge[r]]
    BY DEF CommitAdd
  <2>3. rows \subseteq rows' /\ [id |-> r, edge |-> edge[r]] \in rows'
    BY DEF CommitAdd
  <2>. QED
    BY <2>1, <2>2, <2>3 DEF Edges
<1>3. UniqueEdges'
  BY <1>1 DEF CommitAdd, Table, UniqueEdges, Edges
<1>4. SnapshotCovers'
  BY DEF CommitAdd, SnapshotCovers, Typed, TypeOK
<1>5. Acyclic(Edges \cup {edge[r]})
  <2>1. snapshot[r] \in SUBSET Edge /\ Edges \in SUBSET snapshot[r]
    BY DEF CommitAdd, Serializable, Table, SnapshotCovers, Typed, TypeOK
  <2>2. PICK t \in Task, d \in Task : edge[r] = <<t, d>>
    BY <1>1 DEF Edge
  <2>3. ~WouldCreateCycle(t, d, snapshot[r])
    BY <2>2 DEF CommitAdd, PassesCheck
  <2>4. ~WouldCreateCycle(t, d, Edges)
    BY <2>1, <2>3, CheckMonotone
  <2>. QED
    BY <2>1, <2>2, <2>4, CheckSound DEF Table, EdgesAcyclic
<1>. QED
  BY <1>1, <1>2, <1>3, <1>4, <1>5 DEF Table, EdgesAcyclic

\* A transaction that reads reads every edge.
LEMMA LoadKeepsTable ==
    ASSUME Typed, Table, NEW r \in Request, LoadEdges(r)
    PROVE  Table'
<1>1. Edges' = Edges /\ rows' = rows
  BY DEF LoadEdges, Edges
<1>2. SnapshotCovers'
  BY <1>1 DEF LoadEdges, Table, SnapshotCovers, Typed, TypeOK
<1>. QED
  BY <1>1, <1>2 DEF Table, UniqueEdges, EdgesAcyclic

\* Every other action is quiet.
LEMMA OtherStepsQuiet ==
    ASSUME Typed, [Next]_vars, \A r \in Request : ~CommitAdd(r) /\ ~LoadEdges(r)
    PROVE  NoCommit
<1>. USE DEF NoCommit, Typed, TypeOK, Answers
<1>1. ASSUME NEW r \in Request, NEW t \in Task, NEW d \in Task, StartAdd(r, t, d)
      PROVE  NoCommit
  BY <1>1 DEF StartAdd
<1>2. ASSUME NEW r \in Request, NEW w \in rows, StartRemove(r, w)
      PROVE  NoCommit
  BY <1>2 DEF StartRemove
<1>3. ASSUME NEW r \in Request, FindBlocker(r) \/ FindRowTask(r) \/ RejectAdd(r)
      PROVE  NoCommit
  BY <1>3 DEF FindBlocker, FindRowTask, RejectAdd, Goto, Answer
<1>4. ASSUME NEW r \in Request, AuditAdd(r) \/ AuditRemove(r) \/ Fail(r)
      PROVE  NoCommit
  BY <1>4 DEF AuditAdd, AuditRemove, Fail, Answer
<1>5. ASSUME NEW r \in Request, DeleteRow(r)
      PROVE  NoCommit
  BY <1>5 DEF DeleteRow, Goto, Answer
<1>6. ASSUME NEW t \in Task, DeleteTask(t)
      PROVE  NoCommit
  BY <1>6 DEF DeleteTask
<1>7. CASE UNCHANGED vars
  BY <1>7 DEF vars
<1>. QED
  BY <1>1, <1>2, <1>3, <1>4, <1>5, <1>6, <1>7 DEF Next, Step

\* Every action keeps the table right.
LEMMA NextTable == Typed /\ Table /\ [Next]_vars => Table'
  BY CommitKeepsTable, LoadKeepsTable, OtherStepsQuiet, NoCommitKeepsTable

\* So it is right in every state.
LEMMA TableHolds == Spec => [](Typed /\ Table)
<1>1. Init => Typed /\ Table
  BY InitTyped, InitTable
<1>2. (Typed /\ Table) /\ [Next]_vars => (Typed /\ Table)'
  BY NextTyped, NextTable
<1>. QED
  BY <1>1, <1>2, PTL DEF Spec

\* However many calls interleave, no cycle of dependencies is ever stored.
THEOREM AlwaysAcyclic == Spec => []EdgesAcyclic
  BY TableHolds, PTL DEF Table

\* One row for each pair of tasks, always.
THEOREM AlwaysUnique == Spec => []UniqueEdges
  BY TableHolds, PTL DEF Table

\* A transaction that can still commit has read every edge there is.
THEOREM AlwaysCovers == Spec => []SnapshotCovers
  BY TableHolds, PTL DEF Table

----------------------------------------------------------------------------
(* The ids: a row is made once and removed once.                           *)

\* The steps of an addition up to the commit, where its row cannot be there,
\* and those of a removal, which holds the id of a row.
BeforeCommit == {"idle", "findBlocker", "open", "loaded"}
Removing == {"findRowTask", "delete", "auditRemove"}

\* Only calls past their commit are named: by a row, a removal or the audit.
IdsSpent ==
    /\ \A w \in rows : pc[w.id] \notin BeforeCommit
    /\ \A r \in Request : pc[r] \in Removing => pc[target[r]] \notin BeforeCommit
    /\ \A a \in audit : a.action = "DELETE" =>
          a.entity \in Request /\ pc[a.entity] \notin BeforeCommit

IdsUnique == \A v, w \in rows : v.id = w.id => v = w

\* A removal about to write its audit row is the only one of that row.
RemovalsApart ==
    \A r \in Request : pc[r] = "auditRemove" =>
        /\ \A w \in rows : w.id # target[r]
        /\ \A a \in audit : a.action = "DELETE" => a.entity # target[r]
        /\ \A s \in Request : pc[s] = "auditRemove" /\ target[s] = target[r] => s = r

Ids == IdsSpent /\ IdsUnique /\ RemovalsApart /\ RemovedOnce

\* There are no rows at first.
LEMMA InitIds == Init => Ids
  BY DEF Init, Ids, IdsSpent, IdsUnique, RemovalsApart, RemovedOnce, Removing

\* A call that stays out of the table, of the audit's removals and of the
\* removals' last steps disturbs none of it.
PlainStep ==
    /\ rows' = rows
    /\ \A a \in audit' : a.action = "DELETE" => a \in audit
    /\ \A q \in Request :
          /\ pc[q] \notin BeforeCommit => pc'[q] \notin BeforeCommit
          /\ pc'[q] \in Removing => pc[q] \in Removing /\ target'[q] = target[q]
          /\ pc'[q] = "auditRemove" => pc[q] = "auditRemove"

\* A step that writes no row keeps the ids right.
LEMMA PlainKeepsIds ==
    ASSUME Typed, Ids, PlainStep
    PROVE  Ids'
<1>1. IdsSpent'
  BY DEF Ids, IdsSpent, PlainStep, Typed, TypeOK, Arguments, Row, Removing
<1>2. IdsUnique'
  BY DEF Ids, IdsUnique, PlainStep
<1>3. RemovalsApart'
  BY DEF Ids, RemovalsApart, PlainStep, Removing
<1>4. RemovedOnce'
  BY DEF Ids, RemovedOnce, PlainStep
<1>. QED
  BY <1>1, <1>2, <1>3, <1>4 DEF Ids

\* A commit makes a row with the id of its own call.
LEMMA CommitKeepsIds ==
    ASSUME Typed, Ids, NEW r \in Request, CommitAdd(r)
    PROVE  Ids'
<1>1. \A w \in rows : w \in Row
  BY DEF Typed, TypeOK
<1>2. /\ \A w \in rows' : w \in rows \/ w.id = r
      /\ \A v, w \in rows' : v.id = r /\ w.id = r => v = w
      /\ \A q \in Request : pc'[q] = IF q = r THEN "auditAdd" ELSE pc[q]
      /\ pc[r] = "loaded" /\ target' = target /\ audit' = audit
  BY DEF CommitAdd, Typed, TypeOK, Ids, IdsSpent, BeforeCommit
<1>3. IdsSpent'
  BY <1>1, <1>2 DEF Ids, IdsSpent, BeforeCommit, Removing, Typed, Arguments, Row
<1>4. IdsUnique'
  BY <1>2 DEF Ids, IdsUnique
<1>5. RemovalsApart'
  BY <1>2 DEF Ids, IdsSpent, RemovalsApart, BeforeCommit, Removing
<1>6. RemovedOnce'
  BY <1>2 DEF Ids, IdsSpent, RemovedOnce, BeforeCommit
<1>. QED
  BY <1>3, <1>4, <1>5, <1>6 DEF Ids

\* A removal starts with the id of a row that was made.
LEMMA StartRemoveKeepsIds ==
    ASSUME Typed, Ids, NEW r \in Request, NEW w \in rows, StartRemove(r, w)
    PROVE  Ids'
<1>1. /\ w.id \in Request /\ pc[r] = "idle" /\ rows' = rows /\ audit' = audit
      /\ \A q \in Request : /\ pc'[q] = IF q = r THEN "findRowTask" ELSE pc[q]
                            /\ target'[q] = IF q = r THEN w.id ELSE target[q]
  BY DEF StartRemove, Typed, TypeOK, Row
<1>2. pc[w.id] \notin BeforeCommit
  BY DEF Ids, IdsSpent
<1>3. IdsSpent'
  BY <1>1, <1>2 DEF Ids, IdsSpent, BeforeCommit, Removing, Typed, TypeOK, Arguments, Row
<1>4. IdsUnique' /\ RemovalsApart' /\ RemovedOnce'
  BY <1>1 DEF Ids, IdsUnique, RemovalsApart, RemovedOnce
<1>. QED
  BY <1>3, <1>4 DEF Ids

\* A delete takes the row of its id.
LEMMA DeleteKeepsIds ==
    ASSUME Typed, Ids, NEW r \in Request, DeleteRow(r)
    PROVE  Ids'
<1>1. CASE Doomed(r) = {}
  <2>1. PlainStep
    BY <1>1 DEF DeleteRow, Answer, PlainStep, Typed, TypeOK, BeforeCommit, Removing
  <2>. QED
    BY <2>1, PlainKeepsIds
<1>2. CASE Doomed(r) # {}
  <2>1. /\ target[r] \in Request /\ pc[r] = "delete"
        /\ rows' \subseteq rows /\ audit' = audit /\ target' = target
        /\ \A w \in rows' : w.id # target[r]
        /\ \A q \in Request : pc'[q] = IF q = r THEN "auditRemove" ELSE pc[q]
    BY <1>2 DEF DeleteRow, Doomed, Goto, Typed, TypeOK, Arguments
  <2>2. PICK w \in rows : w.id = target[r]
    BY <1>2 DEF Doomed
  <2>3. IdsSpent'
    BY <2>1 DEF Ids, IdsSpent, BeforeCommit, Removing, Typed, TypeOK, Arguments, Row
  <2>4. IdsUnique' /\ RemovedOnce'
    BY <2>1 DEF Ids, IdsUnique, RemovedOnce
  <2>5. RemovalsApart'
    BY <2>1, <2>2 DEF Ids, RemovalsApart, RemovedOnce
  <2>. QED
    BY <2>3, <2>4, <2>5 DEF Ids
<1>. QED
  BY <1>1, <1>2

\* A removal is audited once, by who deleted the row.
LEMMA AuditRemoveKeepsIds ==
    ASSUME Typed, Ids, NEW r \in Request, AuditRemove(r)
    PROVE  Ids'
<1>. DEFINE new == [action |-> "DELETE", entity |-> target[r], by |-> r]
<1>1. /\ target[r] \in Request /\ pc[r] = "auditRemove" /\ rows' = rows
      /\ \A a \in audit' : a \in audit \/ a = new
      /\ \A q \in Request : /\ pc'[q] = IF q = r THEN "done" ELSE pc[q]
                            /\ q # r => target'[q] = target[q]
  BY DEF AuditRemove, Answer, Typed, TypeOK, Arguments
<1>2. new.action = "DELETE" /\ new.entity = target[r]
  OBVIOUS
<1>3. pc[target[r]] \notin BeforeCommit
  BY <1>1 DEF Ids, IdsSpent, Removing
<1>. HIDE DEF new
<1>4. IdsSpent'
  BY <1>1, <1>2, <1>3 DEF Ids, IdsSpent, BeforeCommit, Removing, Typed, TypeOK, Arguments, Row
<1>5. IdsUnique'
  BY <1>1 DEF Ids, IdsUnique
<1>6. RemovalsApart'
  BY <1>1, <1>2 DEF Ids, RemovalsApart
<1>7. RemovedOnce'
  BY <1>1, <1>2 DEF Ids, RemovalsApart, RemovedOnce
<1>. QED
  BY <1>4, <1>5, <1>6, <1>7 DEF Ids

\* Every action keeps the ids right.
LEMMA NextIds == Typed /\ Ids /\ [Next]_vars => Ids'
<1>. SUFFICES ASSUME Typed, Ids, [Next]_vars
              PROVE  Ids'
  OBVIOUS
<1>1. ASSUME NEW r \in Request, NEW t \in Task, NEW d \in Task, StartAdd(r, t, d)
      PROVE  PlainStep
  BY <1>1 DEF StartAdd, PlainStep, Typed, TypeOK, BeforeCommit, Removing
<1>2. ASSUME NEW r \in Request, FindBlocker(r) \/ RejectAdd(r)
      PROVE  PlainStep
  BY <1>2 DEF FindBlocker, RejectAdd, Goto, Answer, PlainStep, Typed, TypeOK, BeforeCommit, Removing
<1>3. ASSUME NEW r \in Request, LoadEdges(r)
      PROVE  PlainStep
  BY <1>3 DEF LoadEdges, PlainStep, Typed, TypeOK, BeforeCommit, Removing
<1>4. ASSUME NEW r \in Request, AuditAdd(r)
      PROVE  PlainStep
  BY <1>4 DEF AuditAdd, Answer, PlainStep, Typed, TypeOK, BeforeCommit, Removing
<1>5. ASSUME NEW r \in Request, FindRowTask(r) \/ Fail(r)
      PROVE  PlainStep
  <2>1. CASE FindRowTask(r)
    BY <2>1 DEF FindRowTask, Goto, Answer, PlainStep, Typed, TypeOK, BeforeCommit, Removing
  <2>2. CASE Fail(r)
    BY <2>2 DEF Fail, Steps, Answer, PlainStep, Typed, TypeOK, BeforeCommit, Removing
  <2>. QED
    BY <1>5, <2>1, <2>2
<1>6. ASSUME NEW t \in Task, DeleteTask(t)
      PROVE  PlainStep
  BY <1>6 DEF DeleteTask, PlainStep
<1>7. CASE UNCHANGED vars
  <2>1. rows' = rows /\ pc' = pc /\ target' = target /\ audit' = audit
    BY <1>7 DEF vars
  <2>. QED
    BY <2>1, PlainKeepsIds DEF PlainStep
<1>. QED
  BY <1>1, <1>2, <1>3, <1>4, <1>5, <1>6, <1>7, PlainKeepsIds, CommitKeepsIds,
     StartRemoveKeepsIds, DeleteKeepsIds, AuditRemoveKeepsIds DEF Next, Step

\* So they are right in every state.
LEMMA IdsHold == Spec => [](Typed /\ Ids)
<1>1. Init => Typed /\ Ids
  BY InitTyped, InitIds
<1>2. (Typed /\ Ids) /\ [Next]_vars => (Typed /\ Ids)'
  BY NextTyped, NextIds
<1>. QED
  BY <1>1, <1>2, PTL DEF Spec

\* Of any number of racing removals of a row, one is answered and audited.
THEOREM AlwaysRemovedOnce == Spec => []RemovedOnce
  BY IdsHold, PTL DEF Ids

----------------------------------------------------------------------------
(* The service implements the abstract order of dependencies.              *)

\* The empty table maps to the empty order.
LEMMA InitRefines == Init => Order!OrderInit
  BY DEF Init, Edges, Order!OrderInit

\* A commit adds an edge to the order.
LEMMA CommitRefines ==
    ASSUME Typed, Table, NEW r \in Request, CommitAdd(r)
    PROVE  Order!OrderNext
<1>1. edge[r] \in Edge /\ Order!AddEdge(edge[r])
  BY CommitKeepsTable DEF Order!AddEdge, Order!Acyclic, Order!Direct, Acyclic, Direct
<1>. QED
  BY <1>1 DEF Order!OrderNext, Order!Edge, Edge

\* A delete takes one from it.
LEMMA DeleteRefines ==
    ASSUME Typed, Table, Ids, NEW r \in Request, DeleteRow(r)
    PROVE  Order!OrderNext \/ UNCHANGED Edges
<1>1. CASE Doomed(r) = {}
  BY <1>1 DEF DeleteRow, Edges
<1>2. CASE Doomed(r) # {}
  <2>1. PICK w \in rows : Doomed(r) = {w}
    BY <1>2 DEF Doomed, Ids, IdsUnique
  <2>2. rows' = rows \ {w}
    BY <2>1 DEF DeleteRow
  <2>3. Edges' = Edges \ {w.edge} /\ w.edge \in Edges
    BY <2>2 DEF Edges, Table, UniqueEdges
  <2>4. w.edge \in Edge
    BY DEF Typed, TypeOK, Row
  <2>. QED
    BY <2>3, <2>4 DEF Order!OrderNext, Order!RemoveEdge, Order!Edge, Edge
<1>. QED
  BY <1>1, <1>2

\* Every step is one of the order, or a stutter.
LEMMA NextRefines ==
    Typed /\ Table /\ Ids /\ [Next]_vars => [Order!OrderNext]_Edges
<1>. SUFFICES ASSUME Typed, Table, Ids, [Next]_vars,
                     \A r \in Request : ~CommitAdd(r) /\ ~DeleteRow(r)
              PROVE  rows' = rows
  BY CommitRefines, DeleteRefines DEF Edges
<1>. QED
  BY DEF Next, Step, StartAdd, StartRemove, FindBlocker, LoadEdges, RejectAdd, AuditAdd,
         FindRowTask, AuditRemove, Fail, DeleteTask, vars

\* The concurrent calls behave as one atomic set of edges that only ever
\* takes an edge that keeps it acyclic.
THEOREM Implements == Spec => ImplementsOrder
<1>1. Init => Order!OrderInit
  BY InitRefines
<1>2. Typed /\ Table /\ Ids /\ [Next]_vars => [Order!OrderNext]_Edges
  BY NextRefines
<1>. QED
  BY <1>1, <1>2, TableHolds, IdsHold, PTL DEF Spec, ImplementsOrder, Order!OrderSpec
============================================================================
