----------------------------- MODULE MCMessaging -----------------------------
(***************************************************************************)
(* Three jobs, two of them at a time, over a thread of three messages.     *)
(***************************************************************************)
EXTENDS Messaging, TLC

CONSTANTS j1, j2, j3, c1, c2

MCJob == {j1, j2, j3}
MCConv == {c1, c2}

\* The times of Facebook are whole seconds: one that came after something else
\* may bear the same time.
MCSkew == {-1, 0}

\* The third message is a reply, posted twice or late, or a message that came
\* after one.
ShortThread == Len(thread) > 2 => \E m \in DOMAIN thread : thread[m].via # 0

\* A message bears the time of one before it, or of a stamp that the server made
\* before it, only as the second of two: the first has nothing to be passed with.
EarlySecond ==
    (\E m \in DOMAIN thread : thread[m].at <= m) => Len(thread) <= 2 /\ thread[1].at > 1

\* Jobs and rows of conversations are interchangeable.
Symmetry == Permutations(MCJob) \cup Permutations(MCConv)
============================================================================
