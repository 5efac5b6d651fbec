----------------------------- MODULE MCContacts -----------------------------
(***************************************************************************)
(* An administrator and two users, of whom ann begins as the owner.        *)
(***************************************************************************)
EXTENDS Contacts, TLC

CONSTANTS ann, bob, root, c1, c2, j1, j2

MCUser == {ann, bob, root}
MCContact == {c1, c2}
MCJob == {j1, j2}
MCBulkList == <<c1, c2>>

\* Every call, with the arguments that tell the properties apart.
MCOps ==
    {<<"create", ann, c2, ann, Nobody, "READ">>}
    \cup {<<"update", u, c1, u, l, "READ">> : u \in {ann, bob}, l \in {"QUALIFIED_LEAD"}}
    \cup {<<"update", ann, c1, ann, "NEW", "READ">>, <<"update", bob, c1, bob, Nobody, "READ">>}
    \cup {<<"delete", u, c1, u, Nobody, "READ">> : u \in {ann, bob}}
    \cup {<<"assign", ann, c1, bob, Nobody, "READ">>}
    \cup {<<"bulk", root, c1, bob, Nobody, "READ">>}
    \cup {<<"share", ann, c1, bob, Nobody, v>> : v \in {"READ", "EDIT"}}
    \cup {<<"unshare", ann, c1, bob, Nobody, "READ">>, <<"relevel", ann, c1, bob, Nobody, "FULL">>}

\* What it takes to share a contact twice.
MCShareOps ==
    {<<"share", ann, c1, bob, Nobody, "READ">>, <<"unshare", ann, c1, bob, Nobody, "READ">>}

\* The stats are read, or have been.
Reading == faults > 0 \/ entry # {} \/ \E j \in Job : read[j].at # "idle"

\* The writes that the stats count, of every shape: an insert, an update, which
\* may fail after its write, a deletion, several writes in one call.
StatsCall(k) ==
    <<k.op, k.user, k.id, k.target, k.lead>> \in
        {<<"create", ann, c2, ann, Nobody>>, <<"update", ann, c1, ann, "NEW">>,
         <<"delete", ann, c1, ann, Nobody>>}
        \cup {<<"bulk", root, c, bob, Nobody>> : c \in Contact}

\* Sharing and qualifying do not meet a read of the stats, which does not know
\* of them: it meets two writes that it counts.
SharedOrRead ==
    Reading => /\ shares = 0 /\ written < 3
               /\ \A c \in Contact : Live(c) => contact[c].lead = "NEW"
               /\ \A j \in Job : call[j] # NoRow => StatsCall(call[j])

Symmetry == Permutations(MCJob)
=============================================================================
