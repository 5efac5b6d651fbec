-------------------------- MODULE Contacts_proofs --------------------------
(***************************************************************************)
(* For any number of calls, users and contacts, and without the bounds of  *)
(* the runs: what getStats answers is fresh, and a call that nobody raced  *)
(* writes what its user may write.                                         *)
(*                                                                         *)
(* A version covers the writes that were committed when it began.  No      *)
(* value stored under a version is older than what the version covers,     *)
(* and no write is acknowledged before a version covers it.  The row a     *)
(* call holds is the one in the table until another call races it.         *)
(***************************************************************************)
EXTENDS Contacts, TLAPS

Covered ==
    /\ \A v \in 0 .. version : covers[v] <= written
    /\ acked <= covers[version]

Cached == \A e \in entry : e.version \in 0 .. version /\ covers[e.version] <= e.value

\* How a read is on its way to an answer that is not older than its start.
Reading(j) ==
    LET r == read[j] IN
    /\ r.version \in 0 .. version /\ r.since <= acked
    /\ r.at = "store" => covers[r.version] <= r.value
    /\ r.at \in {"lookup", "load", "store"} /\ ~r.blind => r.since <= covers[r.version]
    /\ r.at = "done" /\ ~r.blind => r.since <= r.value

CacheInv == CacheTypeOK /\ Covered /\ Cached /\ \A j \in Job : Reading(j)

\* What a call has written is committed, and a call that answers without an
\* invalidation has written nothing.
Stamped(j) ==
    LET k == call[j] IN
    k # NoRow =>
        /\ {"op", "at", "some", "stamp"} \subseteq DOMAIN k
        /\ k.stamp \in Nat /\ k.stamp <= written
        /\ k.some = FALSE => k.stamp = 0
        /\ k.op # "bulk" /\ k.at \in {"permit", "write"} => k.stamp = 0

CallInv == DOMAIN call = Job /\ \A j \in Job : Stamped(j)

Inv == CacheInv /\ CallInv

----------------------------------------------------------------------------
LEMMA NoReadTyped == NoRead \in Read /\ NoRead.version = 0 /\ NoRead.since = 0
                     /\ NoRead.at = "idle" /\ NoRead.blind = FALSE
<1>1. (CHOOSE u \in User : TRUE) \in User
  BY ContactsAssumption
<1>. QED
  BY <1>1 DEF NoRead, Read

LEMMA InitInv == Init => Inv
<1>. SUFFICES ASSUME Init PROVE Inv
  OBVIOUS
<1>. USE DEF Init, CacheInit
<1>1. version = 0 /\ written = 0 /\ acked = 0 /\ entry = {}
  OBVIOUS
<1>2. covers \in [0 .. version -> Nat] /\ covers[0] = 0
  OBVIOUS
<1>3. ASSUME NEW j \in Job PROVE read[j] = NoRead
  OBVIOUS
<1>4. CacheTypeOK
  <2>1. read \in [Job -> Read]
    BY NoReadTyped
  <2>. QED
    BY <1>1, <1>2, <2>1 DEF CacheTypeOK
<1>5. Covered /\ Cached
  BY <1>1, <1>2 DEF Covered, Cached
<1>6. ASSUME NEW j \in Job PROVE Reading(j)
  BY <1>1, <1>3, NoReadTyped DEF Reading
<1>7. CallInv
  BY DEF CallInv, Stamped
<1>. QED
  BY <1>4, <1>5, <1>6, <1>7 DEF Inv, CacheInv

----------------------------------------------------------------------------
(* Reads *)

\* A step of one read that stores nothing.
LEMMA ReadMoves ==
    ASSUME CacheInv, NEW j \in Job, NEW r \in Read, read' = [read EXCEPT ![j] = r],
           UNCHANGED <<written, version, covers, acked>>, faults' \in Nat,
           entry' \subseteq entry, Reading(j)'
    PROVE  CacheInv'
<1>. USE DEF CacheInv
<1>1. CacheTypeOK'
  BY DEF CacheTypeOK
<1>2. Covered' /\ Cached'
  BY DEF Covered, Cached
<1>3. ASSUME NEW i \in Job, i # j PROVE Reading(i)'
  BY <1>3 DEF Reading, CacheTypeOK
<1>. QED
  BY <1>1, <1>2, <1>3

LEMMA StoreInv ==
    ASSUME CacheInv, NEW j \in Job, Store(j)
    PROVE  CacheInv'
<1>. USE DEF CacheInv
<1>0. /\ Reading(j) /\ read[j] \in Read /\ read[j].at = "store"
      /\ UNCHANGED <<written, version, covers, acked, faults>>
  BY DEF Store, CacheTypeOK
<1>. DEFINE r == [read[j] EXCEPT !.at = "done"]
            e == [version |-> read[j].version, scope |-> read[j].scope, value |-> read[j].value]
<1>1. r \in Read /\ r.at = "done" /\ r.version = read[j].version /\ r.since = read[j].since
      /\ r.blind = read[j].blind /\ r.value = read[j].value
  BY <1>0 DEF Read
<1>2. read' = [read EXCEPT ![j] = r]
  BY DEF Store, CacheTypeOK
<1>3. e \in Entry /\ e.version \in 0 .. version /\ covers[e.version] <= e.value
  BY <1>0 DEF Entry, Read, Reading
<1>4. entry' \subseteq entry \cup {e}
  BY DEF Store, KeyVersion
<1>5. CacheTypeOK'
  <2>1. read' \in [Job -> Read] /\ entry' \subseteq Entry
    BY <1>1, <1>2, <1>3, <1>4 DEF CacheTypeOK
  <2>. QED
    BY <1>0, <2>1 DEF CacheTypeOK
<1>6. Covered' /\ Cached'
  BY <1>0, <1>3, <1>4 DEF Covered, Cached
<1>7. ASSUME NEW i \in Job, i # j PROVE Reading(i)'
  BY <1>0, <1>2, <1>7 DEF Reading, CacheTypeOK
<1>8. Reading(j)'
  <2>1. read'[j] = r
    BY <1>2 DEF CacheTypeOK
  <2>2. ~read[j].blind => read[j].since <= read[j].value
    <3>1. read[j].version \in 0 .. version /\ covers[read[j].version] \in Nat
      BY <1>0 DEF Reading, CacheTypeOK
    <3>2. read[j].since \in Nat /\ read[j].value \in Nat
      BY <1>0 DEF Read
    <3>. QED
      BY <1>0, <3>1, <3>2 DEF Reading
  <2>. QED
    BY <1>0, <1>1, <2>1, <2>2 DEF Reading
<1>. QED
  BY <1>5, <1>6, <1>7, <1>8

LEMMA StartReadInv ==
    ASSUME CacheInv, NEW j \in Job, NEW u \in User, StartRead(j, u)
    PROVE  CacheInv'
<1>. DEFINE r == [NoRead EXCEPT !.at = "version", !.scope = u, !.since = acked]
<1>1. acked \in Nat /\ version \in Nat
  BY DEF CacheInv, CacheTypeOK
<1>2. r \in Read /\ r.at = "version" /\ r.version = 0 /\ r.since = acked
  BY <1>1, NoReadTyped DEF Read
<1>3. read' = [read EXCEPT ![j] = r] /\ UNCHANGED <<written, version, entry, covers, acked, faults>>
  BY DEF StartRead
<1>4. read'[j] = r
  BY <1>3 DEF CacheInv, CacheTypeOK
<1>. HIDE DEF r
<1>5. Reading(j)'
  <2>1. 0 \in 0 .. version' /\ acked <= acked'
    BY <1>1, <1>3
  <2>. QED
    BY <1>2, <1>4, <2>1, <1>3 DEF Reading
<1>. QED
  BY <1>2, <1>3, <1>5, ReadMoves DEF CacheInv, CacheTypeOK

LEMMA ReadStepInv ==
    ASSUME CacheInv, NEW j \in Job, ReadStep(j)
    PROVE  CacheInv'
<1>0. Reading(j) /\ read[j] \in Read /\ read \in [Job -> Read] /\ CacheTypeOK
  BY DEF CacheInv, CacheTypeOK
<1>1. read[j].version \in 0 .. version /\ read[j].since \in Nat
      /\ covers[read[j].version] \in Nat /\ covers[read[j].version] <= written
  BY <1>0 DEF Reading, Read, CacheTypeOK, CacheInv, Covered
<1>2. acked \in Nat /\ written \in Nat /\ version \in Nat /\ version \in 0 .. version
      /\ covers[version] \in Nat /\ acked <= covers[version]
  BY <1>0 DEF CacheTypeOK, CacheInv, Covered
<1>3. CASE ReadVersion(j)
  <2>. DEFINE r == [read[j] EXCEPT !.at = "lookup", !.version = version]
  <2>1. r \in Read /\ r.at = "lookup" /\ r.version = version /\ r.since = read[j].since
    BY <1>0, <1>2 DEF Read
  <2>2. read' = [read EXCEPT ![j] = r] /\ read'[j] = r
        /\ UNCHANGED <<written, version, entry, covers, acked, faults>>
    BY <1>0, <1>3 DEF ReadVersion
  <2>3. Reading(j)'
    BY <1>0, <1>1, <1>2, <2>1, <2>2 DEF Reading
  <2>. QED
    BY <1>0, <2>1, <2>2, <2>3, ReadMoves DEF CacheTypeOK
<1>4. CASE MissVersion(j)
  <2>. DEFINE r == [read[j] EXCEPT !.at = "lookup", !.blind = TRUE]
  <2>1. r \in Read /\ r.at = "lookup" /\ r.version = read[j].version
        /\ r.since = read[j].since /\ r.blind = TRUE
    BY <1>0 DEF Read
  <2>2. read' = [read EXCEPT ![j] = r] /\ read'[j] = r /\ faults' = faults + 1
        /\ UNCHANGED <<written, version, entry, covers, acked>>
    BY <1>0, <1>4 DEF MissVersion, Failing
  <2>3. Reading(j)'
    BY <1>0, <2>1, <2>2 DEF Reading
  <2>4. faults' \in Nat
    BY <1>0, <2>2 DEF CacheTypeOK
  <2>. QED
    BY <2>1, <2>2, <2>3, <2>4, ReadMoves
<1>5. CASE LookUp(j) \/ LookUpFails(j)
  <2>1. /\ read[j].at = "lookup" /\ faults' \in Nat
        /\ UNCHANGED <<written, version, entry, covers, acked>>
    BY <1>0, <1>5 DEF LookUp, LookUpFails, Failing, CacheTypeOK
  <2>2. CASE \E e \in Stored(read[j].version, read[j].scope) :
                 read' = [read EXCEPT ![j].at = "done", ![j].value = e.value]
    <3>1. PICK e \in Stored(read[j].version, read[j].scope) :
                 read' = [read EXCEPT ![j].at = "done", ![j].value = e.value]
      BY <2>2
    <3>2. e \in entry /\ e \in Entry /\ e.version = read[j].version /\ e.value \in Nat
          /\ covers[e.version] <= e.value
      BY <1>0 DEF Stored, CacheInv, Cached, CacheTypeOK, Entry
    <3>. DEFINE r == [read[j] EXCEPT !.at = "done", !.value = e.value]
    <3>3. r \in Read /\ r.at = "done" /\ r.version = read[j].version /\ r.value = e.value
          /\ r.since = read[j].since /\ r.blind = read[j].blind
      BY <1>0, <3>2 DEF Read
    <3>4. read' = [read EXCEPT ![j] = r] /\ read'[j] = r
      BY <1>0, <3>1
    <3>5. ~read[j].blind => read[j].since <= e.value
      BY <1>0, <1>1, <2>1, <3>2 DEF Reading
    <3>6. Reading(j)'
      BY <1>0, <2>1, <3>3, <3>4, <3>5 DEF Reading
    <3>. QED
      BY <2>1, <3>3, <3>4, <3>6, ReadMoves
  <2>3. CASE \E s \in BOOLEAN : read' = [read EXCEPT ![j] = [read[j] EXCEPT !.at = "load", !.stores = s]]
    <3>1. PICK s \in BOOLEAN : read' = [read EXCEPT ![j] = [read[j] EXCEPT !.at = "load", !.stores = s]]
      BY <2>3
    <3>. DEFINE r == [read[j] EXCEPT !.at = "load", !.stores = s]
    <3>2. r \in Read /\ r.at = "load" /\ r.version = read[j].version
          /\ r.since = read[j].since /\ r.blind = read[j].blind
      BY <1>0 DEF Read
    <3>3. read' = [read EXCEPT ![j] = r] /\ read'[j] = r
      BY <1>0, <3>1
    <3>4. Reading(j)'
      BY <1>0, <2>1, <3>2, <3>3 DEF Reading
    <3>. QED
      BY <2>1, <3>2, <3>3, <3>4, ReadMoves
  <2>4. CASE read' = [read EXCEPT ![j].at = "load"]
    <3>1. [read[j] EXCEPT !.at = "load"] = [read[j] EXCEPT !.at = "load", !.stores = read[j].stores]
          /\ read[j].stores \in BOOLEAN
      BY <1>0 DEF Read
    <3>. QED
      BY <2>3, <2>4, <3>1
  <2>. QED
    BY <1>5, <2>2, <2>3, <2>4 DEF LookUp, LookUpFails
<1>6. CASE Load(j)
  <2>. DEFINE r == [read[j] EXCEPT !.at = IF read[j].stores THEN "store" ELSE "done",
                                   !.value = written]
  <2>1. r \in Read /\ r.at \in {"store", "done"} /\ r.version = read[j].version
        /\ r.since = read[j].since /\ r.blind = read[j].blind /\ r.value = written
    BY <1>0, <1>2 DEF Read
  <2>2. read' = [read EXCEPT ![j] = r] /\ read'[j] = r /\ read[j].at = "load"
        /\ UNCHANGED <<written, version, entry, covers, acked, faults>>
    BY <1>0, <1>6 DEF Load
  <2>3. ~read[j].blind => read[j].since <= written /\ read[j].since <= covers[read[j].version]
    BY <1>0, <1>1, <1>2, <2>2 DEF Reading
  <2>4. Reading(j)'
    BY <1>0, <1>1, <2>1, <2>2, <2>3 DEF Reading
  <2>. QED
    BY <1>0, <2>1, <2>2, <2>4, ReadMoves DEF CacheTypeOK
<1>7. CASE StoreFails(j)
  <2>. DEFINE r == [read[j] EXCEPT !.at = "done"]
  <2>1. r \in Read /\ r.at = "done" /\ r.version = read[j].version /\ r.value = read[j].value
        /\ r.since = read[j].since /\ r.blind = read[j].blind /\ read[j].value \in Nat
    BY <1>0 DEF Read
  <2>2. read' = [read EXCEPT ![j] = r] /\ read'[j] = r /\ read[j].at = "store" /\ faults' \in Nat
        /\ UNCHANGED <<written, version, entry, covers, acked>>
    BY <1>0, <1>7 DEF StoreFails, Failing, CacheTypeOK
  <2>3. ~read[j].blind => read[j].since <= read[j].value
    BY <1>0, <1>1, <2>1, <2>2 DEF Reading
  <2>4. Reading(j)'
    BY <1>0, <2>1, <2>2, <2>3 DEF Reading
  <2>. QED
    BY <1>0, <2>1, <2>2, <2>4, ReadMoves DEF CacheTypeOK
<1>8. CASE EndRead(j)
  <2>1. read' = [read EXCEPT ![j] = NoRead] /\ read'[j] = NoRead
        /\ UNCHANGED <<written, version, entry, covers, acked>> /\ faults' \in Nat
    BY <1>0, <1>8 DEF EndRead, CacheTypeOK
  <2>2. Reading(j)'
    BY <1>2, <2>1, NoReadTyped DEF Reading
  <2>. QED
    BY <2>1, <2>2, NoReadTyped, ReadMoves
<1>. QED
  BY <1>3, <1>4, <1>5, <1>6, <1>7, <1>8, StoreInv DEF ReadStep

----------------------------------------------------------------------------
(* Calls *)

\* Most steps of a call touch the cache only by what they have committed.
LEMMA WrittenGrows ==
    ASSUME CacheInv, written' \in Nat, written' >= written, faults' \in Nat,
           UNCHANGED <<version, entry, covers, acked, read>>
    PROVE  CacheInv'
<1>. USE DEF CacheInv
<1>1. CacheTypeOK'
  BY DEF CacheTypeOK
<1>2. Covered'
  BY DEF Covered, CacheTypeOK
<1>3. Cached'
  BY DEF Cached
<1>4. ASSUME NEW j \in Job PROVE Reading(j)'
  BY DEF Reading
<1>. QED
  BY <1>1, <1>2, <1>3, <1>4

\* A new version covers everything that is written.
LEMMA InvalidateInv ==
    ASSUME CacheInv, NEW j \in Job, Stamped(j), Invalidate(j)
    PROVE  CacheInv'
<1>. USE DEF CacheInv
<1>1. call[j].stamp \in Nat /\ call[j].stamp <= written
  BY DEF Stamped, Invalidate, IsAt
<1>2. version' = version + 1 /\ UNCHANGED <<written, entry, read, faults>>
      /\ covers' = [v \in 0 .. version + 1 |-> IF v = version + 1 THEN written ELSE covers[v]]
  BY DEF Invalidate, Bump
<1>3. version \in Nat /\ written \in Nat /\ acked \in Nat /\ covers \in [0 .. version -> Nat]
  BY DEF CacheTypeOK
<1>4. covers'[version'] = written /\ \A v \in 0 .. version : v \in 0 .. version' /\ covers'[v] = covers[v]
  BY <1>2, <1>3
<1>5. acked' \in Nat /\ acked' >= acked /\ acked' <= written
  <2>1. acked <= written
    <3>1. version \in 0 .. version /\ covers[version] \in Nat
      BY <1>3
    <3>. QED
      BY <1>3, <3>1 DEF Covered
  <2>2. acked' = acked \/ (acked' = call[j].stamp /\ call[j].stamp > acked)
    BY DEF Invalidate, Answer
  <2>. QED
    BY <1>1, <1>3, <2>1, <2>2
<1>6. covers' \in [0 .. version' -> Nat]
  BY <1>2, <1>3
<1>7. CacheTypeOK'
  BY <1>2, <1>3, <1>5, <1>6 DEF CacheTypeOK
<1>8. Covered'
  <2>1. ASSUME NEW v \in 0 .. version' PROVE covers'[v] <= written'
    <3>1. CASE v = version'
      BY <1>2, <1>3, <1>4, <3>1
    <3>2. CASE v # version'
      <4>1. v \in 0 .. version
        BY <1>2, <1>3, <3>2
      <4>. QED
        BY <1>2, <1>4, <4>1 DEF Covered
    <3>. QED
      BY <3>1, <3>2
  <2>. QED
    BY <1>4, <1>5, <2>1 DEF Covered
<1>9. Cached'
  BY <1>2, <1>4 DEF Cached
<1>10. ASSUME NEW i \in Job PROVE Reading(i)'
  <2>1. read[i] \in Read /\ read[i].since \in Nat /\ Reading(i) /\ read'[i] = read[i]
    BY <1>2 DEF CacheTypeOK, Read
  <2>2. read[i].since <= acked'
    BY <1>3, <1>5, <2>1 DEF Reading
  <2>. QED
    BY <1>4, <2>1, <2>2 DEF Reading
<1>. QED
  BY <1>7, <1>8, <1>9, <1>10

\* What the other steps of a call leave alone.
LEMMA QuietStep ==
    ASSUME Inv, NEW j \in Job,
           NextContact(j) \/ EndBulk(j) \/ Permit(j) \/ WriteContact(j) \/ WriteRule(j)
             \/ Reread(j) \/ InvalidateFails(j) \/ Fail(j)
    PROVE  /\ written' \in {written, written + 1} /\ faults' \in {faults, faults + 1}
           /\ UNCHANGED <<version, entry, covers, acked, read>>
<1>. USE DEF IsAt, Answer, Refuse, Reject, Failing
<1>0. Stamped(j) /\ acked \in Nat
  BY DEF Inv, CallInv, CacheInv, CacheTypeOK
<1>1. CASE NextContact(j)
  BY <1>1 DEF NextContact, cacheVars
<1>2. CASE EndBulk(j)
  BY <1>0, <1>2 DEF EndBulk, Stamped
<1>3. CASE Permit(j)
  <2>1. CASE IsAt(j, "permit") /\ call[j].op = "assign" /\ Answer(j, TRUE)
    BY <1>0, <1>3, <2>1 DEF Permit, Stamped
  <2>2. CASE ~(IsAt(j, "permit") /\ call[j].op = "assign" /\ Answer(j, TRUE))
    BY <1>3, <2>2 DEF Permit
  <2>. QED
    BY <2>1, <2>2
<1>4. CASE WriteContact(j)
  BY <1>4 DEF WriteContact, Put
<1>5. CASE WriteRule(j)
  BY <1>5 DEF WriteRule, PutRule
<1>6. CASE Reread(j)
  BY <1>6 DEF Reread
<1>7. CASE InvalidateFails(j)
  BY <1>7 DEF InvalidateFails
<1>8. CASE Fail(j)
  BY <1>8 DEF Fail
<1>. QED
  BY <1>1, <1>2, <1>3, <1>4, <1>5, <1>6, <1>7, <1>8

\* Only the call that moves has its record changed.
LEMMA StampedKept ==
    ASSUME Inv, written' >= written, written' \in Nat, NEW j \in Job,
           DOMAIN call' = Job, \A i \in Job \ {j} : call'[i] = call[i], Stamped(j)'
    PROVE  CallInv'
<1>1. ASSUME NEW i \in Job, i # j PROVE Stamped(i)'
  BY <1>1 DEF Inv, CallInv, CacheInv, CacheTypeOK, Stamped
<1>. QED
  BY <1>1 DEF CallInv

\* A call that goes on keeps its number, or takes that of the write it has made.
LEMMA MovesStamped ==
    ASSUME Inv, NEW j \in Job, written' \in Nat, written' >= written, call'[j] # NoRow,
           NextContact(j) \/ EndBulk(j) \/ Permit(j) \/ WriteContact(j) \/ WriteRule(j)
             \/ Reread(j) \/ InvalidateFails(j) \/ Fail(j)
    PROVE  Stamped(j)'
<1>. USE DEF IsAt, Answer, Refuse, Reject
<1>0. Stamped(j) /\ DOMAIN call = Job /\ written \in Nat
  BY DEF Inv, CallInv, CacheInv, CacheTypeOK
<1>1. CASE NextContact(j)
  BY <1>0, <1>1 DEF NextContact, Stamped, cacheVars
<1>2. CASE EndBulk(j)
  BY <1>0, <1>2 DEF EndBulk, Stamped
<1>3. CASE Permit(j)
  BY <1>0, <1>3 DEF Permit, Stamped
<1>4. CASE WriteContact(j)
  BY <1>0, <1>4 DEF WriteContact, Put, Stamped
<1>5. CASE WriteRule(j)
  BY <1>0, <1>5 DEF WriteRule, PutRule, Stamped
<1>6. CASE Reread(j)
  BY <1>0, <1>6 DEF Reread, Stamped
<1>7. CASE InvalidateFails(j)
  BY <1>0, <1>7 DEF InvalidateFails, Stamped
<1>8. CASE Fail(j)
  BY <1>0, <1>8 DEF Fail, Stamped
<1>. QED
  BY <1>1, <1>2, <1>3, <1>4, <1>5, <1>6, <1>7, <1>8

LEMMA CallStepInv ==
    ASSUME Inv, NEW j \in Job, CallStep(j)
    PROVE  Inv'
<1>0. Stamped(j) /\ DOMAIN call = Job /\ CacheInv /\ CacheTypeOK
  BY DEF Inv, CallInv, CacheInv
<1>1. ASSUME Invalidate(j)
      PROVE  Inv'
  <2>1. CacheInv'
    BY <1>0, <1>1, InvalidateInv
  <2>2. call' = [call EXCEPT ![j] = NoRow] /\ written' = written
    BY <1>1 DEF Invalidate, Answer
  <2>3. CallInv'
    <3>1. written' >= written /\ written' \in Nat
      BY <1>0, <2>2 DEF CacheTypeOK
    <3>2. Stamped(j)' /\ DOMAIN call' = Job /\ \A i \in Job \ {j} : call'[i] = call[i]
      BY <1>0, <2>2 DEF Stamped
    <3>. QED
      BY <3>1, <3>2, StampedKept
  <2>. QED
    BY <2>1, <2>3 DEF Inv
<1>2. ASSUME NextContact(j) \/ EndBulk(j) \/ Permit(j) \/ WriteContact(j) \/ WriteRule(j)
               \/ Reread(j) \/ InvalidateFails(j) \/ Fail(j)
      PROVE  Inv'
  <2>0. /\ written' \in {written, written + 1} /\ faults' \in {faults, faults + 1}
        /\ UNCHANGED <<version, entry, covers, acked, read>>
    BY <1>2, QuietStep
  <2>1. written' >= written /\ written' \in Nat /\ faults' \in Nat
    BY <1>0, <2>0 DEF CacheTypeOK
  <2>2. CacheInv'
    BY <1>0, <2>0, <2>1, WrittenGrows
  <2>3. DOMAIN call' = Job /\ \A i \in Job \ {j} : call'[i] = call[i]
    BY <1>0, <1>2 DEF NextContact, EndBulk, Permit, WriteContact, WriteRule, Reread,
       InvalidateFails, Fail, Answer, Refuse, Reject, Put, PutRule
  <2>4. CASE call'[j] = NoRow
    <3>1. Stamped(j)'
      BY <2>4 DEF Stamped
    <3>. QED
      BY <2>1, <2>2, <2>3, <3>1, StampedKept DEF Inv
  <2>5. CASE call'[j] # NoRow
    <3>1. Stamped(j)'
      BY <1>0, <1>2, <2>1, <2>5, MovesStamped
    <3>. QED
      BY <2>1, <2>2, <2>3, <3>1, StampedKept DEF Inv
  <2>. QED
    BY <2>4, <2>5
<1>. QED
  BY <1>1, <1>2 DEF CallStep

LEMMA BeginInv ==
    ASSUME Inv, NEW j \in Job, NEW o,
           Create(j, o[2], o[3], o[4]) \/ Start(j, o[1], o[2], o[3], o[4], o[5], o[6])
    PROVE  Inv'
<1>0. Stamped(j) /\ DOMAIN call = Job /\ CacheInv /\ written \in Nat /\ faults \in Nat
  BY DEF Inv, CallInv, CacheInv, CacheTypeOK
<1>1. CASE Create(j, o[2], o[3], o[4])
  <2>1. written' = written + 1 /\ UNCHANGED <<version, entry, covers, acked, read, faults>>
    BY <1>1 DEF Create
  <2>2. CacheInv'
    BY <1>0, <2>1, WrittenGrows
  <2>3. Stamped(j)' /\ DOMAIN call' = Job /\ \A i \in Job \ {j} : call'[i] = call[i]
    BY <1>0, <1>1 DEF Create, Stamped
  <2>. QED
    BY <1>0, <2>1, <2>2, <2>3, StampedKept DEF Inv
<1>2. CASE Start(j, o[1], o[2], o[3], o[4], o[5], o[6])
  <2>1. UNCHANGED <<written, version, entry, covers, acked, read, faults>>
    BY <1>2 DEF Start, cacheVars
  <2>2. CacheInv'
    BY <1>0, <2>1, WrittenGrows
  <2>3. Stamped(j)' /\ DOMAIN call' = Job /\ \A i \in Job \ {j} : call'[i] = call[i]
    BY <1>0, <1>2, <2>1 DEF Start, Stamped
  <2>. QED
    BY <1>0, <2>1, <2>2, <2>3, StampedKept DEF Inv
<1>. QED
  BY <1>1, <1>2

LEMMA StepInv == Inv /\ [Next]_vars => Inv'
<1>. SUFFICES ASSUME Inv, [Next]_vars PROVE Inv'
  OBVIOUS
<1>0. CacheInv /\ CallInv
  BY DEF Inv
<1>1. ASSUME NEW j \in Job, NEW o \in Ops,
             Create(j, o[2], o[3], o[4]) \/ Start(j, o[1], o[2], o[3], o[4], o[5], o[6])
      PROVE  Inv'
  BY <1>1, BeginInv
<1>2. ASSUME NEW j \in Job, NEW u \in Readers, StartRead(j, u), UNCHANGED contactVars
      PROVE  Inv'
  <2>1. CacheInv'
    BY <1>0, <1>2, ContactsAssumption, StartReadInv
  <2>2. CallInv'
    BY <1>0, <1>2 DEF StartRead, contactVars, CallInv, Stamped
  <2>. QED
    BY <2>1, <2>2 DEF Inv
<1>3. ASSUME NEW j \in Job, CallStep(j)
      PROVE  Inv'
  BY <1>3, CallStepInv
<1>4. ASSUME NEW j \in Job, ReadStep(j), UNCHANGED contactVars
      PROVE  Inv'
  <2>1. CacheInv'
    BY <1>0, <1>4, ReadStepInv
  <2>2. written' = written /\ call' = call
    BY <1>4 DEF contactVars, ReadStep, ReadVersion, MissVersion, LookUp, LookUpFails,
       Load, Store, StoreFails, EndRead
  <2>3. CallInv'
    BY <1>0, <2>2 DEF CallInv, Stamped
  <2>. QED
    BY <2>1, <2>3 DEF Inv
<1>5. CASE Expire /\ UNCHANGED contactVars
  <2>1. /\ UNCHANGED <<written, version, covers, acked, read, faults, call>>
        /\ entry' \subseteq entry
    BY <1>5 DEF Expire, contactVars
  <2>2. CacheTypeOK' /\ Covered' /\ Cached'
    BY <1>0, <2>1 DEF CacheInv, CacheTypeOK, Covered, Cached
  <2>3. ASSUME NEW j \in Job PROVE Reading(j)'
    BY <1>0, <2>1 DEF CacheInv, Reading
  <2>4. CallInv'
    BY <1>0, <2>1 DEF CallInv, Stamped
  <2>. QED
    BY <2>2, <2>3, <2>4 DEF Inv, CacheInv
<1>6. CASE UNCHANGED vars
  <2>1. UNCHANGED <<written, version, entry, covers, acked, read, faults, call>>
    BY <1>6 DEF vars, cacheVars
  <2>2. CacheTypeOK' /\ Covered' /\ Cached'
    BY <1>0, <2>1 DEF CacheInv, CacheTypeOK, Covered, Cached
  <2>3. ASSUME NEW j \in Job PROVE Reading(j)'
    BY <1>0, <2>1 DEF CacheInv, Reading
  <2>4. CallInv'
    BY <1>0, <2>1 DEF CallInv, Stamped
  <2>. QED
    BY <2>2, <2>3, <2>4 DEF Inv, CacheInv
<1>. QED
  BY <1>1, <1>2, <1>3, <1>4, <1>5, <1>6 DEF Next

LEMMA Invariant == Spec => []Inv
  BY InitInv, StepInv, PTL DEF Spec

\* What getStats answers reflects every write whose call had answered when the
\* read began, whatever other reads, writes and expiries come in between, unless
\* Redis failed that write's invalidation or this read's look at the version.
THEOREM StatsAreFresh == Spec => []FreshStats
<1>1. Inv => FreshStats
  <2>. SUFFICES ASSUME Inv, NEW j \in Job, read[j].at = "done", ~read[j].blind
                PROVE  read[j].value >= read[j].since
    BY DEF FreshStats
  <2>1. Reading(j) /\ read[j] \in Read
    BY DEF Inv, CacheInv, CacheTypeOK
  <2>2. read[j].value \in Nat /\ read[j].since \in Nat
    BY <2>1 DEF Read
  <2>. QED
    BY <2>1, <2>2 DEF Reading
<1>. QED
  BY <1>1, Invariant, PTL

----------------------------------------------------------------------------
(* Who writes *)

Fields == {"op", "at", "user", "id", "target", "row", "rest"}

\* The arguments of a call stay what they were, and only a bulk call goes round.
Formed(j) ==
    LET k == call[j] IN
    k # NoRow => /\ Fields \subseteq DOMAIN k
                 /\ k.user \in User /\ k.id \in Contact /\ k.target \in User
                 /\ k.rest \in Seq(Contact) /\ (k.at = "next" => k.op = "bulk")

\* What a call that nobody raced has read is still so, and what it was
\* permitted then, it would be permitted now.
Fresh(j) ==
    LET k == call[j] IN
    k # NoRow /\ j \notin raced /\ k.at \in {"permit", "write"} =>
        /\ k.op \in {"update", "delete", "assign", "bulk"} => k.row = contact[k.id] /\ Live(k.id)
        /\ k.op \in {"unshare", "relevel"} => k.row = rule[<<k.id, k.target>>]
        /\ k.at = "write" => Permitted(k)

Rights ==
    /\ DOMAIN call = Job /\ DOMAIN contact = Contact /\ DOMAIN rule = Contact \X User
    /\ \A j \in Job : Formed(j) /\ Fresh(j)

LEMMA InitRights == Init => Rights
  BY DEF Init, Rights, Formed, Fresh

\* Whether a call is permitted depends on its contact and that contact's rules,
\* and on those of no other; a contact that appears takes no right away.
LEMMA PermittedKept ==
    ASSUME Rights, NEW i \in Job, call[i] # NoRow, call'[i] = call[i],
           Permitted(call[i]),
           \A u \in User : rule'[<<call[i].id, u>>] = rule[<<call[i].id, u>>],
           \/ contact'[call[i].id] = contact[call[i].id]
           \/ contact[call[i].id] = NoRow
              /\ call[i].op \notin {"update", "delete", "assign", "bulk"}
    PROVE  Permitted(call[i])'
<1>1. call[i].user \in User /\ Formed(i)
  BY DEF Rights, Formed
<1>2. \A u \in User : Shared(call[i].id, u)' <=> Shared(call[i].id, u)
  BY DEF Shared
<1>3. Manages(call[i].user, call[i].id) => Manages(call[i].user, call[i].id)'
  BY DEF Manages, Live
<1>4. CASE call[i].op \in {"update", "delete", "assign", "bulk"}
  <2>1. /\ Visible(call[i].user, call[i].id, call[i].row)' <=> Visible(call[i].user, call[i].id, call[i].row)
        /\ AccessLevel(call[i].user, call[i].id, call[i].row)'
              = AccessLevel(call[i].user, call[i].id, call[i].row)
    BY <1>1, <1>2 DEF Visible, AccessLevel
  <2>. QED
    BY <1>4, <2>1 DEF Permitted
<1>5. CASE call[i].op \notin {"update", "delete", "assign", "bulk"}
  BY <1>3, <1>5 DEF Permitted
<1>. QED
  BY <1>4, <1>5

\* A step of another call either leaves what this one has read alone, or races it.
LEMMA FreshKept ==
    ASSUME Rights, NEW i \in Job, call'[i] = call[i], i \in raced => i \in raced',
           \/ i \in raced'
           \/ call[i] = NoRow \/ call[i].at \notin {"permit", "write"}
           \/ /\ \A u \in User : rule'[<<call[i].id, u>>] = rule[<<call[i].id, u>>]
              /\ \/ contact'[call[i].id] = contact[call[i].id]
                 \/ contact[call[i].id] = NoRow
    PROVE  Formed(i)' /\ Fresh(i)'
<1>1. Formed(i) /\ Fresh(i)
  BY DEF Rights
<1>2. Formed(i)'
  BY <1>1 DEF Formed
<1>3. CASE call[i] = NoRow \/ i \in raced' \/ call[i].at \notin {"permit", "write"}
  BY <1>2, <1>3 DEF Fresh
<1>4. CASE ~(call[i] = NoRow \/ i \in raced' \/ call[i].at \notin {"permit", "write"})
  <2>. DEFINE k == call[i]
  <2>1. /\ \A u \in User : rule'[<<k.id, u>>] = rule[<<k.id, u>>]
        /\ contact'[k.id] = contact[k.id] \/ contact[k.id] = NoRow
        /\ k # NoRow /\ i \notin raced /\ k.at \in {"permit", "write"} /\ k.target \in User
    BY <1>1, <1>4 DEF Formed
  <2>2. k.op \in {"update", "delete", "assign", "bulk"}
          => contact'[k.id] = contact[k.id] /\ k.row = contact[k.id] /\ Live(k.id) /\ Live(k.id)'
    BY <1>1, <2>1 DEF Fresh, Live
  <2>3. k.op \in {"unshare", "relevel"} => k.row = rule'[<<k.id, k.target>>]
    BY <1>1, <2>1 DEF Fresh
  <2>4. k.at = "write" => Permitted(call[i])'
    <3>. SUFFICES ASSUME k.at = "write" PROVE Permitted(call[i])'
      OBVIOUS
    <3>1. Permitted(call[i])
      BY <1>1, <2>1 DEF Fresh
    <3>2. \/ contact'[k.id] = contact[k.id]
          \/ contact[k.id] = NoRow /\ k.op \notin {"update", "delete", "assign", "bulk"}
      BY <2>1, <2>2
    <3>. QED
      BY <2>1, <3>1, <3>2, PermittedKept
  <2>. QED
    BY <1>2, <2>2, <2>3, <2>4 DEF Fresh
<1>. QED
  BY <1>3, <1>4

\* What a step of a call leaves to the other calls.
LEMMA OthersKept ==
    ASSUME Rights, NEW j \in Job, CallStep(j), NEW i \in Job, i # j
    PROVE  Formed(i)' /\ Fresh(i)'
<1>0. Formed(i) /\ DOMAIN call = Job /\ DOMAIN contact = Contact /\ DOMAIN rule = Contact \X User
  BY DEF Rights
<1>1. call'[i] = call[i] /\ (i \in raced => i \in raced')
  BY <1>0 DEF CallStep, NextContact, EndBulk, Permit, WriteContact, WriteRule, Reread, Invalidate,
     InvalidateFails, Fail, Answer, Refuse, Reject, Put, PutRule
<1>2. CASE contact' = contact /\ rule' = rule
  BY <1>1, <1>2, FreshKept
<1>3. ASSUME NEW c, NEW row, NEW at, Put(j, c, row, at)
      PROVE  Formed(i)' /\ Fresh(i)'
  <2>1. CASE call[i] # NoRow /\ call[i].id = c /\ call[i].at \in {"permit", "write"}
    BY <1>1, <1>3, <2>1, FreshKept DEF Put, RacedBy
  <2>2. CASE call[i] # NoRow /\ call[i].id # c
    <3>1. contact'[call[i].id] = contact[call[i].id] /\ rule' = rule
      BY <1>0, <1>3, <2>2 DEF Put, Formed
    <3>. QED
      BY <1>1, <3>1, FreshKept
  <2>. QED
    BY <1>1, <2>1, <2>2, FreshKept
<1>4. ASSUME NEW c, NEW t, NEW r, PutRule(j, c, t, r), contact' = contact
      PROVE  Formed(i)' /\ Fresh(i)'
  <2>1. CASE call[i] # NoRow /\ call[i].id = c /\ call[i].at \in {"permit", "write"}
    BY <1>1, <1>4, <2>1, FreshKept DEF PutRule, RacedBy
  <2>2. CASE call[i] # NoRow /\ call[i].id # c
    <3>1. \A u \in User : rule'[<<call[i].id, u>>] = rule[<<call[i].id, u>>]
      BY <1>0, <1>4, <2>2 DEF PutRule, Formed
    <3>. QED
      BY <1>1, <1>4, <3>1, FreshKept
  <2>. QED
    BY <1>1, <2>1, <2>2, FreshKept
<1>5. CASE WriteContact(j)
  <2>1. (contact' = contact /\ rule' = rule) \/ \E c, row, at : Put(j, c, row, at)
    BY <1>5 DEF WriteContact
  <2>. QED
    BY <1>2, <1>3, <2>1
<1>6. CASE WriteRule(j)
  <2>1. contact' = contact /\ (rule' = rule \/ \E c, t, r : PutRule(j, c, t, r))
    BY <1>6 DEF WriteRule
  <2>. QED
    BY <1>2, <1>4, <2>1
<1>7. CASE ~(WriteContact(j) \/ WriteRule(j))
  BY <1>2, <1>7 DEF CallStep, NextContact, EndBulk, Permit, Reread, Invalidate,
     InvalidateFails, Fail
<1>. QED
  BY <1>5, <1>6, <1>7

\* What a step of a call makes of the call itself: only what has just been read
\* is held to be fresh, and only what was permitted is written.
LEMMA MoverKept ==
    ASSUME Rights, NEW j \in Job, CallStep(j)
    PROVE  Formed(j)' /\ Fresh(j)'
<1>0. Formed(j) /\ Fresh(j) /\ DOMAIN call = Job
  BY DEF Rights
<1>1. CASE call'[j] = NoRow
  BY <1>1 DEF Formed, Fresh
<1>2. CASE NextContact(j)
  <2>. DEFINE k == call[j]  c == Head(k.rest)
  <2>1. k # NoRow /\ k.rest \in Seq(Contact) /\ k.rest # <<>> /\ Fields \subseteq DOMAIN k
        /\ k.user \in User /\ k.target \in User
    BY <1>0, <1>2 DEF NextContact, IsAt, Formed
  <2>2. c \in Contact /\ Tail(k.rest) \in Seq(Contact)
    BY <2>1
  <2>3. UNCHANGED <<contact, rule>>
        /\ call' = [call EXCEPT ![j] = [k EXCEPT !.rest = Tail(k.rest), !.id = c, !.row = contact[c],
                                         !.at = IF Live(c) THEN "permit" ELSE "next"]]
    BY <1>2 DEF NextContact
  <2>4. call'[j] = [k EXCEPT !.rest = Tail(k.rest), !.id = c, !.row = contact[c],
                             !.at = IF Live(c) THEN "permit" ELSE "next"]
    BY <1>0, <2>3
  <2>5. /\ DOMAIN call'[j] = DOMAIN k
        /\ call'[j].rest = Tail(k.rest) /\ call'[j].id = c /\ call'[j].row = contact[c]
        /\ call'[j].user = k.user /\ call'[j].target = k.target /\ call'[j].op = k.op
        /\ call'[j].at = IF Live(c) THEN "permit" ELSE "next"
    BY <2>1, <2>4 DEF Fields
  <2>6. k.op = "bulk"
    BY <1>0, <1>2 DEF NextContact, IsAt, Formed
  <2>. QED
    BY <2>1, <2>2, <2>3, <2>5, <2>6 DEF Formed, Fresh, Live
<1>3. ASSUME call'[j] # NoRow, call[j] # NoRow, DOMAIN call'[j] = DOMAIN call[j],
             \A f \in {"op", "user", "id", "target", "rest"} : call'[j][f] = call[j][f],
             call'[j].at = "next" => call[j].op = "bulk",
             call'[j].at \notin {"permit", "write"}
      PROVE  Formed(j)' /\ Fresh(j)'
  BY <1>0, <1>3 DEF Formed, Fresh
<1>4. CASE Permit(j) /\ call'[j] # NoRow
  <2>. DEFINE k == call[j]
  <2>0. k # NoRow /\ k.at = "permit" /\ Fields \subseteq DOMAIN k
        /\ UNCHANGED <<contact, rule>> /\ raced' = raced
    BY <1>0, <1>4 DEF Permit, IsAt, Formed, Reject, Answer
  <2>1. CASE Permitted(k) /\ ~IsNoOp(k)
    <3>1. call'[j] = [k EXCEPT !.at = "write"]
      BY <1>0, <1>4, <2>1 DEF Permit, Reject
    <3>. QED
      BY <1>0, <2>0, <2>1, <3>1 DEF Formed, Fresh, Fields, Live, Permitted, Manages,
         Visible, AccessLevel, Shared
  <2>2. CASE ~(Permitted(k) /\ ~IsNoOp(k))
    <3>1. call'[j].at = "next" /\ k.op = "bulk" /\ DOMAIN call'[j] = DOMAIN k
          /\ \A f \in {"op", "user", "id", "target", "rest"} : call'[j][f] = k[f]
      BY <1>0, <1>4, <2>0, <2>2 DEF Permit, Reject, Answer, Fields
    <3>. QED
      BY <1>3, <1>4, <2>0, <3>1
  <2>. QED
    BY <2>1, <2>2
<1>5. CASE (WriteContact(j) \/ WriteRule(j) \/ EndBulk(j) \/ Reread(j) \/ Invalidate(j)
             \/ InvalidateFails(j) \/ Fail(j)) /\ call'[j] # NoRow
  <2>1. call[j] # NoRow /\ Fields \subseteq DOMAIN call[j]
    BY <1>0, <1>5 DEF WriteContact, WriteRule, EndBulk, Reread, Invalidate, InvalidateFails,
       Fail, IsAt, Formed
  <2>2. call'[j].at \notin {"permit", "write"} /\ (call'[j].at = "next" => call[j].op = "bulk")
        /\ DOMAIN call'[j] = DOMAIN call[j]
        /\ \A f \in {"op", "user", "id", "target", "rest"} : call'[j][f] = call[j][f]
    BY <1>0, <1>5, <2>1 DEF WriteContact, WriteRule, EndBulk, Reread, Invalidate, InvalidateFails,
       Fail, IsAt, Answer, Refuse, Reject, Put, PutRule, Fields
  <2>. QED
    BY <1>3, <1>5, <2>1, <2>2
<1>. QED
  BY <1>1, <1>2, <1>4, <1>5 DEF CallStep

LEMMA RightsStep == Rights /\ [Next]_vars => Rights'
<1>. SUFFICES ASSUME Rights, [Next]_vars PROVE Rights'
  OBVIOUS
<1>0. DOMAIN call = Job /\ DOMAIN contact = Contact /\ DOMAIN rule = Contact \X User
      /\ \A j \in Job : Formed(j) /\ Fresh(j)
  BY DEF Rights
<1>1. ASSUME NEW j \in Job, CallStep(j)
      PROVE  Rights'
  <2>1. DOMAIN call' = Job /\ DOMAIN contact' = Contact /\ DOMAIN rule' = Contact \X User
    BY <1>0, <1>1 DEF CallStep, NextContact, EndBulk, Permit, WriteContact, WriteRule, Reread,
       Invalidate, InvalidateFails, Fail, Answer, Refuse, Reject, Put, PutRule
  <2>. QED
    BY <1>1, <2>1, OthersKept, MoverKept DEF Rights
<1>2. ASSUME NEW j \in Job, NEW o \in Ops, Idle(j),
             Start(j, o[1], o[2], o[3], o[4], o[5], o[6]), o[1] # "create"
      PROVE  Rights'
  <2>1. UNCHANGED <<contact, rule, raced>>
        /\ call' = [call EXCEPT ![j] =
                  [op |-> o[1], at |-> IF o[1] = "bulk" THEN "next" ELSE "permit", user |-> o[2],
                   id |-> o[3], target |-> o[4], lead |-> o[5], level |-> o[6],
                   row |-> FirstRow(o[1], o[3], o[4]),
                   rest |-> IF o[1] = "bulk" THEN BulkList ELSE <<>>, some |-> FALSE, stamp |-> 0]]
    BY <1>2 DEF Start
  <2>2. o[2] \in User /\ o[3] \in Contact /\ o[4] \in User /\ BulkList \in Seq(Contact)
    BY ContactsAssumption, OpsAssumption
  <2>3. Formed(j)'
    BY <1>0, <2>1, <2>2 DEF Formed, Fields
  <2>4. Found(o[1], o[3], o[4])
    BY <1>2 DEF Start
  <2>5. Fresh(j)'
    BY <1>0, <2>1, <2>4 DEF Fresh, Found, FirstRow, Live
  <2>6. ASSUME NEW i \in Job, i # j PROVE Formed(i)' /\ Fresh(i)'
    <3>1. call'[i] = call[i]
      BY <1>0, <2>1, <2>6
    <3>. QED
      BY <2>1, <3>1, FreshKept
  <2>. QED
    BY <1>0, <2>1, <2>3, <2>5, <2>6 DEF Rights
<1>3. ASSUME NEW j \in Job, NEW o \in Ops, Create(j, o[2], o[3], o[4])
      PROVE  Rights'
  <2>1. /\ UNCHANGED <<rule, raced>> /\ contact[o[3]] = NoRow
        /\ contact' = [contact EXCEPT ![o[3]] = NewRow(o[4])]
        /\ call' = [call EXCEPT ![j] =
                  [op |-> "create", at |-> "invalidate", user |-> o[2], id |-> o[3],
                   target |-> o[4], lead |-> Nobody, level |-> "READ", row |-> NoRow,
                   rest |-> <<>>, some |-> TRUE, stamp |-> written + 1]]
    BY <1>3 DEF Create
  <2>2. o[2] \in User /\ o[3] \in Contact /\ o[4] \in User
    BY OpsAssumption
  <2>3. Formed(j)' /\ Fresh(j)'
    BY <1>0, <2>1, <2>2 DEF Formed, Fresh, Fields
  <2>4. ASSUME NEW i \in Job, i # j PROVE Formed(i)' /\ Fresh(i)'
    <3>1. call'[i] = call[i] /\ Formed(i)
      BY <1>0, <2>1, <2>4
    <3>2. call[i] # NoRow => contact'[call[i].id] = contact[call[i].id] \/ contact[call[i].id] = NoRow
      BY <1>0, <2>1, <3>1 DEF Formed
    <3>. QED
      BY <2>1, <3>1, <3>2, FreshKept
  <2>. QED
    BY <1>0, <2>1, <2>3, <2>4 DEF Rights
<1>4. CASE UNCHANGED contactVars
  <2>1. ASSUME NEW i \in Job PROVE Formed(i)' /\ Fresh(i)'
    BY <1>4, FreshKept DEF contactVars
  <2>. QED
    BY <1>0, <1>4, <2>1 DEF Rights, contactVars
<1>. QED
  BY <1>1, <1>2, <1>3, <1>4 DEF Next, vars, contactVars

LEMMA RightsHold == Spec => []Rights
  BY InitRights, RightsStep, PTL DEF Spec

\* A contact is written, and its sharing changed, only by those who may do so
\* as the write happens, unless another call changed the contact or its sharing
\* since this one read them: for any number of calls, users and contacts.
THEOREM WritesAuthorized == Spec => UnracedWriteAuthorized
<1>1. Rights => [\A j \in Job : Writes(j) /\ j \notin raced => Entitled(call[j])]_vars
  <2>. SUFFICES ASSUME Rights, NEW j \in Job, Writes(j), j \notin raced
                PROVE  Entitled(call[j])
    OBVIOUS
  <2>. DEFINE k == call[j]
  <2>1. k # NoRow /\ k.at = "write" /\ Fresh(j) /\ k.user \in User
    BY DEF Writes, IsAt, Rights, Formed
  <2>2. /\ Permitted(k)
        /\ k.op \in {"update", "delete", "assign", "bulk"} => k.row = contact[k.id]
        /\ k.op \in {"unshare", "relevel"} => k.row = rule[<<k.id, k.target>>]
    BY <2>1 DEF Fresh
  <2>3. CASE k.op \in {"update", "assign", "bulk", "delete"}
    BY <2>1, <2>2, <2>3 DEF Permitted, AccessLevel, Holders, Entitled
  <2>4. CASE k.op \notin {"update", "assign", "bulk", "delete"}
    BY <2>1, <2>2, <2>4 DEF Permitted, Manages, Holders, SharingOps, Entitled
  <2>. QED
    BY <2>3, <2>4
<1>. QED
  BY <1>1, RightsHold, PTL DEF UnracedWriteAuthorized

----------------------------------------------------------------------------
(* Types *)

\* An update has read the row it will write, and what a call on a sharing rule
\* has found is never removed, only marked deleted.
Held(j) ==
    LET k == call[j] IN
    k # NoRow =>
        /\ k.at = "next" => k.op = "bulk"
        /\ k.op = "update" /\ k.at \in {"permit", "write"} => k.row \in Row
        /\ k.op \in {"unshare", "relevel"} => rule[<<k.id, k.target>>] # NoRow

Typed ==
    /\ contact \in [Contact -> Row \cup {NoRow}]
    /\ rule \in [Contact \X User -> Rule \cup {NoRow}]
    /\ call \in [Job -> Call \cup {NoRow}]
    /\ raced \subseteq {j \in Job : call[j] # NoRow}
    /\ shares \in Nat
    /\ \A j \in Job : Held(j)

LEMMA NewRowTyped == ASSUME NEW u \in User PROVE NewRow(u) \in Row
  BY DEF NewRow, Row, Lead

LEMMA InitTyped == Init => Typed
<1>. SUFFICES ASSUME Init PROVE Typed
  OBVIOUS
<1>1. NewRow(FirstOwner) \in Row
  BY ContactsAssumption, NewRowTyped
<1>. QED
  BY <1>1 DEF Init, Typed, Held

\* A step of one call: what it makes of that call, of the contacts and the rules.
LEMMA TypedKept ==
    ASSUME Typed, NEW j \in Job, NEW k \in Call \cup {NoRow}, call' = [call EXCEPT ![j] = k],
           contact' \in [Contact -> Row \cup {NoRow}],
           rule' \in [Contact \X User -> Rule \cup {NoRow}],
           \A s \in Contact \X User : rule[s] # NoRow => rule'[s] # NoRow,
           raced' \subseteq raced \cup {i \in Job \ {j} : call[i] # NoRow},
           k = NoRow => j \notin raced',
           shares' \in Nat, Held(j)'
    PROVE  Typed'
<1>1. call' \in [Job -> Call \cup {NoRow}] /\ \A i \in Job \ {j} : call'[i] = call[i]
  BY DEF Typed
<1>2. call'[j] = k
  BY DEF Typed
<1>3. raced' \subseteq {i \in Job : call'[i] # NoRow}
  BY <1>1, <1>2 DEF Typed
<1>4. ASSUME NEW i \in Job, i # j PROVE Held(i)'
  <2>1. call[i] # NoRow => <<call[i].id, call[i].target>> \in Contact \X User
    BY DEF Typed, Call
  <2>. QED
    BY <1>1, <1>4, <2>1 DEF Held, Typed
<1>. QED
  BY <1>1, <1>3, <1>4 DEF Typed

LEMMA CallStepTyped ==
    ASSUME Typed, written \in Nat, NEW j \in Job, CallStep(j)
    PROVE  Typed'
<1>. DEFINE k == call[j]
<1>0. k \in Call /\ k # NoRow /\ Held(j)
  BY DEF Typed, CallStep, NextContact, EndBulk, Permit, WriteContact, WriteRule, Reread,
     Invalidate, InvalidateFails, Fail, IsAt
\* The call ends and leaves the tables alone.
<1>1. ASSUME UNCHANGED <<contact, rule, shares>>, call' = [call EXCEPT ![j] = NoRow],
             raced' = raced \ {j}
      PROVE  Typed'
  BY <1>1, TypedKept DEF Typed, Held
\* The call goes on, with the arguments it had.
<1>2. ASSUME NEW n \in Call, call' = [call EXCEPT ![j] = n],
             n.op = k.op, n.id = k.id, n.target = k.target,
             n.at = "next" => k.op = "bulk",
             n.at \notin {"permit", "write"} \/ (k.at = "permit" /\ n.row = k.row),
             raced' \subseteq raced \cup RacedBy(j, k.id), UNCHANGED <<rule, shares>>,
             contact' \in [Contact -> Row \cup {NoRow}]
      PROVE  Typed'
  <2>1. call'[j] = n /\ n # NoRow
    BY <1>2, NoCallAssumption DEF Typed
  <2>2. Held(j)'
    BY <1>0, <1>2, <2>1 DEF Held
  <2>. QED
    BY <1>2, <2>1, <2>2, TypedKept DEF Typed, RacedBy
<1>3. CASE NextContact(j)
  <2>. DEFINE c == Head(k.rest)
              n == [k EXCEPT !.rest = Tail(k.rest), !.id = c, !.row = contact[c],
                             !.at = IF Live(c) THEN "permit" ELSE "next"]
  <2>1. c \in Contact /\ Tail(k.rest) \in Seq(Contact)
    BY <1>0, <1>3 DEF Call, NextContact
  <2>2. n \in Call /\ n.op = "bulk"
    BY <1>0, <1>3, <2>1 DEF Call, Typed, NextContact, IsAt, Held
  <2>3. call' = [call EXCEPT ![j] = n] /\ raced' = raced \ {j} /\ UNCHANGED <<contact, rule, shares>>
    BY <1>3 DEF NextContact
  <2>4. call'[j] = n /\ n # NoRow
    BY <2>2, <2>3, NoCallAssumption DEF Typed
  <2>5. Held(j)'
    BY <2>2, <2>4 DEF Held
  <2>. QED
    BY <2>2, <2>3, <2>4, <2>5, TypedKept DEF Typed
<1>4. ASSUME NEW at \in {"next", "invalidate", "write"},
             call' = [call EXCEPT ![j] = [k EXCEPT !.at = at]],
             at = "next" => k.op = "bulk", at = "write" => k.at = "permit",
             UNCHANGED <<contact, rule, shares, raced>>
      PROVE  Typed'
  <2>. DEFINE n == [k EXCEPT !.at = at]
  <2>1. n \in Call /\ n.op = k.op /\ n.id = k.id /\ n.target = k.target /\ n.row = k.row /\ n.at = at
    BY <1>0, <1>4 DEF Call
  <2>. HIDE DEF n
  <2>. QED
    BY <1>2, <1>4, <2>1 DEF Typed, n
<1>5. ASSUME call' = [call EXCEPT ![j] = [k EXCEPT !.at = "next", !.some = TRUE]], k.op = "bulk",
             UNCHANGED <<contact, rule, shares, raced>>
      PROVE  Typed'
  <2>. DEFINE n == [k EXCEPT !.at = "next", !.some = TRUE]
  <2>1. n \in Call /\ n.op = k.op /\ n.id = k.id /\ n.target = k.target /\ n.at = "next"
    BY <1>0 DEF Call
  <2>. HIDE DEF n
  <2>. QED
    BY <1>2, <1>5, <2>1 DEF Typed, n
<1>. HIDE DEF k
<1>6. ASSUME Reject(j), UNCHANGED <<contact, rule, shares>>
      PROVE  Typed'
  <2>1. CASE k.op = "bulk"
    <3>1. call' = [call EXCEPT ![j] = [k EXCEPT !.at = "next"]] /\ raced' = raced
      BY <1>6, <2>1 DEF Reject, k
    <3>. QED
      BY <1>4, <1>6, <2>1, <3>1
  <2>2. CASE k.op # "bulk"
    BY <1>1, <1>6, <2>2 DEF Reject, Answer, k
  <2>. QED
    BY <2>1, <2>2
<1>7. CASE Permit(j)
  <2>1. UNCHANGED <<contact, rule, shares>> /\ k.at = "permit"
    BY <1>7 DEF Permit, IsAt, k
  <2>2. CASE Reject(j) \/ Answer(j, TRUE)
    BY <1>1, <1>6, <2>1, <2>2 DEF Answer
  <2>3. CASE call' = [call EXCEPT ![j] = [k EXCEPT !.at = "write"]] /\ raced' = raced
    BY <1>4, <2>1, <2>3
  <2>4. CASE call' = [call EXCEPT ![j] = [k EXCEPT !.at = "next", !.some = TRUE]]
             /\ raced' = raced /\ k.op = "bulk"
    BY <1>5, <2>1, <2>4
  <2>. QED
    BY <1>7, <2>2, <2>3, <2>4 DEF Permit, k
<1>8. CASE EndBulk(j) \/ Reread(j) \/ Invalidate(j) \/ InvalidateFails(j) \/ Fail(j)
  <2>1. UNCHANGED <<contact, rule, shares>>
    BY <1>8 DEF EndBulk, Reread, Invalidate, InvalidateFails, Fail
  <2>2. CASE Reject(j) \/ Answer(j, TRUE) \/ Answer(j, FALSE)
    BY <1>1, <1>6, <2>1, <2>2 DEF Answer
  <2>3. CASE call' = [call EXCEPT ![j] = [k EXCEPT !.at = "invalidate"]] /\ raced' = raced
    BY <1>4, <2>1, <2>3
  <2>. QED
    BY <1>8, <2>2, <2>3 DEF EndBulk, Reread, Invalidate, InvalidateFails, Fail, Refuse, k
<1>9. CASE WriteContact(j)
  <2>1. ASSUME NEW row \in Row, NEW at \in {"reread", "invalidate", "next"},
               Put(j, k.id, row, at), at = "next" => k.op = "bulk"
        PROVE  Typed'
    <3>. DEFINE n == [k EXCEPT !.at = at, !.some = TRUE, !.stamp = written + 1, !.row = NoRow]
    <3>0. written + 1 \in Nat /\ at \in {"next", "permit", "write", "reread", "invalidate"}
      OBVIOUS
    <3>1. n \in Call /\ n.op = k.op /\ n.id = k.id /\ n.target = k.target /\ n.at = at
      BY <1>0, <3>0 DEF Call
    <3>2. call' = [call EXCEPT ![j] = n] /\ raced' = raced \cup RacedBy(j, k.id)
          /\ UNCHANGED <<rule, shares>> /\ contact' = [contact EXCEPT ![k.id] = row]
      BY <2>1 DEF Put, k
    <3>3. contact' \in [Contact -> Row \cup {NoRow}]
      BY <3>2 DEF Typed
    <3>. HIDE DEF n
    <3>. QED
      BY <1>2, <2>1, <3>1, <3>2, <3>3
  <2>2. CASE ~Live(k.id)
    BY <1>6, <1>9, <2>2 DEF WriteContact, k
  <2>3. CASE Live(k.id)
    <3>1. contact[k.id] \in Row
      BY <1>0, <2>3 DEF Live, Typed, Call
    <3>2. CASE k.op = "update"
      <4>1. k.row \in Row
        BY <1>0, <1>9, <3>2 DEF Held, WriteContact, IsAt, k
      <4>2. Updated(k, contact[k.id]) \in Row
        BY <1>0, <3>1, <4>1 DEF Updated, Qualifier, Row, Lead, Call
      <4>. QED
        BY <1>9, <2>1, <2>3, <3>2, <4>2 DEF WriteContact, k
    <3>3. CASE k.op = "delete"
      <4>1. [contact[k.id] EXCEPT !.deleted = TRUE] \in Row
        BY <3>1 DEF Row
      <4>. QED
        BY <1>9, <2>1, <2>3, <3>3, <4>1 DEF WriteContact, k
    <3>4. CASE k.op \in {"assign", "bulk"}
      <4>1. [contact[k.id] EXCEPT !.owner = k.target] \in Row
        BY <1>0, <3>1 DEF Row, Call
      <4>. QED
        BY <1>9, <2>1, <2>3, <3>4, <4>1 DEF WriteContact, k
    <3>. QED
      BY <1>9, <2>3, <3>2, <3>3, <3>4 DEF WriteContact, k
  <2>. QED
    BY <2>2, <2>3
<1>10. CASE WriteRule(j)
  <2>. DEFINE s == <<k.id, k.target>>
  <2>1. s \in Contact \X User
    BY <1>0 DEF Call
  <2>2. ASSUME NEW r \in Rule, PutRule(j, k.id, k.target, r), contact' = contact
        PROVE  Typed'
    <3>1. rule' = [rule EXCEPT ![s] = r] /\ r # NoRow
      BY <2>2, RowAssumption DEF PutRule
    <3>2. rule' \in [Contact \X User -> Rule \cup {NoRow}]
          /\ \A z \in Contact \X User : rule[z] # NoRow => rule'[z] # NoRow
      BY <2>1, <3>1 DEF Typed
    <3>3. shares' \in Nat /\ call' = [call EXCEPT ![j] = NoRow] /\ contact' = contact
          /\ raced' = (raced \cup RacedBy(j, k.id)) \ {j}
      BY <2>2 DEF PutRule, Typed
    <3>4. call'[j] = NoRow
      BY <3>3 DEF Typed
    <3>5. Held(j)'
      BY <3>4 DEF Held
    <3>6. raced' \subseteq raced \cup {i \in Job \ {j} : call[i] # NoRow} /\ j \notin raced'
      BY <3>3 DEF RacedBy
    <3>. QED
      BY <3>2, <3>3, <3>5, <3>6, TypedKept DEF Typed
  <2>3. CASE k.op = "share"
    <3>1. [deleted |-> FALSE, level |-> k.level, sharedBy |-> k.user] \in Rule
      BY <1>0 DEF Rule, Call
    <3>2. CASE Refuse(j) /\ UNCHANGED <<rule, shares>> /\ contact' = contact
      BY <1>1, <3>2 DEF Refuse, Answer
    <3>. QED
      BY <1>10, <2>2, <2>3, <3>1, <3>2 DEF WriteRule, k
  <2>4. CASE k.op \in {"unshare", "relevel"}
    <3>1. rule[s] \in Rule
      BY <1>0, <2>1, <2>4 DEF Held, Typed, k
    <3>2. [rule[s] EXCEPT !.deleted = TRUE] \in Rule /\ [rule[s] EXCEPT !.level = k.level] \in Rule
      BY <1>0, <3>1 DEF Rule, Call
    <3>. QED
      BY <1>10, <2>2, <2>4, <3>2 DEF WriteRule, k
  <2>. QED
    BY <1>10, <2>3, <2>4 DEF WriteRule, k
<1>. QED
  BY <1>3, <1>7, <1>8, <1>9, <1>10 DEF CallStep

LEMMA BeginTyped ==
    ASSUME Typed, written \in Nat, NEW j \in Job, call[j] = NoRow, NEW o \in Ops,
           \/ Create(j, o[2], o[3], o[4])
           \/ o[1] # "create" /\ Start(j, o[1], o[2], o[3], o[4], o[5], o[6])
    PROVE  Typed'
<1>0. /\ o[1] \in ContactOps \cup SharingOps /\ o[2] \in User /\ o[3] \in Contact
      /\ o[4] \in User /\ o[5] \in Lead \cup {Nobody} /\ o[6] \in Level
      /\ BulkList \in Seq(Contact)
  BY OpsAssumption, ContactsAssumption
<1>1. CASE Create(j, o[2], o[3], o[4])
  <2>. DEFINE n == [op |-> "create", at |-> "invalidate", user |-> o[2], id |-> o[3],
                    target |-> o[4], lead |-> Nobody, level |-> "READ", row |-> NoRow,
                    rest |-> <<>>, some |-> TRUE, stamp |-> written + 1]
  <2>1. n \in Call /\ n.op = "create" /\ n.at = "invalidate"
    BY <1>0 DEF Call, ContactOps, SharingOps, Level
  <2>2. call' = [call EXCEPT ![j] = n] /\ UNCHANGED <<rule, raced, shares>>
        /\ contact' = [contact EXCEPT ![o[3]] = NewRow(o[4])]
    BY <1>1 DEF Create
  <2>. HIDE DEF n
  <2>3. NewRow(o[4]) \in Row
    BY <1>0, NewRowTyped
  <2>4. contact' \in [Contact -> Row \cup {NoRow}]
    BY <2>2, <2>3 DEF Typed
  <2>5. call'[j] = n /\ n # NoRow
    BY <2>1, <2>2, NoCallAssumption DEF Typed
  <2>6. Held(j)'
    BY <2>1, <2>5 DEF Held
  <2>. QED
    BY <2>1, <2>2, <2>4, <2>5, <2>6, TypedKept DEF Typed
<1>2. CASE o[1] # "create" /\ Start(j, o[1], o[2], o[3], o[4], o[5], o[6])
  <2>. DEFINE n == [op |-> o[1], at |-> IF o[1] = "bulk" THEN "next" ELSE "permit",
                    user |-> o[2], id |-> o[3], target |-> o[4], lead |-> o[5], level |-> o[6],
                    row |-> FirstRow(o[1], o[3], o[4]),
                    rest |-> IF o[1] = "bulk" THEN BulkList ELSE <<>>, some |-> FALSE, stamp |-> 0]
  <2>1. Found(o[1], o[3], o[4]) /\ call' = [call EXCEPT ![j] = n]
        /\ UNCHANGED <<contact, rule, raced, shares>>
    BY <1>2 DEF Start
  <2>2. FirstRow(o[1], o[3], o[4]) \in Row \cup Rule \cup {NoRow}
    BY <1>0 DEF FirstRow, Typed
  <2>3. /\ n \in Call /\ n.op = o[1] /\ n.id = o[3] /\ n.target = o[4]
        /\ n.row = FirstRow(o[1], o[3], o[4]) /\ n.at = IF o[1] = "bulk" THEN "next" ELSE "permit"
    BY <1>0, <2>2 DEF Call
  <2>. HIDE DEF n
  <2>4. o[1] = "update" => FirstRow(o[1], o[3], o[4]) \in Row
    BY <1>0, <2>1 DEF Found, FirstRow, Live, Typed
  <2>5. o[1] \in {"unshare", "relevel"} => rule[<<o[3], o[4]>>] # NoRow
    BY <2>1 DEF Found, Shared
  <2>6. call'[j] = n /\ n # NoRow
    BY <2>1, <2>3, NoCallAssumption DEF Typed
  <2>7. Held(j)'
    BY <2>1, <2>3, <2>4, <2>5, <2>6 DEF Held
  <2>. QED
    BY <2>1, <2>3, <2>6, <2>7, TypedKept DEF Typed
<1>. QED
  BY <1>1, <1>2

LEMMA TypedStep == Inv /\ Typed /\ [Next]_vars => Typed'
<1>. SUFFICES ASSUME Inv, Typed, [Next]_vars PROVE Typed'
  OBVIOUS
<1>0. written \in Nat
  BY DEF Inv, CacheInv, CacheTypeOK
<1>1. CASE UNCHANGED contactVars
  BY <1>1 DEF contactVars, Typed, Held
<1>. QED
  BY <1>0, <1>1, BeginTyped, CallStepTyped DEF Next, Idle, vars, contactVars

LEMMA TypedHolds == Spec => []Typed
  BY InitTyped, TypedStep, Invariant, PTL DEF Spec

\* The tables, the calls and the reads keep their types: whatever is deleted or
\* unshared meanwhile, a write finds the contact or the rule that it changes.
THEOREM TypeCorrect == Spec => []TypeOK
<1>1. Inv /\ Typed => TypeOK
  BY DEF Inv, CacheInv, Typed, TypeOK
<1>. QED
  BY <1>1, Invariant, TypedHolds, PTL

\* The first to qualify a contact stays on record, unless another call changed
\* the contact since this one read it.
THEOREM QualifierStays == Spec => UnracedQualifierKept
<1>1. Rights /\ Typed /\ [Next]_vars =>
        [\A j \in Job :
            Writes(j) /\ j \notin raced /\ call[j].op = "update"
                      /\ contact[call[j].id].qualifiedBy # Nobody
            => contact'[call[j].id].qualifiedBy
                  \in {contact[call[j].id].qualifiedBy, Nobody}]_vars
  <2>. SUFFICES ASSUME Rights, Typed, [Next]_vars, NEW j \in Job, Writes(j), j \notin raced,
                       call[j].op = "update", contact[call[j].id].qualifiedBy # Nobody
                PROVE  contact'[call[j].id].qualifiedBy
                          \in {contact[call[j].id].qualifiedBy, Nobody}
    OBVIOUS
  <2>. DEFINE k == call[j]
              old == contact[k.id]
  <2>1. k # NoRow /\ k \in Call /\ k.at = "write" /\ k.row = old /\ Live(k.id) /\ old \in Row
    BY DEF Writes, IsAt, Rights, Fresh, Typed, Call, Live
  <2>2. WriteContact(j)
    <3>1. ASSUME NEW i \in Job, i # j, CallStep(i)
          PROVE  FALSE
      <4>1. call'[j] = call[j]
        BY <3>1 DEF Rights, CallStep, NextContact, EndBulk, Permit, WriteContact, WriteRule,
           Reread, Invalidate, InvalidateFails, Fail, Answer, Refuse, Reject, Put, PutRule
      <4>. QED
        BY <4>1 DEF Writes
    <3>2. ASSUME NEW i \in Job, Idle(i), NEW o \in Ops,
                 \/ Create(i, o[2], o[3], o[4])
                 \/ Start(i, o[1], o[2], o[3], o[4], o[5], o[6])
          PROVE  FALSE
      <4>1. i # j
        BY <2>1, <3>2 DEF Idle
      <4>2. call'[j] = call[j]
        BY <3>2, <4>1 DEF Rights, Create, Start
      <4>. QED
        BY <4>2 DEF Writes
    <3>3. CASE UNCHANGED contactVars
      BY <3>3 DEF contactVars, Writes
    <3>4. CASE CallStep(j)
      BY <2>1, <3>4 DEF CallStep, NextContact, EndBulk, Permit, WriteRule, Reread, Invalidate,
         InvalidateFails, Fail, IsAt, Writes
    <3>. QED
      BY <3>1, <3>2, <3>3, <3>4 DEF Next, vars, contactVars
  <2>3. contact' = [contact EXCEPT ![k.id] = Updated(k, old)]
    <3>1. contact' # contact
      BY <2>2 DEF Writes, WriteContact, Put
    <3>. QED
      BY <2>1, <2>2, <3>1 DEF WriteContact, Put
  <2>4. contact'[k.id] = Updated(k, old)
    BY <2>1, <2>3 DEF Typed, Call
  <2>5. Updated(k, old).qualifiedBy \in {old.qualifiedBy, Nobody}
    <3>1. Qualifier(k) = old.qualifiedBy
      BY <2>1 DEF Qualifier
    <3>. QED
      BY <2>1, <3>1 DEF Updated, Row
  <2>. QED
    BY <2>4, <2>5
<1>. QED
  BY <1>1, RightsHold, TypedHolds, PTL DEF Spec, UnracedQualifierKept
============================================================================
