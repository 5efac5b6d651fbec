------------------------------ MODULE Contacts ------------------------------
(***************************************************************************)
(* ContactsService and SharingService of one tenant, over the cache that   *)
(* getStats reads.  A call on a contact reads its row, then reads what the *)
(* caller may do with it, then writes, in queries of their own; a call     *)
(* that wrote a contact ends by invalidating the cached stats.             *)
(*                                                                         *)
(* A contact is named by its email, which is unique whether or not the     *)
(* contact is deleted, and so is the pair of a contact and a user that a   *)
(* sharing rule joins.  Of the fields of a contact the model keeps the     *)
(* owner and the qualification.  Left out: lists and searches, which write *)
(* nothing; the team of a contact, which none of this reads; sharing with  *)
(* a team; activities and audit rows; users and roles, which stay as they  *)
(* are.                                                                    *)
(***************************************************************************)
EXTENDS TenantCache, Sequences

CONSTANTS Contact,
          Existing, FirstOwner, \* the contacts there are at first, and their owner
          Admin,      \* the users with the role ADMIN
          SeesAll,    \* the users whose roles let them see every contact
          Readers,    \* the users who ask for their stats
          Ops,        \* the calls to check, as <<op, user, contact, target, lead, level>>
          BulkList,   \* the contacts of a bulk call, in its order
          Nobody, NoRow,
          MaxWritten, \* bound: writes of contacts
          MaxShares   \* bound: writes of sharing rules

ASSUME ContactsAssumption ==
    /\ Admin \subseteq SeesAll /\ SeesAll \subseteq User /\ Readers \subseteq User
    /\ Nobody \notin User
    /\ BulkList \in Seq(Contact)
    /\ Existing \subseteq Contact /\ FirstOwner \in User

Level == {"READ", "EDIT", "FULL"}
Lead == {"NEW", "QUALIFIED_LEAD"}
Row == [deleted : BOOLEAN, owner : User, lead : Lead, qualifiedBy : User \cup {Nobody}]
Rule == [deleted : BOOLEAN, level : Level, sharedBy : User]

ASSUME RowAssumption == NoRow \notin Row \cup Rule

VARIABLES
    contact, \* the Contact table
    rule,    \* the SharingRule table, by contact and user
    call,    \* the calls in progress
    raced,   \* history: calls whose contact, or its sharing, changed since they read it
    shares   \* how many writes of sharing rules there were

vars == <<cacheVars, contact, rule, call, raced, shares>>
contactVars == <<contact, rule, call, raced, shares>>

ContactOps == {"create", "update", "delete", "assign", "bulk"}
SharingOps == {"share", "unshare", "relevel"}

\* lead is Nobody when update does not give it; target is the new owner or the
\* user to share with; rest is what a bulk call has left to do, wrote whether
\* it has succeeded with any, stamp the number of the call's last write.
Call == [op : ContactOps \cup SharingOps, at : {"next", "permit", "write", "reread", "invalidate"},
         user : User, id : Contact, target : User, lead : Lead \cup {Nobody}, level : Level,
         row : Row \cup Rule \cup {NoRow}, rest : Seq(Contact), some : BOOLEAN, stamp : Nat]

ASSUME NoCallAssumption == NoRow \notin Call

ASSUME OpsAssumption ==
    Ops \subseteq (ContactOps \cup SharingOps) \X User \X Contact \X User
                    \X (Lead \cup {Nobody}) \X Level

\* What create inserts.
NewRow(owner) == [deleted |-> FALSE, owner |-> owner, lead |-> "NEW", qualifiedBy |-> Nobody]

Init ==
    /\ CacheInit
    /\ contact = [c \in Contact |-> IF c \in Existing THEN NewRow(FirstOwner) ELSE NoRow]
    /\ rule = [s \in Contact \X User |-> NoRow]
    /\ call = [j \in Job |-> NoRow]
    /\ raced = {}
    /\ shares = 0

Idle(j) == call[j] = NoRow /\ read[j].at = "idle"

Live(c) == contact[c] # NoRow /\ ~contact[c].deleted
Shared(c, u) == rule[<<c, u>>] # NoRow /\ ~rule[<<c, u>>].deleted
IsAt(j, step) == call[j] # NoRow /\ call[j].at = step

\* The call answers, and acknowledges its writes if it answers without an error.
Answer(j, ok) ==
    /\ call' = [call EXCEPT ![j] = NoRow]
    /\ raced' = raced \ {j}
    /\ acked' = IF ok /\ call[j].stamp > acked THEN call[j].stamp ELSE acked

Refuse(j) == Answer(j, FALSE)

----------------------------------------------------------------------------
(* The first read of a call: the contact, or the sharing rule *)

\* The row a call begins with: create and share begin without one.
FirstRow(op, c, t) == IF op \in {"unshare", "relevel"} THEN rule[<<c, t>>] ELSE contact[c]
Found(op, c, t) ==
    \/ op \in {"bulk", "share"}
    \/ op \in {"update", "delete", "assign"} /\ Live(c)
    \/ op \in {"unshare", "relevel"} /\ Shared(c, t)

\* A call that finds nothing is refused at once, and not shown.
Start(j, op, u, c, t, l, v) ==
    /\ Found(op, c, t) /\ (op = "share" => t # u)
    /\ call' = [call EXCEPT ![j] =
                  [op |-> op, at |-> IF op = "bulk" THEN "next" ELSE "permit", user |-> u, id |-> c,
                   target |-> t, lead |-> l, level |-> v, row |-> FirstRow(op, c, t),
                   rest |-> IF op = "bulk" THEN BulkList ELSE <<>>, some |-> FALSE, stamp |-> 0]]
    /\ UNCHANGED <<cacheVars, contact, rule, raced, shares>>

\* assignOwnerBulk goes on to its next contact, whatever became of the last.
NextContact(j) ==
    /\ IsAt(j, "next") /\ call[j].rest # <<>>
    /\ LET c == Head(call[j].rest) IN
       call' = [call EXCEPT ![j].rest = Tail(@), ![j].id = c, ![j].row = contact[c],
                            ![j].at = IF Live(c) THEN "permit" ELSE "next"]
    /\ raced' = raced \ {j}
    /\ UNCHANGED <<cacheVars, contact, rule, shares>>

\* It invalidates the stats once, if it succeeded with any contact.
EndBulk(j) ==
    /\ IsAt(j, "next") /\ call[j].rest = <<>>
    /\ IF call[j].some
       THEN call' = [call EXCEPT ![j].at = "invalidate"] /\ UNCHANGED <<acked, raced>>
       ELSE Answer(j, TRUE)
    /\ UNCHANGED <<written, version, entry, covers, read, faults, contact, rule, shares>>

\* An error ends a call; a bulk call counts it and goes on.
Reject(j) ==
    IF call[j].op = "bulk"
    THEN call' = [call EXCEPT ![j].at = "next"] /\ UNCHANGED <<acked, raced>>
    ELSE Answer(j, FALSE)

----------------------------------------------------------------------------
(* The second read: what the caller may do *)

\* findOne, with resolveVisibilityFilter and resolveSharedRecordIds.
Visible(u, c, row) == row.owner = u \/ u \in SeesAll \/ Shared(c, u)

\* Mutant: any share lets its user write.
AccessLevel_Shared(u, c, row) ==
    CASE row.owner = u \/ u \in Admin \/ Shared(c, u) -> "FULL"
      [] OTHER -> "NONE"

\* resolveAccessLevel, with the owner that the first read saw.
AccessLevel(u, c, row) ==
    CASE row.owner = u \/ u \in Admin -> "FULL"
      [] row.owner # u /\ u \notin Admin /\ Shared(c, u) -> rule[<<c, u>>].level
      [] OTHER -> "NONE"

\* canManageSharing
Manages(u, c) == u \in Admin \/ (Live(c) /\ contact[c].owner = u)

Permitted(k) ==
    \/ k.op \in {"update", "assign", "bulk"} /\ Visible(k.user, k.id, k.row)
       /\ AccessLevel(k.user, k.id, k.row) \in {"EDIT", "FULL"}
    \/ k.op = "delete" /\ Visible(k.user, k.id, k.row)
       /\ AccessLevel(k.user, k.id, k.row) = "FULL"
    \/ k.op = "share" /\ Manages(k.user, k.id)
    \/ k.op \in {"unshare", "relevel"}
       /\ (k.row.sharedBy = k.user \/ Manages(k.user, k.id))

\* A contact that is the new owner's already is a success with nothing to write.
IsNoOp(k) == k.op \in {"assign", "bulk"} /\ k.row.owner = k.target

Permit(j) ==
    /\ IsAt(j, "permit")
    /\ \/ ~Permitted(call[j]) /\ Reject(j)
       \/ /\ Permitted(call[j]) /\ IsNoOp(call[j]) /\ call[j].op = "assign"
          /\ Answer(j, TRUE)
       \/ /\ Permitted(call[j]) /\ IsNoOp(call[j]) /\ call[j].op = "bulk"
          /\ call' = [call EXCEPT ![j].at = "next", ![j].some = TRUE]
          /\ UNCHANGED <<acked, raced>>
       \/ /\ Permitted(call[j]) /\ ~IsNoOp(call[j])
          /\ call' = [call EXCEPT ![j].at = "write"]
          /\ UNCHANGED <<acked, raced>>
    /\ UNCHANGED <<written, version, entry, covers, read, faults, contact, rule, shares>>

----------------------------------------------------------------------------
(* The writes *)

\* The other calls that have read this contact, or its sharing, now hold old news.
RacedBy(j, c) ==
    {i \in Job \ {j} : call[i] # NoRow /\ call[i].id = c /\ call[i].at \in {"permit", "write"}}

\* One write of the table of contacts.
Put(j, c, row, at) ==
    /\ written < MaxWritten
    /\ written' = written + 1
    /\ contact' = [contact EXCEPT ![c] = row]
    /\ call' = [call EXCEPT ![j].at = at, ![j].some = TRUE, ![j].stamp = written + 1,
                            ![j].row = NoRow]
    /\ raced' = raced \cup RacedBy(j, c)
    /\ UNCHANGED <<acked, rule, shares>>

\* create: the email is new, or the insert is a conflict and the call is refused.
Create(j, u, c, owner) ==
    /\ contact[c] = NoRow /\ written < MaxWritten
    /\ written' = written + 1
    /\ contact' = [contact EXCEPT ![c] = NewRow(owner)]
    /\ call' = [call EXCEPT ![j] =
                  [op |-> "create", at |-> "invalidate", user |-> u, id |-> c, target |-> owner,
                   lead |-> Nobody, level |-> "READ", row |-> NoRow, rest |-> <<>>,
                   some |-> TRUE, stamp |-> written + 1]]
    /\ UNCHANGED <<version, entry, covers, acked, read, faults, rule, raced, shares>>

\* Mutant: the last one to qualify the contact is recorded.
Qualifier_Last(k) == k.user

\* The first one to qualify a contact stays, as far as the call has read it.
Qualifier(k) == IF k.row.qualifiedBy # Nobody THEN k.row.qualifiedBy ELSE k.user

\* Mutant: a status that is not given is written as well.
Updated_NotGiven(k, row) ==
    [row EXCEPT !.lead = k.lead,
                !.qualifiedBy = IF k.lead = "QUALIFIED_LEAD" THEN Qualifier(k) ELSE Nobody]

Updated(k, row) ==
    CASE k.lead = "QUALIFIED_LEAD" -> [row EXCEPT !.lead = k.lead, !.qualifiedBy = Qualifier(k)]
      [] k.lead = "NEW" -> [row EXCEPT !.lead = k.lead, !.qualifiedBy = Nobody]
      [] OTHER -> row

\* The contact writes ask for a row that is not deleted; with none they fail.
WriteContact(j) ==
    LET k == call[j] IN
    /\ IsAt(j, "write") /\ k.op \in ContactOps
    /\ \/ ~Live(k.id) /\ Reject(j) /\ UNCHANGED <<written, contact, rule, shares>>
       \/ Live(k.id) /\ k.op = "update" /\ Put(j, k.id, Updated(k, contact[k.id]), "reread")
       \/ Live(k.id) /\ k.op = "delete"
          /\ Put(j, k.id, [contact[k.id] EXCEPT !.deleted = TRUE], "invalidate")
       \/ Live(k.id) /\ k.op = "assign"
          /\ Put(j, k.id, [contact[k.id] EXCEPT !.owner = k.target], "invalidate")
       \/ Live(k.id) /\ k.op = "bulk"
          /\ Put(j, k.id, [contact[k.id] EXCEPT !.owner = k.target], "next")
    /\ UNCHANGED <<version, entry, covers, read, faults>>

\* One write of the table of sharing rules, which ends its call.
PutRule(j, c, t, r) ==
    /\ shares < MaxShares
    /\ shares' = shares + 1
    /\ rule' = [rule EXCEPT ![<<c, t>>] = r]
    /\ call' = [call EXCEPT ![j] = NoRow]
    /\ raced' = (raced \cup RacedBy(j, c)) \ {j}

\* create inserts: a rule of the same contact and user, deleted or not, is a
\* conflict.  unshare and updateAccess write by id, deleted or not.
WriteRule(j) ==
    LET k == call[j]
        r == rule[<<k.id, k.target>>]
    IN
    /\ IsAt(j, "write")
    /\ \/ k.op = "share" /\ r # NoRow /\ Refuse(j) /\ UNCHANGED <<rule, shares>>
       \/ /\ k.op = "share" /\ r = NoRow
          /\ PutRule(j, k.id, k.target, [deleted |-> FALSE, level |-> k.level, sharedBy |-> k.user])
          /\ UNCHANGED acked
       \/ /\ k.op = "unshare"
          /\ PutRule(j, k.id, k.target, [r EXCEPT !.deleted = TRUE])
          /\ UNCHANGED acked
       \/ /\ k.op = "relevel"
          /\ PutRule(j, k.id, k.target, [r EXCEPT !.level = k.level])
          /\ UNCHANGED acked
    /\ UNCHANGED <<written, version, entry, covers, read, faults, contact>>

----------------------------------------------------------------------------
(* The end of a call *)

\* update reads the contact once more, and fails if the caller has lost sight
\* of it: the write stays and the stats are not invalidated.
Reread(j) ==
    LET k == call[j] IN
    /\ IsAt(j, "reread")
    /\ IF Live(k.id) /\ Visible(k.user, k.id, contact[k.id])
       THEN call' = [call EXCEPT ![j].at = "invalidate"] /\ UNCHANGED <<acked, raced>>
       ELSE Refuse(j)
    /\ UNCHANGED <<written, version, entry, covers, read, faults, contact, rule, shares>>

\* invalidateContactCaches
Invalidate(j) ==
    /\ IsAt(j, "invalidate")
    /\ Bump
    /\ Answer(j, TRUE)
    /\ UNCHANGED <<written, entry, read, faults, contact, rule, shares>>

\* The command fails and the call succeeds all the same: its write is not
\* counted as acknowledged, for the old stats stay until they expire.
InvalidateFails(j) ==
    /\ IsAt(j, "invalidate") /\ Failing
    /\ Refuse(j)
    /\ UNCHANGED <<written, version, entry, covers, read, contact, rule, shares>>

\* A query fails or the process stops.
Fail(j) ==
    /\ call[j] # NoRow /\ Failing
    /\ \/ Refuse(j)
       \/ call[j].at \in {"permit", "write"} /\ Reject(j)
    /\ UNCHANGED <<written, version, entry, covers, read, contact, rule, shares>>

----------------------------------------------------------------------------
CallStep(j) ==
    \/ NextContact(j) \/ EndBulk(j) \/ Permit(j) \/ WriteContact(j) \/ WriteRule(j)
    \/ Reread(j) \/ Invalidate(j) \/ InvalidateFails(j) \/ Fail(j)

Next ==
    \/ \E j \in Job :
          /\ Idle(j)
          /\ \/ \E o \in Ops : o[1] = "create" /\ Create(j, o[2], o[3], o[4])
             \/ \E o \in Ops : o[1] # "create" /\ Start(j, o[1], o[2], o[3], o[4], o[5], o[6])
             \/ \E u \in Readers : StartRead(j, u) /\ UNCHANGED contactVars
    \/ \E j \in Job : CallStep(j)
    \/ \E j \in Job : ReadStep(j) /\ UNCHANGED contactVars
    \/ Expire /\ UNCHANGED contactVars

Spec == Init /\ [][Next]_vars

----------------------------------------------------------------------------
(* Properties *)

TypeOK ==
    /\ CacheTypeOK
    /\ contact \in [Contact -> Row \cup {NoRow}]
    /\ rule \in [Contact \X User -> Rule \cup {NoRow}]
    /\ call \in [Job -> Call \cup {NoRow}]
    /\ raced \subseteq {j \in Job : call[j] # NoRow}
    /\ shares \in Nat

\* What getStats answers reflects every write whose call had answered when the
\* read began, however slow other reads are to store what they loaded: unless
\* Redis failed that write's invalidation, or this read's look at the version.
FreshStats ==
    \A j \in Job : read[j].at = "done" /\ ~read[j].blind => read[j].value >= read[j].since

\* Who holds a contact at this moment with one of these levels.
Holders(c, levels) ==
    {u \in User : \/ contact[c].owner = u \/ u \in Admin
                  \/ Shared(c, u) /\ rule[<<c, u>>].level \in levels}

Writes(j) == IsAt(j, "write") /\ (contact' # contact \/ rule' # rule) /\ call'[j] # call[j]

\* What the call is about to do is what its user may do at this moment.
Entitled(k) ==
    \/ k.op \in {"update", "assign", "bulk"} /\ k.user \in Holders(k.id, {"EDIT", "FULL"})
    \/ k.op = "delete" /\ k.user \in Holders(k.id, {"FULL"})
    \/ k.op \in SharingOps /\ k.user \in Holders(k.id, {})
    \/ k.op \in {"unshare", "relevel"} /\ k.user = rule[<<k.id, k.target>>].sharedBy

\* A contact is written, and its sharing changed, only by those who may do so
\* as the write happens, unless another call changed the contact or its sharing
\* since this one read them.
UnracedWriteAuthorized ==
    [][\A j \in Job : Writes(j) /\ j \notin raced => Entitled(call[j])]_vars

\* The decision history of a contact is not rewritten: a call that nobody raced
\* never puts a second user in the place of the one who qualified the contact.
UnracedQualifierKept ==
    [][\A j \in Job :
          Writes(j) /\ j \notin raced /\ call[j].op = "update"
                    /\ contact[call[j].id].qualifiedBy # Nobody
          => contact'[call[j].id].qualifiedBy \in {contact[call[j].id].qualifiedBy, Nobody}]_vars

\* "Sharing rule already exists", says the refusal of a share: there is a rule
\* that shares this contact with this user.
ConflictHasRule ==
    [][\A j \in Job :
          IsAt(j, "write") /\ call[j].op = "share" /\ call'[j] = NoRow
                           /\ shares' = shares /\ faults' = faults
          => Shared(call[j].id, call[j].target)]_vars
=============================================================================
