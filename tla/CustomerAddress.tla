-------------------------- MODULE CustomerAddress --------------------------
(***************************************************************************)
(* The delivery addresses of a customer and which of them is the default.  *)
(* Every SQL statement is a step.  At READ COMMITTED a statement sees what *)
(* is committed when it starts and what its own transaction wrote; an      *)
(* UPDATE finds its rows first, then waits for their locks, and then tests *)
(* its WHERE clause again on the rows it had found, and on no others.      *)
(*                                                                         *)
(*   create   counting -> inserting -> committing -> confirming -> answered*)
(*   delete   loading -> deleting -> choosing -> promoting -> committing   *)
(*   default  scanning -> demoting -> promoting -> committing -> answered  *)
(*   edit     reading -> writing -> confirming -> answered                 *)
(***************************************************************************)
EXTENDS Integers, FiniteSets, FiniteSetsExt

CONSTANTS
  Users, Requests, Kinds,
  Patches,      \* which fields an edit sends
  LastAddress,  \* bound: every address there can ever be, in order of creation
  LastEdited,   \* bound: the last address that is ever edited
  MaxPerUser    \* maxAddressesPerUser

VARIABLES
  owner,       \* customer_addresses.user_id of a row once inserted
  saved,       \* the rows that are committed and not deleted
  defaults,    \* the rows committed with is_default = true
  content,     \* what the fields of a row say
  rowLock,     \* the transaction that holds a row
  req,
  overlapped   \* customers with two requests in flight at once (history variable)

table == <<owner, saved, defaults, content>>
vars  == <<table, rowLock, req, overlapped>>

None == "none"
Addresses == 1..LastAddress
Fields == {"label", "address_text"}

ASSUME AddressConfig ==
  /\ LastAddress \in Nat
  /\ LastEdited \in Nat
  /\ Patches \subseteq SUBSET Fields
  /\ MaxPerUser \in Nat \ {0}
  /\ None \notin Users
  /\ None \notin Requests
  /\ IsFiniteSet(Requests)
  /\ Kinds \subseteq {"create", "delete", "default", "edit"}

Unedited == [f \in Fields |-> "created"]

Stage == {"answered", "counting", "inserting", "loading", "deleting", "choosing",
          "scanning", "demoting", "promoting", "committing", "reading", "writing",
          "confirming"}
\* A field says what it was created with, what an edit sent, or nothing.
Values == {"created", "sent", ""}
Request == [at: Stage, kind: Kinds \cup {None}, user: Users \cup {None},
            id: Addresses \cup {0}, patch: SUBSET Fields, seen: [Fields -> Values],
            flag: BOOLEAN, found: SUBSET Addresses, inserted: SUBSET Addresses,
            removed: SUBSET Addresses, demoted: SUBSET Addresses,
            promoted: SUBSET Addresses, next: Addresses \cup {0},
            answer: {None, "ok", "not_found", "too_many", "failed"}]

NoRequest == [at |-> "answered", kind |-> None, user |-> None, id |-> 0, patch |-> {},
              seen |-> Unedited, flag |-> FALSE, found |-> {},
              inserted |-> {}, removed |-> {}, demoted |-> {}, promoted |-> {},
              next |-> 0, answer |-> None]

Idle(r) == req[r].at = "answered"
Reply(r, a) == req' = [req EXCEPT ![r] = [NoRequest EXCEPT !.answer = a]]
Release(r) == rowLock' = [a \in Addresses |-> IF rowLock[a] = r THEN None ELSE rowLock[a]]
Free(r, rows) == \A a \in rows : rowLock[a] \in {None, r}
Lock(r, rows) ==
  rowLock' = [a \in Addresses |-> IF a \in rows THEN r ELSE rowLock[a]]

\* Mutant of Mine: WHERE id = ?, without the owner.
Mine_Any(u, a) == owner[a] # None

\* The WHERE clause user_id = ?.
Mine(u, a) == owner[a] = u

\* What a statement of q sees of its customer's rows.
Visible(q) == {a \in (saved \cup q.inserted) \ q.removed : Mine(q.user, a)}
VisibleDefaults(q) == ((defaults \ q.demoted) \cup q.promoted) \cap Visible(q)

-----------------------------------------------------------------------------
Init ==
  /\ owner = [a \in Addresses |-> None]
  /\ saved = {}
  /\ defaults = {}
  /\ content = [a \in Addresses |-> Unedited]
  /\ rowLock = [a \in Addresses |-> None]
  /\ req = [r \in Requests |-> NoRequest]
  /\ overlapped = {}

\* A customer's request arrives, with the caller's own id from the token.
Receive(r, q) ==
  /\ Idle(r)
  /\ req' = [req EXCEPT ![r] = q]
  /\ overlapped' = overlapped \cup
       {u \in {q.user} : \E s \in Requests \ {r} : req[s].user = u}
  /\ UNCHANGED <<table, rowLock>>

Ask(r) ==
  \E u \in Users :
    \/ /\ "create" \in Kinds
       /\ Receive(r, [NoRequest EXCEPT !.at = "counting", !.kind = "create", !.user = u])
    \/ \E a \in {b \in Addresses : owner[b] # None} :
         \/ /\ "delete" \in Kinds
            /\ Receive(r, [NoRequest EXCEPT !.at = "loading", !.kind = "delete",
                                            !.user = u, !.id = a])
         \/ /\ "default" \in Kinds
            /\ Receive(r, [NoRequest EXCEPT !.at = "scanning", !.kind = "default",
                                            !.user = u, !.id = a])
         \/ /\ "edit" \in Kinds
            /\ a <= LastEdited
            /\ \E p \in Patches :
                 Receive(r, [NoRequest EXCEPT !.at = "reading", !.kind = "edit",
                                              !.user = u, !.id = a, !.patch = p])

(* GormRepository.Create *)

UnderCap(q) == Cardinality(Visible(q)) < MaxPerUser

\* The first address a customer saves is their default.
FirstOne(q) == Visible(q) = {}

CountRows(r) ==
  /\ req[r].at = "counting"
  /\ \/ ~UnderCap(req[r]) /\ Reply(r, "too_many")
     \/ /\ UnderCap(req[r])
        /\ req' = [req EXCEPT ![r].at = "inserting", ![r].flag = FirstOne(req[r])]
  /\ UNCHANGED <<table, rowLock, overlapped>>

\* The row gets the next created_at; it is not visible to others yet.
InsertRow(r) ==
  /\ req[r].at = "inserting"
  /\ \E a \in Addresses :
       /\ owner[a] = None
       /\ \A b \in Addresses : b < a => owner[b] # None
       /\ owner' = [owner EXCEPT ![a] = req[r].user]
       /\ Lock(r, {a})
       /\ req' = [req EXCEPT ![r].at = "committing", ![r].id = a, ![r].inserted = {a},
                             ![r].promoted = IF req[r].flag THEN {a} ELSE {}]
  /\ UNCHANGED <<saved, defaults, content, overlapped>>

(* GormRepository.Delete *)

LoadRow(r) ==
  /\ req[r].at = "loading"
  /\ \/ req[r].id \notin Visible(req[r]) /\ Reply(r, "not_found")
     \/ /\ req[r].id \in Visible(req[r])
        /\ req' = [req EXCEPT ![r].at = "deleting", ![r].flag = req[r].id \in defaults]
  /\ UNCHANGED <<table, rowLock, overlapped>>

\* Only a deleted default, as it was loaded, needs a successor.
DeleteRow(r) ==
  LET a == req[r].id IN
  /\ req[r].at = "deleting"
  /\ Free(r, {a})
  /\ \/ a \notin Visible(req[r]) /\ Reply(r, "not_found") /\ UNCHANGED rowLock
     \/ /\ a \in Visible(req[r])
        /\ Lock(r, {a})
        /\ req' = [req EXCEPT ![r].removed = {a},
                              ![r].at = IF req[r].flag THEN "choosing" ELSE "committing"]
  /\ UNCHANGED <<table, overlapped>>

\* Mutant of Newest: nobody succeeds a deleted default.
Newest_None(rows) == 0

\* ORDER BY created_at DESC LIMIT 1.
Newest(rows) == IF rows = {} THEN 0 ELSE Max(rows)

ChooseNext(r) ==
  LET next == Newest(Visible(req[r])) IN
  /\ req[r].at = "choosing"
  /\ req' = [req EXCEPT ![r].next = next,
                        ![r].at = IF next = 0 THEN "committing" ELSE "promoting"]
  /\ UNCHANGED <<table, rowLock, overlapped>>

(* GormRepository.SetDefault *)

\* WHERE user_id = ? AND is_default = true, tested again under the locks.
Demoted(q) == q.found \cap VisibleDefaults(q)

ScanDefaults(r) ==
  /\ req[r].at = "scanning"
  /\ req' = [req EXCEPT ![r].at = "demoting", ![r].found = VisibleDefaults(req[r])]
  /\ UNCHANGED <<table, rowLock, overlapped>>

\* All rows are locked in one step.  PostgreSQL locks them one by one, which
\* can only add a deadlock, and that ends one request like any failure.
DemoteDefaults(r) ==
  /\ req[r].at = "demoting"
  /\ Free(r, req[r].found)
  /\ Lock(r, Demoted(req[r]))
  /\ req' = [req EXCEPT ![r].at = "promoting", ![r].next = req[r].id,
                        ![r].demoted = Demoted(req[r]), ![r].found = {}]
  /\ UNCHANGED <<table, overlapped>>

\* The second UPDATE of SetDefault and of Delete.  No row is an error for
\* SetDefault only, and rolls the demotion back.
PromoteRow(r) ==
  LET a == req[r].next IN
  /\ req[r].at = "promoting"
  /\ Free(r, {a})
  /\ \/ /\ a \in Visible(req[r])
        /\ Lock(r, {a})
        /\ req' = [req EXCEPT ![r].at = "committing", ![r].promoted = {a}]
     \/ /\ a \notin Visible(req[r]) /\ req[r].kind = "delete"
        /\ req' = [req EXCEPT ![r].at = "committing"]
        /\ UNCHANGED rowLock
     \/ /\ a \notin Visible(req[r]) /\ req[r].kind = "default"
        /\ Reply(r, "not_found")
        /\ Release(r)
  /\ UNCHANGED <<table, overlapped>>

Commit(r) ==
  LET q == req[r] IN
  /\ q.at = "committing"
  /\ saved' = (saved \cup q.inserted) \ q.removed
  /\ defaults' = ((defaults \ q.demoted) \cup q.promoted) \ q.removed
  /\ Release(r)
  /\ \/ /\ q.kind = "create"
        /\ req' = [req EXCEPT ![r].at = "confirming",
                              ![r].inserted = {}, ![r].promoted = {}]
     \/ q.kind # "create" /\ Reply(r, "ok")
  /\ UNCHANGED <<owner, content, overlapped>>

(* Service.Update *)

ReadRow(r) ==
  /\ req[r].at = "reading"
  /\ \/ req[r].id \notin Visible(req[r]) /\ Reply(r, "not_found")
     \/ /\ req[r].id \in Visible(req[r])
        /\ req' = [req EXCEPT ![r].at = "writing", ![r].seen = content[req[r].id]]
  /\ UNCHANGED <<table, rowLock, overlapped>>

\* Mutant of Merged: fields that were not sent are blanked.
Merged_Blank(q) == [f \in Fields |-> IF f \in q.patch THEN "sent" ELSE ""]

\* Patch.Apply: the fields that were sent, on top of those that were read.
Merged(q) == [f \in Fields |-> IF f \in q.patch THEN "sent" ELSE q.seen[f]]

\* A single UPDATE, a transaction of its own.
WriteRow(r) ==
  LET a == req[r].id IN
  /\ req[r].at = "writing"
  /\ Free(r, {a})
  /\ \/ a \notin Visible(req[r]) /\ Reply(r, "not_found") /\ UNCHANGED content
     \/ /\ a \in Visible(req[r])
        /\ content' = [content EXCEPT ![a] = Merged(req[r])]
        /\ req' = [req EXCEPT ![r].at = "confirming", ![r].patch = {}, ![r].seen = Unedited]
  /\ UNCHANGED <<owner, saved, defaults, rowLock, overlapped>>

\* The row is read back for the response.
Confirm(r) ==
  /\ req[r].at = "confirming"
  /\ Reply(r, IF req[r].id \in Visible(req[r]) THEN "ok" ELSE "failed")
  /\ UNCHANGED <<table, rowLock, overlapped>>

\* A statement fails, as the victim of a deadlock for one, or the client is
\* gone: the transaction is rolled back.
Fail(r) ==
  /\ ~Idle(r)
  /\ Reply(r, "failed")
  /\ Release(r)
  /\ UNCHANGED <<table, overlapped>>

Crash ==
  /\ \E r \in Requests : ~Idle(r)
  /\ req' = [r \in Requests |-> NoRequest]
  /\ rowLock' = [a \in Addresses |-> None]
  /\ UNCHANGED <<table, overlapped>>

Work(r) ==
  \/ CountRows(r) \/ InsertRow(r) \/ LoadRow(r) \/ DeleteRow(r) \/ ChooseNext(r)
  \/ ScanDefaults(r) \/ DemoteDefaults(r) \/ PromoteRow(r) \/ Commit(r)
  \/ ReadRow(r) \/ WriteRow(r) \/ Confirm(r)

Next ==
  \/ \E r \in Requests : Ask(r) \/ Work(r) \/ Fail(r)
  \/ Crash

Spec == Init /\ [][Next]_vars

-----------------------------------------------------------------------------
\* Every variable has its type; a flag is held by saved rows only, and a row
\* that a transaction locked for writing is one that was inserted.
TypeOK ==
  /\ owner \in [Addresses -> Users \cup {None}]
  /\ saved \subseteq {a \in Addresses : owner[a] # None}
  /\ defaults \subseteq saved
  /\ content \in [Addresses -> [Fields -> Values]]
  /\ rowLock \in [Addresses -> Requests \cup {None}]
  /\ req \in [Requests -> Request]
  /\ overlapped \subseteq Users

SavedBy(u) == {a \in saved : owner[a] = u}
DefaultsOf(u) == {a \in defaults : owner[a] = u}

\* "A customer has at most one default address", and one while any is left,
\* and never more rows than maxAddressesPerUser: through creates, deletes with
\* their promotion, and changes of the default, with rollbacks, as long as the
\* customer's own requests do not overlap; those of other customers may.  Two
\* first creates that both count before either commits leave two defaults,
\* although Create says that "deciding this inside the transaction is what stops
\* two concurrent creates from both seeing an empty list", and can pass the cap.
BookInOrderUnlessOverlapped ==
  \A u \in Users \ overlapped :
    /\ Cardinality(DefaultsOf(u)) = IF SavedBy(u) = {} THEN 0 ELSE 1
    /\ Cardinality(SavedBy(u)) <= MaxPerUser

\* "Every read and every write is scoped to the authenticated user": a row only
\* changes in a step of a request of its owner.
Touched(a) ==
  \/ (a \in saved) # (a \in saved')
  \/ (a \in defaults) # (a \in defaults')
  \/ content[a] # content'[a]

TouchedByOwner ==
  \A a \in Addresses : Touched(a) =>
    \E r \in Requests : req[r].user = owner'[a] /\ req'[r] # req[r]

OthersUntouched == [][TouchedByOwner]_vars

\* "An omitted field keeps its stored value rather than being blanked", unless
\* another request of the customer ran at the same time.
FieldsKept ==
  \A r \in Requests : \A f \in Fields \ req[r].patch :
    /\ req[r].at = "writing" /\ req'[r].at = "confirming"
    /\ req[r].user \notin overlapped
    => content'[req[r].id][f] = content[req[r].id][f]

OmittedFieldsKept == [][FieldsKept]_vars
=============================================================================
