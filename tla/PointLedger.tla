----------------------------- MODULE PointLedger -----------------------------
(***************************************************************************)
(* Loyalty points: user_points.total_points is a cache of the ledger       *)
(* user_point_histories.  POST /user/{id}/point/adjust decides on a        *)
(* balance it read before its transaction, and both it and GET             *)
(* /user/{id}/point answer with a balance read in two statements.          *)
(*                                                                         *)
(*   asking -AccountExists, rules-> reading -SELECT ledger-> halfRead      *)
(*     -SELECT cached-> answered                        (a balance), or    *)
(*     -SELECT cached, guard-> approved -INSERT-> inserted                 *)
(*     -upsert-> moved -COMMIT-> asking again, as a plain balance          *)
(*                                                                         *)
(* A ledger is its aggregates, which is all that the program reads of it.  *)
(***************************************************************************)
EXTENDS Integers, FiniteSets

CONSTANTS
  Users,
  Cashiers,       \* the accounts DELETE /cashier/{id}/delete can remove
  Requests,       \* request slots
  PointsSent,     \* what a client may send as points
  MaxAdjustment,  \* point.MaxAdjustment
  MaxTotal,       \* the largest value of the column total_points (int4)
  SeedTotal,      \* what the fixtures give every customer
  MaxEntries      \* bound: no adjustment is sent to a longer ledger

VARIABLES
  exists,   \* users.deleted_at IS NULL
  ledger,   \* the committed rows of user_point_histories, summed
  cached,   \* the committed total_points, 0 without a row
  rowBy,    \* who created the user_points row
  rowLock,  \* the request whose transaction holds the user_points row
  seedAt,   \* the seeder: between its two statements or not
  seedRows, \* whether the fixtures' ledger rows are there
  req       \* the in-flight requests

vars == <<exists, ledger, cached, rowBy, rowLock, seedAt, seedRows, req>>
seed == <<seedAt, seedRows>>
rows == <<ledger, cached, rowBy>>

None == "none"
Customers == Users \ Cashiers

ASSUME PointConfig ==
  /\ PointsSent \subseteq Int
  /\ MaxAdjustment \in Nat \ {0}
  /\ MaxTotal \in Nat
  /\ SeedTotal \in 0..MaxTotal
  /\ None \notin Requests
  /\ None \notin Users
  /\ Cashiers \subseteq Users

Ledger == [inflow: Nat, outflow: Nat, entries: Nat]
Stage == {"idle", "asking", "reading", "halfRead", "approved", "inserted",
          "moved", "answered"}
Request == [at: Stage, op: {None, "adjust", "balance"}, user: Users \cup {None},
            direction: {None, "in", "out", "sideways"}, points: Int,
            reasoned: BOOLEAN, seen: Int, drift: Int, total: Int,
            answer: {None, "ok", "validation", "not_found", "conflict", "internal"}]

NoRequest == [at |-> "idle", op |-> None, user |-> None, direction |-> None,
              points |-> 0, reasoned |-> FALSE, seen |-> 0, drift |-> 0,
              total |-> 0, answer |-> None]

Idle(r) == req[r].at \in {"idle", "answered"}

\* The balance the committed ledger adds up to.
Balance(u) == ledger[u].inflow - ledger[u].outflow

\* SUM(in) - SUM(out), as the query and the code after it compute it.
SelectLedger(u) == Balance(u)

Drift(u) == cached[u] - Balance(u)

Delta(q) == IF q.direction = "out" THEN -q.points ELSE q.points

Valid(q) ==
  /\ q.direction \in {"in", "out"}
  /\ q.points > 0 /\ q.points <= MaxAdjustment
  /\ q.reasoned

\* Mutant of Covers: a deduction is never refused.
Covers_Always(q) == TRUE

\* The guard against a negative balance, on the ledger as it was read.
Covers(q) == q.direction = "out" => q.seen - q.points >= 0

\* What the column total_points holds.
Fits(n) == -MaxTotal - 1 <= n /\ n <= MaxTotal

\* Mutant of NewTotal: the total is computed from the balance the guard read.
NewTotal_ReadBefore(q) == q.seen + Delta(q)

\* total_points = user_points.total_points + delta, under the row's lock.
NewTotal(q) == cached[q.user] + Delta(q)

AddRow(l, q) ==
  [inflow  |-> l.inflow  + (IF q.direction = "in"  THEN q.points ELSE 0),
   outflow |-> l.outflow + (IF q.direction = "out" THEN q.points ELSE 0),
   entries |-> l.entries + 1]

Reply(r, a) ==
  req' = [req EXCEPT ![r] = [NoRequest EXCEPT !.at = "answered", !.answer = a]]

Release(r) == rowLock' = [u \in Users |-> IF rowLock[u] = r THEN None ELSE rowLock[u]]

-----------------------------------------------------------------------------
Init ==
  /\ exists = [u \in Users |-> TRUE]
  /\ ledger = [u \in Users |-> [inflow |-> 0, outflow |-> 0, entries |-> 0]]
  /\ cached = [u \in Users |-> 0]
  /\ rowBy = [u \in Users |-> None]
  /\ rowLock = [u \in Users |-> None]
  /\ seedAt = "idle"
  /\ seedRows = FALSE
  /\ req = [r \in Requests |-> NoRequest]

\* GET /user/{id}/point.
AskBalance(r) ==
  /\ Idle(r)
  /\ \E u \in Users :
       req' = [req EXCEPT ![r] = [NoRequest EXCEPT
                 !.at = "asking", !.op = "balance", !.user = u]]
  /\ UNCHANGED <<exists, rows, rowLock, seed>>

\* POST /user/{id}/point/adjust.
AskAdjust(r) ==
  /\ Idle(r)
  /\ \E u \in Users, p \in PointsSent, d \in {"in", "out", "sideways"}, why \in BOOLEAN :
       /\ ledger[u].entries < MaxEntries
       /\ req' = [req EXCEPT ![r] = [NoRequest EXCEPT
                    !.at = "asking", !.op = "adjust", !.user = u,
                    !.points = p, !.direction = d, !.reasoned = why]]
  /\ UNCHANGED <<exists, rows, rowLock, seed>>

\* assertAccount comes first, so a missing account is a 404 even for a request
\* that would not have passed validation.
AssertAccount(r) ==
  /\ req[r].at = "asking"
  /\ \/ ~exists[req[r].user] /\ Reply(r, "not_found")
     \/ /\ exists[req[r].user]
        /\ req[r].op = "adjust" /\ ~Valid(req[r])
        /\ Reply(r, "validation")
     \/ /\ exists[req[r].user]
        /\ req[r].op = "adjust" => Valid(req[r])
        /\ req' = [req EXCEPT ![r].at = "reading"]
  /\ UNCHANGED <<exists, rows, rowLock, seed>>

\* repo.Balance, first statement.
ReadLedger(r) ==
  /\ req[r].at = "reading"
  /\ req' = [req EXCEPT ![r].at = "halfRead", ![r].seen = SelectLedger(req[r].user)]
  /\ UNCHANGED <<exists, rows, rowLock, seed>>

\* repo.Balance, second statement; then either the answer or the guard.
ReadCached(r) ==
  /\ req[r].at = "halfRead"
  /\ \/ /\ req[r].op = "balance"
        /\ req' = [req EXCEPT ![r] = [NoRequest EXCEPT
                     !.at = "answered", !.op = "balance", !.answer = "ok",
                     !.user = req[r].user, !.seen = req[r].seen,
                     !.drift = cached[req[r].user] - req[r].seen]]
     \/ req[r].op = "adjust" /\ ~Covers(req[r]) /\ Reply(r, "conflict")
     \/ /\ req[r].op = "adjust" /\ Covers(req[r])
        /\ req' = [req EXCEPT ![r].at = "approved"]
  /\ UNCHANGED <<exists, rows, rowLock, seed>>

\* The transaction's INSERT: a row nobody else sees before the commit.
InsertRow(r) ==
  /\ req[r].at = "approved"
  /\ req' = [req EXCEPT ![r].at = "inserted"]
  /\ UNCHANGED <<exists, rows, rowLock, seed>>

\* The upsert waits for the row (or for the transaction inserting it).  A total
\* beyond int4 fails the statement, and with it the transaction.
MoveTotal(r) ==
  /\ req[r].at = "inserted"
  /\ rowLock[req[r].user] = None
  /\ \/ /\ Fits(NewTotal(req[r]))
        /\ rowLock' = [rowLock EXCEPT ![req[r].user] = r]
        /\ req' = [req EXCEPT ![r].at = "moved", ![r].total = NewTotal(req[r])]
     \/ ~Fits(NewTotal(req[r])) /\ Reply(r, "internal") /\ UNCHANGED rowLock
  /\ UNCHANGED <<exists, rows, seed>>

\* What the commit makes visible, both halves at once.
Publish(q) ==
  /\ ledger' = [ledger EXCEPT ![q.user] = AddRow(@, q)]
  /\ cached' = [cached EXCEPT ![q.user] = q.total]
  /\ rowBy' = [rowBy EXCEPT ![q.user] = IF @ = None THEN "adjust" ELSE @]

\* After the commit Adjust returns Service.Balance, account check included.
Commit(r) ==
  /\ req[r].at = "moved"
  /\ Publish(req[r])
  /\ Release(r)
  /\ req' = [req EXCEPT ![r] = [NoRequest EXCEPT
               !.at = "asking", !.op = "balance", !.user = req[r].user]]
  /\ UNCHANGED <<exists, seed>>

\* A statement fails or the client goes away: the transaction rolls back.
Fail(r) ==
  /\ ~Idle(r)
  /\ Reply(r, "internal")
  /\ Release(r)
  /\ UNCHANGED <<exists, rows, seed>>

\* The process dies; so do its requests and their transactions.
Crash ==
  /\ \E r \in Requests : ~Idle(r)
  /\ req' = [r \in Requests |-> NoRequest]
  /\ rowLock' = [u \in Users |-> None]
  /\ UNCHANGED <<exists, rows, seed>>

\* DELETE /cashier/{id}/delete removes an account softly; its points stay.
DeleteCashier(u) ==
  /\ exists[u]
  /\ exists' = [exists EXCEPT ![u] = FALSE]
  /\ UNCHANGED <<rows, rowLock, seed, req>>

\* cmd/seed, stage "points", first statement.  It conflicts on the primary key
\* only, so a row an adjustment created fails it on the unique user_id.
SeedBalances ==
  /\ seedAt = "idle"
  /\ \A u \in Customers : rowLock[u] = None /\ rowBy[u] # "adjust"
  /\ cached' = [u \in Users |-> IF u \in Customers THEN SeedTotal ELSE cached[u]]
  /\ rowBy' = [u \in Users |-> IF u \in Customers THEN "seed" ELSE rowBy[u]]
  /\ seedAt' = "between"
  /\ UNCHANGED <<exists, ledger, rowLock, seedRows, req>>

\* Its second statement; the fixtures' rows have fixed ids, so only the first
\* time adds them.
SeedLedger ==
  /\ seedAt = "between"
  /\ ledger' = [u \in Users |->
       IF u \in Customers /\ ~seedRows
         THEN [ledger[u] EXCEPT !.inflow = @ + SeedTotal, !.entries = @ + 1]
         ELSE ledger[u]]
  /\ seedRows' = TRUE
  /\ seedAt' = "idle"
  /\ UNCHANGED <<exists, cached, rowBy, rowLock, req>>

\* The seeder dies or its second statement fails.
SeedDies ==
  /\ seedAt = "between"
  /\ seedAt' = "idle"
  /\ UNCHANGED <<exists, rows, rowLock, seedRows, req>>

Seeding == SeedBalances \/ SeedLedger \/ SeedDies

Work(r) ==
  \/ AssertAccount(r) \/ ReadLedger(r) \/ ReadCached(r)
  \/ InsertRow(r) \/ MoveTotal(r) \/ Commit(r)

Next ==
  \/ \E r \in Requests : AskBalance(r) \/ AskAdjust(r) \/ Work(r) \/ Fail(r)
  \/ Crash
  \/ \E u \in Cashiers : DeleteCashier(u)
  \/ Seeding

Spec == Init /\ [][Next]_vars

-----------------------------------------------------------------------------
\* Every variable has its type, and the column total_points never overflows.
TypeOK ==
  /\ exists \in [Users -> BOOLEAN]
  /\ ledger \in [Users -> Ledger]
  /\ cached \in [Users -> (-MaxTotal - 1)..MaxTotal]
  /\ rowBy \in [Users -> {None, "adjust", "seed"}]
  /\ rowLock \in [Users -> Requests \cup {None}]
  /\ seedAt \in {"idle", "between"}
  /\ seedRows \in BOOLEAN
  /\ req \in [Requests -> Request]

\* A transaction that has moved a total still holds the row it computed it
\* from, and nobody holds a row without such a transaction.
LocksHeld ==
  \A r \in Requests, u \in Users :
    rowLock[u] = r <=> req[r].at = "moved" /\ req[r].user = u

\* Repository.Adjust, "writes the ledger row and moves the cached total in ONE
\* transaction": whatever drift there is between cache and ledger, no request,
\* failure or crash changes it; only the seeder does.
DriftOnlyFromSeed ==
  [][\A u \in Users : Drift(u)' # Drift(u) => SeedBalances \/ SeedLedger]_vars

\* "Guard against a negative balance, judged against the ledger" (Adjust).  It
\* is judged before the transaction, so this is how far concurrent deductions
\* can overdraw an account: each of the other requests in flight can spend,
\* once, what it read before.
OverdraftBounded ==
  \A u \in Users :
    Balance(u) >= -((Cardinality(Requests) - 1) * MaxAdjustment)
=============================================================================
