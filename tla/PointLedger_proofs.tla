------------------------- MODULE PointLedger_proofs -------------------------
(***************************************************************************)
(* For any set of accounts and requests: no adjustment, failure or crash   *)
(* changes how far the cached total is from the ledger, and concurrent     *)
(* deductions overdraw an account by no more than one each but for one.    *)
(*                                                                         *)
(* A commit publishes a total computed some steps earlier.  It is right    *)
(* because the row cannot have changed since: the transaction holds it     *)
(* (LocksHeld), and the total is what the row holds plus the movement      *)
(* (Computed).  How far an account can be overdrawn is settled by the      *)
(* spending request that read the ledger last: what it read covers it, and *)
(* only the others' deductions can have come in between (Backed).          *)
(***************************************************************************)
EXTENDS PointLedger, FiniteSetTheorems, TLAPS

\* A request under way knows its account, and only an adjustment that passed
\* validation gets as far as writing.
WellFormed ==
  \A r \in Requests :
    /\ ~Idle(r) => req[r].user \in Users
    /\ req[r].at \in {"approved", "inserted", "moved"} => req[r].op = "adjust"
    /\ req[r].op = "adjust" /\ req[r].at # "asking" => Valid(req[r])

\* The total a transaction is about to publish follows from the row as it is.
Computed ==
  \A r \in Requests :
    req[r].at = "moved" =>
      req[r].total = cached[req[r].user] + Delta(req[r]) /\ Fits(req[r].total)

IInv == TypeOK /\ LocksHeld /\ WellFormed /\ Computed

\* The reply to a refused request is a request record.
LEMMA NoRequestType == NoRequest \in Request
  BY DEF NoRequest, Request, Stage

\* So is the reply to any refused request.
LEMMA ReplyType ==
  ASSUME NEW a \in {"validation", "not_found", "conflict", "internal"}
  PROVE  [NoRequest EXCEPT !.at = "answered", !.answer = a] \in Request
  BY NoRequestType DEF Request, Stage

\* A reply keeps the requests typed and what is known of the others.
LEMMA Replied ==
  ASSUME IInv, NEW r \in Requests,
         NEW a \in {"validation", "not_found", "conflict", "internal"}, Reply(r, a)
  PROVE  /\ req' \in [Requests -> Request]
         /\ req'[r].at = "answered"
         /\ \A s \in Requests \ {r} : req'[s] = req[s]
         /\ WellFormed'
  <1> DEFINE q == [NoRequest EXCEPT !.at = "answered", !.answer = a]
  <1>1. q \in Request /\ q.at = "answered" /\ q.op = None
    BY ReplyType DEF NoRequest
  <1>2. req \in [Requests -> Request] /\ req' = [req EXCEPT ![r] = q]
    BY DEF IInv, TypeOK, Reply
  <1> HIDE DEF q
  <1>3. /\ req' \in [Requests -> Request] /\ req'[r] = q
        /\ \A s \in Requests \ {r} : req'[s] = req[s]
    BY <1>1, <1>2
  <1>4. WellFormed'
    BY <1>1, <1>3 DEF IInv, WellFormed, Idle, Valid, None
  <1> QED BY <1>1, <1>3, <1>4

\* Nothing is held, spent or computed in the initial state.
LEMMA InitIInv == Init => IInv
  <1> SUFFICES ASSUME Init PROVE IInv
    OBVIOUS
  <1> USE NoRequestType, PointConfig
  <1>1. TypeOK
    <2>1. [inflow |-> 0, outflow |-> 0, entries |-> 0] \in Ledger
      BY DEF Ledger
    <2>2. 0 \in (-MaxTotal - 1)..MaxTotal
      OBVIOUS
    <2>3. ledger \in [Users -> Ledger]
      BY <2>1 DEF Init
    <2>4. cached \in [Users -> (-MaxTotal - 1)..MaxTotal]
      BY <2>2 DEF Init
    <2>5. req \in [Requests -> Request]
      BY DEF Init
    <2>6. /\ rowBy \in [Users -> {None, "adjust", "seed"}]
          /\ rowLock \in [Users -> Requests \cup {None}]
          /\ seedAt \in {"idle", "between"}
      BY DEF Init
    <2>7. exists \in [Users -> BOOLEAN] /\ seedRows \in BOOLEAN
      BY DEF Init
    <2> QED BY <2>3, <2>4, <2>5, <2>6, <2>7 DEF TypeOK
  <1>2. LocksHeld
    BY DEF Init, LocksHeld, NoRequest
  <1>3. WellFormed
    BY DEF Init, WellFormed, NoRequest, Idle, None
  <1>4. Computed
    BY DEF Init, Computed, NoRequest
  <1> QED BY <1>1, <1>2, <1>3, <1>4 DEF IInv

\* A step that neither moves a request into or out of its transaction's last
\* stage nor touches rows and locks keeps LocksHeld and Computed.
LEMMA OutsideStep ==
  ASSUME IInv, UNCHANGED <<cached, rowLock>>, NEW r \in Requests,
         req[r].at # "moved", req'[r].at # "moved",
         \A s \in Requests \ {r} : req'[s] = req[s]
  PROVE  LocksHeld' /\ Computed'
  <1>1. LocksHeld'
    BY DEF IInv, LocksHeld
  <1>2. Computed'
    BY DEF IInv, Computed, Delta
  <1> QED BY <1>1, <1>2

\* Every step keeps the invariant.
LEMMA NextIInv == IInv /\ [Next]_vars => IInv'
  <1> SUFFICES ASSUME IInv, [Next]_vars PROVE IInv'
    OBVIOUS
  <1> USE NoRequestType, PointConfig
  <1>t. TypeOK
    BY DEF IInv
  <1>1. ASSUME NEW r \in Requests, AskBalance(r) PROVE IInv'
    <2>0. \A u \in Users :
            [NoRequest EXCEPT !.at = "asking", !.op = "balance", !.user = u] \in Request
      BY DEF NoRequest, Request, Stage
    <2>1. TypeOK'
      <3>1. PICK q \in Request : req' = [req EXCEPT ![r] = q]
        BY <1>1, <2>0 DEF AskBalance
      <3> QED BY <1>1, <1>t, <3>1 DEF AskBalance, TypeOK, rows, seed
    <2>2. LocksHeld' /\ Computed'
      BY <1>1, <1>t, OutsideStep DEF AskBalance, TypeOK, Idle, NoRequest, rows
    <2>3. WellFormed'
      BY <1>1, <1>t DEF IInv, AskBalance, TypeOK, WellFormed, Idle, NoRequest, Valid
    <2> QED BY <2>1, <2>2, <2>3 DEF IInv
  <1>2. ASSUME NEW r \in Requests, AskAdjust(r) PROVE IInv'
    <2>1. PICK u \in Users, p \in PointsSent, d \in {"in", "out", "sideways"}, why \in BOOLEAN :
            req' = [req EXCEPT ![r] = [NoRequest EXCEPT
                      !.at = "asking", !.op = "adjust", !.user = u,
                      !.points = p, !.direction = d, !.reasoned = why]]
      BY <1>2 DEF AskAdjust
    <2>2. TypeOK'
      BY <1>2, <1>t, <2>1 DEF AskAdjust, TypeOK, Request, NoRequest, Stage, rows, seed
    <2>3. LocksHeld' /\ Computed'
      BY <1>2, <1>t, <2>1, OutsideStep DEF AskAdjust, TypeOK, Idle, NoRequest, rows
    <2>4. WellFormed'
      BY <1>2, <1>t, <2>1 DEF IInv, TypeOK, WellFormed, Idle, NoRequest, Valid
    <2> QED BY <2>2, <2>3, <2>4 DEF IInv
  <1>3. ASSUME NEW r \in Requests, AssertAccount(r) PROVE IInv'
    <2>1. CASE Reply(r, "not_found") \/ Reply(r, "validation")
      <3>1. TypeOK' /\ WellFormed'
        BY <1>3, <1>t, <2>1, Replied DEF AssertAccount, TypeOK, rows, seed
      <3>2. LocksHeld' /\ Computed'
        BY <1>3, <2>1, Replied, OutsideStep DEF AssertAccount, rows
      <3> QED BY <3>1, <3>2 DEF IInv
    <2>2. CASE /\ req[r].op = "adjust" => Valid(req[r])
               /\ req' = [req EXCEPT ![r].at = "reading"]
      <3>1. TypeOK'
        BY <1>3, <1>t, <2>2 DEF AssertAccount, TypeOK, Request, Stage, rows, seed
      <3>2. LocksHeld' /\ Computed'
        BY <1>3, <1>t, <2>2, OutsideStep DEF AssertAccount, TypeOK, Request, rows
      <3>3. WellFormed'
        BY <1>3, <1>t, <2>2 DEF IInv, AssertAccount, TypeOK, WellFormed, Idle, Valid, Request
      <3> QED BY <3>1, <3>2, <3>3 DEF IInv
    <2> QED BY <1>3, <2>1, <2>2 DEF AssertAccount
  <1>4. ASSUME NEW r \in Requests, ReadLedger(r) PROVE IInv'
    <2>1. req[r].user \in Users
      BY <1>4 DEF IInv, WellFormed, ReadLedger, Idle
    <2>2. SelectLedger(req[r].user) \in Int
      BY <1>t, <2>1 DEF TypeOK, SelectLedger, Balance, Ledger
    <2>3. TypeOK'
      <3> DEFINE n == SelectLedger(req[r].user)
      <3>1. n \in Int /\ req' = [req EXCEPT ![r].at = "halfRead", ![r].seen = n]
        BY <1>4, <2>2 DEF ReadLedger
      <3> HIDE DEF n
      <3>2. [req[r] EXCEPT !.at = "halfRead", !.seen = n] \in Request
        BY <1>t, <3>1 DEF TypeOK, Request, Stage
      <3>3. req' \in [Requests -> Request]
        BY <1>t, <3>1, <3>2 DEF TypeOK
      <3> QED BY <1>4, <1>t, <3>3 DEF ReadLedger, TypeOK, rows, seed
    <2>4. LocksHeld' /\ Computed'
      BY <1>4, <1>t, OutsideStep DEF ReadLedger, TypeOK, Request, rows
    <2>5. WellFormed'
      BY <1>4, <1>t DEF IInv, ReadLedger, TypeOK, WellFormed, Idle, Valid, Request
    <2> QED BY <2>3, <2>4, <2>5 DEF IInv
  <1>5. ASSUME NEW r \in Requests, ReadCached(r) PROVE IInv'
    <2>1. req[r].user \in Users
      BY <1>5 DEF IInv, WellFormed, ReadCached, Idle
    <2>2. cached[req[r].user] - req[r].seen \in Int
      BY <1>t, <2>1 DEF TypeOK, Request
    <2>3. CASE req[r].op = "balance"
      <3> DEFINE q == [NoRequest EXCEPT
                         !.at = "answered", !.op = "balance", !.answer = "ok",
                         !.user = req[r].user, !.seen = req[r].seen,
                         !.drift = cached[req[r].user] - req[r].seen]
      <3>1. req' = [req EXCEPT ![r] = q]
        BY <1>5, <2>3 DEF ReadCached
      <3>2. q \in Request /\ q.at = "answered" /\ q.op = "balance"
        BY <1>t, <2>1, <2>2 DEF TypeOK, NoRequest, Request, Stage
      <3> HIDE DEF q
      <3>3. TypeOK'
        BY <1>5, <1>t, <3>1, <3>2 DEF ReadCached, TypeOK, rows, seed
      <3>4. LocksHeld' /\ Computed'
        BY <1>5, <1>t, <3>1, <3>2, OutsideStep DEF ReadCached, TypeOK, rows
      <3>5. WellFormed'
        BY <1>t, <3>1, <3>2 DEF IInv, TypeOK, WellFormed, Idle, Valid
      <3> QED BY <3>3, <3>4, <3>5 DEF IInv
    <2>4. CASE Reply(r, "conflict")
      <3>1. TypeOK' /\ WellFormed'
        BY <1>5, <1>t, <2>4, Replied DEF ReadCached, TypeOK, rows, seed
      <3>2. LocksHeld' /\ Computed'
        BY <1>5, <2>4, Replied, OutsideStep DEF ReadCached, rows
      <3> QED BY <3>1, <3>2 DEF IInv
    <2>5. CASE req[r].op = "adjust" /\ req' = [req EXCEPT ![r].at = "approved"]
      <3>1. TypeOK'
        BY <1>5, <1>t, <2>5 DEF ReadCached, TypeOK, Request, Stage, rows, seed
      <3>2. LocksHeld' /\ Computed'
        BY <1>5, <1>t, <2>5, OutsideStep DEF ReadCached, TypeOK, Request, rows
      <3>3. WellFormed'
        BY <1>5, <1>t, <2>5 DEF IInv, ReadCached, TypeOK, WellFormed, Idle, Valid, Request
      <3> QED BY <3>1, <3>2, <3>3 DEF IInv
    <2> QED BY <1>5, <2>3, <2>4, <2>5 DEF ReadCached
  <1>6. ASSUME NEW r \in Requests, InsertRow(r) PROVE IInv'
    <2>1. TypeOK'
      BY <1>6, <1>t DEF InsertRow, TypeOK, Request, Stage, rows, seed
    <2>2. LocksHeld' /\ Computed'
      BY <1>6, <1>t, OutsideStep DEF InsertRow, TypeOK, Request, rows
    <2>3. WellFormed'
      BY <1>6, <1>t DEF IInv, InsertRow, TypeOK, WellFormed, Idle, Valid, Request
    <2> QED BY <2>1, <2>2, <2>3 DEF IInv
  <1>7. ASSUME NEW r \in Requests, MoveTotal(r) PROVE IInv'
    <2> DEFINE u == req[r].user
    <2>1. u \in Users
      BY <1>7 DEF IInv, WellFormed, MoveTotal, Idle
    <2>2. NewTotal(req[r]) \in Int
      BY <1>t, <2>1 DEF TypeOK, NewTotal, Delta, Request
    <2>3. CASE ~Fits(NewTotal(req[r]))
      <3>1. Reply(r, "internal") /\ UNCHANGED rowLock
        BY <1>7, <2>3 DEF MoveTotal
      <3>2. TypeOK' /\ WellFormed'
        BY <1>7, <1>t, <3>1, Replied DEF MoveTotal, TypeOK, rows, seed
      <3>3. LocksHeld' /\ Computed'
        BY <1>7, <3>1, Replied, OutsideStep DEF MoveTotal, rows
      <3> QED BY <3>2, <3>3 DEF IInv
    <2>4. CASE Fits(NewTotal(req[r]))
      <3>1. /\ rowLock[u] = None
            /\ rowLock' = [rowLock EXCEPT ![u] = r]
            /\ req' = [req EXCEPT ![r].at = "moved", ![r].total = NewTotal(req[r])]
            /\ UNCHANGED <<exists, rows, seed>>
            /\ req[r].at = "inserted"
        BY <1>7, <2>4 DEF MoveTotal
      <3>2. TypeOK'
        <4> DEFINE n == NewTotal(req[r])
        <4>1. n \in Int /\ req' = [req EXCEPT ![r].at = "moved", ![r].total = n]
          BY <2>2, <3>1
        <4> HIDE DEF n
        <4>2. [req[r] EXCEPT !.at = "moved", !.total = n] \in Request
          BY <1>t, <4>1 DEF TypeOK, Request, Stage
        <4>3. req' \in [Requests -> Request]
          BY <1>t, <4>1, <4>2 DEF TypeOK
        <4> QED BY <1>t, <2>1, <3>1, <4>3 DEF TypeOK, rows, seed
      <3>3. LocksHeld'
        BY <1>t, <2>1, <3>1 DEF IInv, TypeOK, LocksHeld, Request
      <3>4. Computed'
        BY <1>t, <2>2, <2>4, <3>1 DEF IInv, TypeOK, Computed, NewTotal, Delta, Request, rows
      <3>5. WellFormed'
        BY <1>t, <2>1, <3>1 DEF IInv, TypeOK, WellFormed, Idle, Valid, Request
      <3> QED BY <3>2, <3>3, <3>4, <3>5 DEF IInv
    <2> QED BY <2>3, <2>4
  <1>8. ASSUME NEW r \in Requests, Commit(r) PROVE IInv'
    <2> DEFINE u == req[r].user
    <2>1. u \in Users /\ req[r].op = "adjust" /\ Valid(req[r]) /\ Fits(req[r].total)
      BY <1>8 DEF IInv, WellFormed, Commit, Idle, Computed
    <2>2. AddRow(ledger[u], req[r]) \in Ledger
      BY <1>t, <2>1 DEF TypeOK, AddRow, Ledger, Valid, Request
    <2>3. req[r].total \in Int
      BY <1>t DEF TypeOK, Request
    <2>4. [NoRequest EXCEPT !.at = "asking", !.op = "balance", !.user = u] \in Request
      BY <2>1 DEF NoRequest, Request, Stage
    <2>5. TypeOK'
      <3>1. req[r].total \in (-MaxTotal - 1)..MaxTotal
        BY <2>1, <2>3, PointConfig DEF Fits
      <3> QED BY <1>8, <1>t, <2>1, <2>2, <2>3, <2>4, <3>1 DEF Commit, Publish, Release, TypeOK, seed
    <2>6. LocksHeld'
      BY <1>8, <1>t, <2>1 DEF IInv, Commit, Release, TypeOK, LocksHeld, NoRequest
    <2>7. Computed'
      <3> SUFFICES ASSUME NEW s \in Requests, req'[s].at = "moved"
                   PROVE  (req[s].total = cached[req[s].user] + Delta(req[s])
                             /\ Fits(req[s].total))'
        BY DEF Computed
      <3>1. s # r /\ req'[s] = req[s]
        BY <1>8, <1>t DEF Commit, TypeOK, NoRequest
      <3>2. req[s].user # u
        BY <1>8, <3>1, <2>1 DEF IInv, LocksHeld, Commit
      <3>3. cached'[req[s].user] = cached[req[s].user]
        BY <1>8, <1>t, <3>1, <3>2 DEF IInv, Commit, Publish, TypeOK, WellFormed, Idle
      <3> QED BY <3>1, <3>3 DEF IInv, Computed, Delta
    <2>8. WellFormed'
      BY <1>8, <1>t, <2>1 DEF IInv, Commit, TypeOK, WellFormed, Idle, NoRequest, Valid
    <2> QED BY <2>5, <2>6, <2>7, <2>8 DEF IInv
  <1>9. ASSUME NEW r \in Requests, Fail(r) PROVE IInv'
    <2>1. TypeOK' /\ WellFormed'
      BY <1>9, <1>t, Replied DEF Fail, Release, TypeOK, rows, seed
    <2>2. LocksHeld'
      BY <1>9, <1>t, Replied DEF IInv, Fail, Release, TypeOK, LocksHeld
    <2>3. Computed'
      BY <1>9, <1>t, Replied DEF IInv, Fail, Computed, Delta, rows
    <2> QED BY <2>1, <2>2, <2>3 DEF IInv
  <1>10. ASSUME Crash PROVE IInv'
    <2>1. TypeOK'
      BY <1>10, <1>t DEF Crash, TypeOK, rows, seed
    <2>2. LocksHeld' /\ Computed' /\ WellFormed'
      BY <1>10 DEF Crash, LocksHeld, Computed, WellFormed, Idle, NoRequest, None
    <2> QED BY <2>1, <2>2 DEF IInv
  <1>11. ASSUME NEW u \in Users, DeleteCashier(u) PROVE IInv'
    BY <1>11 DEF IInv, DeleteCashier, TypeOK, LocksHeld, Computed, WellFormed,
                 Idle, Valid, Delta, rows, seed
  <1>12. ASSUME SeedBalances PROVE IInv'
    <2>0. SeedTotal \in (-MaxTotal - 1)..MaxTotal
      BY PointConfig
    <2>1. TypeOK'
      BY <1>12, <1>t, <2>0 DEF SeedBalances, TypeOK
    <2>2. LocksHeld' /\ WellFormed'
      BY <1>12 DEF IInv, SeedBalances, LocksHeld, WellFormed, Idle, Valid
    <2>3. Computed'
      <3> SUFFICES ASSUME NEW s \in Requests, req[s].at = "moved"
                   PROVE  cached'[req[s].user] = cached[req[s].user]
        BY <1>12 DEF IInv, Computed, SeedBalances, Delta
      <3>1. rowLock[req[s].user] = s /\ req[s].user \in Users
        BY DEF IInv, LocksHeld, WellFormed, Idle
      <3>2. req[s].user \notin Customers
        BY <1>12, <3>1 DEF SeedBalances
      <3> QED BY <1>12, <3>1, <3>2 DEF SeedBalances
    <2> QED BY <2>1, <2>2, <2>3 DEF IInv
  <1>13. ASSUME SeedLedger PROVE IInv'
    <2>1. TypeOK'
      <3>1. \A u \in Users :
              [ledger[u] EXCEPT !.inflow = @ + SeedTotal, !.entries = @ + 1] \in Ledger
        <4> SUFFICES ASSUME NEW u \in Users
                     PROVE  [ledger[u] EXCEPT !.inflow = @ + SeedTotal,
                                              !.entries = @ + 1] \in Ledger
          OBVIOUS
        <4>1. PICK l \in Ledger : l = ledger[u]
          BY <1>t DEF TypeOK
        <4>2. l.inflow + SeedTotal \in Nat /\ l.entries + 1 \in Nat
          BY <4>1 DEF Ledger
        <4> QED BY <4>1, <4>2 DEF Ledger
      <3>2. ledger' \in [Users -> Ledger]
        BY <1>13, <1>t, <3>1 DEF SeedLedger, TypeOK
      <3> QED BY <1>13, <1>t, <3>2 DEF SeedLedger, TypeOK
    <2>2. LocksHeld' /\ WellFormed' /\ Computed'
      BY <1>13 DEF IInv, SeedLedger, LocksHeld, WellFormed, Computed, Delta, Idle, Valid
    <2> QED BY <2>1, <2>2 DEF IInv
  <1>14. ASSUME SeedDies \/ UNCHANGED vars PROVE IInv'
    BY <1>14 DEF IInv, SeedDies, vars, TypeOK, LocksHeld, Computed, WellFormed,
                 Idle, Valid, Delta, rows, seed
  <1> HIDE DEF IInv
  <1>15. \A u \in Cashiers : u \in Users
    BY PointConfig
  <1> QED
    BY <1>1, <1>2, <1>3, <1>4, <1>5, <1>6, <1>7, <1>8, <1>9, <1>10, <1>11,
       <1>12, <1>13, <1>14, <1>15 DEF Next, Work, Seeding

\* The invariant in every reachable state.
LEMMA Invariance == Spec => []IInv
  BY InitIInv, NextIInv, PTL DEF Spec

\* Every variable keeps its type; no total ever leaves the range of its column.
THEOREM TypeCorrect == Spec => []TypeOK
  <1>1. IInv => TypeOK
    BY DEF IInv
  <1> QED BY <1>1, Invariance, PTL

\* A held row and a transaction about to publish it come together: two
\* adjustments of one account never compute their totals from the same value.
THEOREM LocksAreHeld == Spec => []LocksHeld
  <1>1. IInv => LocksHeld
    BY DEF IInv
  <1> QED BY <1>1, Invariance, PTL

\* The one transaction of Repository.Adjust: whatever the interleaving, failure
\* or crash, nothing but the seeder changes the drift of an account.
THEOREM AdjustKeepsDrift == Spec => DriftOnlyFromSeed
  <1> DEFINE A == \A u \in Users : Drift(u)' # Drift(u) => SeedBalances \/ SeedLedger
  <1>1. IInv /\ [Next]_vars => [A]_vars
    <2> SUFFICES ASSUME IInv, Next, NEW u \in Users, ~SeedBalances, ~SeedLedger
                 PROVE  Drift(u)' = Drift(u)
      OBVIOUS
    <2>1. CASE \E r \in Requests : Commit(r)
      <3>1. PICK r \in Requests : Commit(r)
        BY <2>1
      <3>0. PICK v \in Users : v = req[r].user
        BY <3>1 DEF IInv, WellFormed, Commit, Idle
      <3>2. Valid(req[r]) /\ req[r].total = cached[v] + Delta(req[r])
        BY <3>0, <3>1 DEF IInv, WellFormed, Computed, Commit, Idle
      <3>3. /\ ledger' = [ledger EXCEPT ![v] = AddRow(@, req[r])]
            /\ cached' = [cached EXCEPT ![v] = req[r].total]
        BY <3>0, <3>1 DEF Commit, Publish
      <3>4. /\ ledger \in [Users -> Ledger] /\ cached \in [Users -> Int]
            /\ req[r] \in Request
        BY DEF IInv, TypeOK
      <3>5. CASE u # v
        BY <3>3, <3>4, <3>5 DEF Drift, Balance
      <3>6. CASE u = v
        <4>1. cached'[v] = cached[v] + Delta(req[r])
          BY <3>2, <3>3, <3>4
        <4>2. ledger'[v] = AddRow(ledger[v], req[r])
          BY <3>2, <3>3, <3>4
        <4>3. Balance(v)' = Balance(v) + Delta(req[r])
          <5>1. /\ ledger[v].inflow \in Int /\ ledger[v].outflow \in Int
                /\ req[r].points \in Int /\ req[r].direction \in {"in", "out"}
            BY <3>2, <3>4 DEF Valid, Request, Ledger
          <5>2. CASE req[r].direction = "in"
            <6>1. /\ ledger'[v].inflow = ledger[v].inflow + req[r].points
                  /\ ledger'[v].outflow = ledger[v].outflow + 0
              BY <4>2, <5>2 DEF AddRow
            <6> QED BY <5>1, <5>2, <6>1 DEF Balance, Delta
          <5>3. CASE req[r].direction = "out"
            <6>1. /\ ledger'[v].inflow = ledger[v].inflow + 0
                  /\ ledger'[v].outflow = ledger[v].outflow + req[r].points
              BY <4>2, <5>3 DEF AddRow
            <6> QED BY <5>1, <5>3, <6>1 DEF Balance, Delta
          <5> QED BY <5>1, <5>2, <5>3
        <4>4. Balance(v) \in Int /\ Delta(req[r]) \in Int /\ cached[v] \in Int
          BY <3>2, <3>4 DEF Balance, Delta, Ledger, Request
        <4>5. Drift(v)' = Drift(v)
          <5>1. /\ Drift(v)' = cached'[v] - Balance(v)'
                /\ Drift(v) = cached[v] - Balance(v)
            BY DEF Drift
          <5> QED BY <4>1, <4>3, <4>4, <5>1
        <4> QED BY <3>6, <4>5
      <3> QED BY <3>5, <3>6
    <2>2. CASE ~\E r \in Requests : Commit(r)
      <3>1. UNCHANGED <<ledger, cached>>
        BY <2>2 DEF Next, Work, Seeding, AskBalance, AskAdjust, AssertAccount, ReadLedger,
                    ReadCached, InsertRow, MoveTotal, Fail, Crash, DeleteCashier,
                    SeedDies, rows
      <3> QED BY <3>1 DEF Drift, Balance
    <2> QED BY <2>1, <2>2
  <1> QED BY <1>1, Invariance, PTL DEF Spec, DriftOnlyFromSeed

-----------------------------------------------------------------------------
(* How far an account can be overdrawn                                     *)

\* A deduction that has passed, or is bound to pass, the guard: it read a
\* balance that covers it, and nothing will ask again.
Passed(q, u) ==
  /\ q.op = "adjust" /\ q.direction = "out" /\ q.user = u
  /\ \/ q.at \in {"approved", "inserted", "moved"}
     \/ q.at = "halfRead" /\ Covers(q)

Spending(u) == {r \in Requests : Passed(req[r], u)}

\* What the slots outside S could still be let through to spend.
Room(S) == Cardinality(Requests \ S) * MaxAdjustment

\* Either all the spending requests are paid for by what the others could still
\* have spent, or all but the one that read the ledger last.
Backed(u) ==
  \/ Balance(u) + Room(Spending(u)) - MaxAdjustment >= 0
  \/ \E l \in Spending(u) : Balance(u) + Room(Spending(u)) - req[l].points >= 0

\* Fewer spend, more room.
LEMMA RoomGrows ==
  ASSUME IsFiniteSet(Requests), NEW S \in SUBSET Requests, NEW T \in SUBSET S
  PROVE  /\ Room(S) \in Nat /\ Room(T) \in Nat
         /\ Room(T) >= Room(S)
         /\ S # T => Room(T) >= Room(S) + MaxAdjustment
  <1> DEFINE a == Cardinality(Requests \ S)
             b == Cardinality(Requests \ T)
  <1>1. IsFiniteSet(Requests \ S) /\ IsFiniteSet(Requests \ T)
    BY FS_Difference
  <1>2. a \in Nat /\ b \in Nat /\ a <= b
    BY <1>1, FS_CardinalityType, FS_Subset
  <1>3. S # T => a # b
    BY <1>1, FS_Subset
  <1>4. Room(S) = a * MaxAdjustment /\ Room(T) = b * MaxAdjustment
    BY DEF Room
  <1>5. MaxAdjustment \in Nat
    BY PointConfig
  <1> HIDE DEF a, b
  <1>6. a * MaxAdjustment \in Nat /\ b * MaxAdjustment \in Nat
    BY <1>2, <1>5
  <1>7. b - a \in Nat /\ b * MaxAdjustment = a * MaxAdjustment + (b - a) * MaxAdjustment
    BY <1>2, <1>5
  <1>8. (b - a) * MaxAdjustment >= 0
    BY <1>5, <1>7
  <1>9. ASSUME S # T PROVE (b - a) * MaxAdjustment >= MaxAdjustment
    <2>1. PICK c \in Nat : b - a = c + 1
      <3>1. b - a - 1 \in Nat
        BY <1>2, <1>3, <1>9
      <3> QED BY <3>1, <1>2
    <2>2. (c + 1) * MaxAdjustment = c * MaxAdjustment + MaxAdjustment /\ c * MaxAdjustment >= 0
      BY <1>5, <2>1
    <2> QED BY <2>1, <2>2, <1>5
  <1> QED BY <1>4, <1>5, <1>6, <1>7, <1>8, <1>9

-----------------------------------------------------------------------------
(* What a step can do to the balance of u and to those who spend it        *)

\* Nothing spent and nobody let in.
Calm(u) ==
  /\ Balance(u)' >= Balance(u)
  /\ \A s \in Spending(u)' : s \in Spending(u) /\ req'[s].points = req[s].points

\* A request reads a balance that covers it.
Enters(u) == \E r \in Spending(u)' : Balance(u)' - req'[r].points >= 0

\* A deduction commits.
Spends(u) ==
  \E r \in Spending(u) :
    /\ Balance(u)' = Balance(u) - req[r].points
    /\ \A s \in Spending(u)' : s \in Spending(u) \ {r} /\ req'[s].points = req[s].points

\* A balance is a number, and a spending request passed validation.
LEMMA Numbers ==
  ASSUME IInv, NEW u \in Users
  PROVE  /\ Balance(u) \in Int
         /\ \A r \in Spending(u) : req[r].points \in 0..MaxAdjustment
  <1>1. Balance(u) \in Int
    BY DEF IInv, TypeOK, Ledger, Balance
  <1>2. ASSUME NEW r \in Spending(u) PROVE req[r].points \in 0..MaxAdjustment
    <2>1. req[r] \in Request /\ Valid(req[r])
      BY DEF IInv, TypeOK, WellFormed, Spending, Passed
    <2> QED BY <2>1, PointConfig DEF Valid, Request
  <1> QED BY <1>1, <1>2

\* The same after the step.
LEMMA NumbersNext ==
  ASSUME IInv', NEW u \in Users
  PROVE  /\ Balance(u)' \in Int
         /\ \A r \in Spending(u)' : req'[r].points \in 0..MaxAdjustment
  <1>1. Balance(u)' \in Int
    BY DEF IInv, TypeOK, Ledger, Balance
  <1>2. ASSUME NEW r \in Spending(u)' PROVE req'[r].points \in 0..MaxAdjustment
    <2>1. req'[r] \in Request /\ Valid(req'[r])
      BY DEF IInv, TypeOK, WellFormed, Spending, Passed, Valid
    <2> QED BY <2>1, PointConfig DEF Valid, Request
  <1> QED BY <1>1, <1>2

\* A step of one request that leaves the ledger alone and does not let it in.
LEMMA CalmStep ==
  ASSUME IInv, NEW u \in Users, NEW r \in Requests, UNCHANGED ledger,
         \A s \in Requests \ {r} : req'[s] = req[s],
         Passed(req'[r], u) => Passed(req[r], u) /\ req'[r].points = req[r].points
  PROVE  Calm(u)
  <1>1. Balance(u)' = Balance(u) /\ Balance(u) \in Int
    BY Numbers DEF Balance
  <1>2. Spending(u)' = {s \in Requests : Passed(req'[s], u)}
    BY DEF Spending, Passed, Covers
  <1> QED BY <1>1, <1>2 DEF Calm, Spending

\* Nobody is let in by an answer.
LEMMA CalmReply ==
  ASSUME IInv, NEW u \in Users, NEW r \in Requests, UNCHANGED ledger,
         NEW a \in {"validation", "not_found", "conflict", "internal"}, Reply(r, a)
  PROVE  Calm(u)
  BY Replied, CalmStep DEF Passed

\* There is no fourth kind of step.
LEMMA Classified ==
  ASSUME IInv, Next, NEW u \in Users
  PROVE  Calm(u) \/ Enters(u) \/ Spends(u)
  <1>t. req \in [Requests -> Request] /\ ledger \in [Users -> Ledger]
    BY DEF IInv, TypeOK
  <1>1. ASSUME NEW r \in Requests, AskBalance(r) PROVE Calm(u)
    <2>1. PICK v \in Users : req' = [req EXCEPT ![r] = [NoRequest EXCEPT
                               !.at = "asking", !.op = "balance", !.user = v]]
      BY <1>1 DEF AskBalance
    <2>2. req'[r].at = "asking" /\ \A s \in Requests \ {r} : req'[s] = req[s]
      BY <1>t, <2>1 DEF NoRequest
    <2> QED BY <1>1, <2>2, CalmStep DEF AskBalance, Passed, rows
  <1>2. ASSUME NEW r \in Requests, AskAdjust(r) PROVE Calm(u)
    <2>1. PICK v \in Users, p \in PointsSent, d \in {"in", "out", "sideways"}, why \in BOOLEAN :
            req' = [req EXCEPT ![r] = [NoRequest EXCEPT
                      !.at = "asking", !.op = "adjust", !.user = v,
                      !.points = p, !.direction = d, !.reasoned = why]]
      BY <1>2, PointConfig DEF AskAdjust
    <2>2. req'[r].at = "asking" /\ \A s \in Requests \ {r} : req'[s] = req[s]
      BY <1>t, <2>1 DEF NoRequest
    <2> QED BY <1>2, <2>2, CalmStep DEF AskAdjust, Passed, rows
  <1>3. ASSUME NEW r \in Requests, AssertAccount(r) PROVE Calm(u)
    <2>1. CASE Reply(r, "not_found") \/ Reply(r, "validation")
      BY <1>3, <2>1, CalmReply DEF AssertAccount, rows
    <2>2. CASE req' = [req EXCEPT ![r].at = "reading"]
      <3>1. req'[r].at = "reading" /\ \A s \in Requests \ {r} : req'[s] = req[s]
        BY <1>t, <2>2 DEF Request
      <3> QED BY <1>3, <3>1, CalmStep DEF AssertAccount, Passed, rows
    <2> QED BY <1>3, <2>1, <2>2 DEF AssertAccount
  <1>4. ASSUME NEW r \in Requests, ReadLedger(r) PROVE Calm(u) \/ Enters(u)
    <2>1. PICK q : q = [req[r] EXCEPT !.at = "halfRead", !.seen = SelectLedger(req[r].user)]
      OBVIOUS
    <2>2. /\ req' = [req EXCEPT ![r] = q] /\ UNCHANGED ledger
          /\ q.at = "halfRead" /\ q.user = req[r].user /\ q.points = req[r].points
          /\ q.seen = Balance(req[r].user)
      BY <1>4, <1>t, <2>1 DEF ReadLedger, Request, SelectLedger, rows
    <2>3. req'[r] = q /\ \A s \in Requests \ {r} : req'[s] = req[s]
      BY <1>t, <2>2
    <2>4. CASE ~Passed(q, u)
      BY <2>2, <2>3, <2>4, CalmStep
    <2>5. CASE Passed(q, u)
      <3>1. r \in Spending(u)'
        BY <2>3, <2>5 DEF Spending, Passed, Covers
      <3>2. Balance(u)' = Balance(u)
        BY <2>2 DEF Balance
      <3>3. Balance(u) - q.points >= 0
        BY <2>2, <2>5 DEF Passed, Covers
      <3> QED BY <2>3, <3>1, <3>2, <3>3 DEF Enters
    <2> QED BY <2>4, <2>5
  <1>5. ASSUME NEW r \in Requests, ReadCached(r) PROVE Calm(u)
    <2>1. CASE req[r].op = "balance"
      <3>1. req'[r].at = "answered" /\ \A s \in Requests \ {r} : req'[s] = req[s]
        BY <1>5, <1>t, <2>1 DEF ReadCached, NoRequest
      <3> QED BY <1>5, <3>1, CalmStep DEF ReadCached, Passed, rows
    <2>2. CASE Reply(r, "conflict")
      BY <1>5, <2>2, CalmReply DEF ReadCached, rows
    <2>3. CASE /\ req[r].op = "adjust" /\ Covers(req[r])
               /\ req' = [req EXCEPT ![r].at = "approved"]
      <3>1. /\ req'[r] = [req[r] EXCEPT !.at = "approved"]
            /\ \A s \in Requests \ {r} : req'[s] = req[s]
        BY <1>t, <2>3
      <3>2. /\ req'[r].op = req[r].op /\ req'[r].direction = req[r].direction
            /\ req'[r].user = req[r].user /\ req'[r].points = req[r].points
        BY <1>t, <3>1 DEF Request
      <3>3. Passed(req'[r], u) => Passed(req[r], u)
        BY <1>5, <2>3, <3>2 DEF ReadCached, Passed
      <3> QED BY <1>5, <3>1, <3>2, <3>3, CalmStep DEF ReadCached, rows
    <2> QED BY <1>5, <2>1, <2>2, <2>3 DEF ReadCached
  <1>6. ASSUME NEW r \in Requests, InsertRow(r) PROVE Calm(u)
    <2>1. /\ req'[r] = [req[r] EXCEPT !.at = "inserted"]
          /\ \A s \in Requests \ {r} : req'[s] = req[s]
      BY <1>6, <1>t DEF InsertRow
    <2>2. /\ req'[r].op = req[r].op /\ req'[r].direction = req[r].direction
          /\ req'[r].user = req[r].user /\ req'[r].points = req[r].points
      BY <1>t, <2>1 DEF Request
    <2>3. Passed(req'[r], u) => Passed(req[r], u)
      BY <1>6, <2>2 DEF InsertRow, Passed
    <2> QED BY <1>6, <2>1, <2>2, <2>3, CalmStep DEF InsertRow, rows
  <1>7. ASSUME NEW r \in Requests, MoveTotal(r) PROVE Calm(u)
    <2>1. CASE Reply(r, "internal")
      BY <1>7, <2>1, CalmReply DEF MoveTotal, rows
    <2>2. CASE req' = [req EXCEPT ![r].at = "moved", ![r].total = NewTotal(req[r])]
      <3>1. PICK n : n = NewTotal(req[r])
        OBVIOUS
      <3>2. /\ req'[r] = [req[r] EXCEPT !.at = "moved", !.total = n]
            /\ \A s \in Requests \ {r} : req'[s] = req[s]
        BY <1>t, <2>2, <3>1
      <3>3. /\ req'[r].op = req[r].op /\ req'[r].direction = req[r].direction
            /\ req'[r].user = req[r].user /\ req'[r].points = req[r].points
        BY <1>t, <3>2 DEF Request
      <3>4. Passed(req'[r], u) => Passed(req[r], u)
        BY <1>7, <3>3 DEF MoveTotal, Passed
      <3> QED BY <1>7, <3>2, <3>3, <3>4, CalmStep DEF MoveTotal, rows
    <2> QED BY <1>7, <2>1, <2>2 DEF MoveTotal
  <1>8. ASSUME NEW r \in Requests, Commit(r) PROVE Calm(u) \/ Spends(u)
    <2>1. PICK v \in Users : v = req[r].user
      BY <1>8 DEF IInv, WellFormed, Commit, Idle
    <2>2. /\ req[r].op = "adjust" /\ req[r].at = "moved"
          /\ req[r].direction \in {"in", "out"} /\ req[r].points \in Nat
      BY <1>8, <1>t DEF IInv, WellFormed, Commit, Valid, Request
    <2>3. ledger' = [ledger EXCEPT ![v] = AddRow(@, req[r])]
      BY <1>8, <2>1 DEF Commit, Publish
    <2>4. req'[r].at = "asking" /\ \A s \in Requests \ {r} : req'[s] = req[s]
      BY <1>8, <1>t DEF Commit, NoRequest
    <2>5. \A s \in Spending(u)' :
            s \in Spending(u) \ {r} /\ req'[s].points = req[s].points
      <3> SUFFICES ASSUME NEW s \in Requests, Passed(req'[s], u)
                   PROVE  s # r /\ Passed(req[s], u) /\ req'[s].points = req[s].points
        BY DEF Spending, Passed, Covers
      <3>1. s # r
        BY <2>4 DEF Passed
      <3> QED BY <2>4, <3>1
    <2>6. CASE u # v
      <3>1. Balance(u)' = Balance(u)
        BY <1>t, <2>3, <2>6 DEF Balance
      <3> QED BY <2>5, <3>1, Numbers DEF Calm
    <2>7. CASE u = v
      <3>1. ledger'[u] = AddRow(ledger[u], req[r])
        BY <1>t, <2>3, <2>7
      <3>2. ledger[u].inflow \in Int /\ ledger[u].outflow \in Int
        BY <1>t DEF Ledger
      <3>3. CASE req[r].direction = "in"
        <4>1. /\ ledger'[u].inflow = ledger[u].inflow + req[r].points
              /\ ledger'[u].outflow = ledger[u].outflow + 0
          BY <3>1, <3>3 DEF AddRow
        <4>2. Balance(u)' >= Balance(u)
          BY <2>2, <3>2, <4>1 DEF Balance
        <4> QED BY <2>5, <4>2 DEF Calm
      <3>4. CASE req[r].direction = "out"
        <4>1. /\ ledger'[u].inflow = ledger[u].inflow + 0
              /\ ledger'[u].outflow = ledger[u].outflow + req[r].points
          BY <3>1, <3>4 DEF AddRow
        <4>2. Balance(u)' = Balance(u) - req[r].points
          BY <2>2, <3>2, <4>1 DEF Balance
        <4>3. r \in Spending(u)
          BY <2>1, <2>2, <2>7, <3>4 DEF Spending, Passed
        <4> QED BY <2>5, <4>2, <4>3 DEF Spends
      <3> QED BY <2>2, <3>3, <3>4
    <2> QED BY <2>6, <2>7
  <1>9. ASSUME NEW r \in Requests, Fail(r) PROVE Calm(u)
    BY <1>9, CalmReply DEF Fail, rows
  <1>10. ASSUME Crash PROVE Calm(u)
    <2>1. Balance(u)' = Balance(u)
      BY <1>10 DEF Crash, Balance, rows
    <2>2. \A s \in Requests : ~Passed(req'[s], u)
      BY <1>10 DEF Crash, NoRequest, Passed
    <2>3. Spending(u)' = {}
      BY <2>2 DEF Spending, Passed, Covers
    <2> QED BY <2>1, <2>3, Numbers DEF Calm
  <1>11. ASSUME UNCHANGED req,
                \/ UNCHANGED ledger[u]
                \/ /\ ledger'[u].inflow = ledger[u].inflow + SeedTotal
                   /\ ledger'[u].outflow = ledger[u].outflow
         PROVE  Calm(u)
    <2>1. Spending(u)' = Spending(u)
      BY <1>11 DEF Spending, Passed, Covers
    <2>2. Balance(u)' >= Balance(u)
      BY <1>11, <1>t, PointConfig DEF Balance, Ledger
    <2> QED BY <1>11, <2>1, <2>2 DEF Calm
  <1>12. CASE Seeding \/ \E c \in Cashiers : DeleteCashier(c)
    <2>1. CASE SeedLedger
      <3>1. ledger'[u] = IF u \in Customers /\ ~seedRows
              THEN [ledger[u] EXCEPT !.inflow = @ + SeedTotal, !.entries = @ + 1]
              ELSE ledger[u]
        BY <2>1 DEF SeedLedger
      <3>2. ledger[u] \in Ledger
        BY <1>t
      <3> QED BY <1>11, <2>1, <3>1, <3>2 DEF SeedLedger, Ledger
    <2>2. CASE ~SeedLedger
      BY <1>11, <1>12, <2>2 DEF Seeding, SeedBalances, SeedDies, DeleteCashier, rows
    <2> QED BY <2>1, <2>2
  <1> QED BY <1>1, <1>2, <1>3, <1>4, <1>5, <1>6, <1>7, <1>8, <1>9, <1>10, <1>12
          DEF Next, Work

\* Each of the three kinds of steps keeps an account backed.
LEMMA BackedKept ==
  ASSUME IsFiniteSet(Requests), IInv, IInv', NEW u \in Users, Backed(u),
         Calm(u) \/ Enters(u) \/ Spends(u)
  PROVE  Backed(u)'
  <1>p. PICK S \in SUBSET Requests, T \in SUBSET Requests :
          S = Spending(u) /\ T = Spending(u)'
    BY DEF Spending
  <1>a. /\ Balance(u) \in Int /\ Balance(u)' \in Int
        /\ \A r \in S : req[r].points \in 0..MaxAdjustment
        /\ \A r \in T : req'[r].points \in 0..MaxAdjustment
    BY <1>p, Numbers, NumbersNext
  <1>b. Room(S) \in Nat /\ Room(T) \in Nat /\ MaxAdjustment \in Nat
    BY RoomGrows, PointConfig
  <1>c. Backed(u)' <=>
          \/ Balance(u)' + Room(T) - MaxAdjustment >= 0
          \/ \E l \in T : Balance(u)' + Room(T) - req'[l].points >= 0
    BY <1>p DEF Backed, Room
  <1>d. \/ Balance(u) + Room(S) - MaxAdjustment >= 0
        \/ \E l \in S : Balance(u) + Room(S) - req[l].points >= 0
    BY <1>p DEF Backed
  <1>1. CASE Calm(u)
    <2>1. /\ Balance(u)' >= Balance(u) /\ T \subseteq S
          /\ \A s \in T : req'[s].points = req[s].points
      BY <1>1, <1>p DEF Calm
    <2>2. Room(T) >= Room(S)
      BY <2>1, RoomGrows
    <2>3. CASE Balance(u) + Room(S) - MaxAdjustment >= 0
      BY <1>a, <1>b, <1>c, <2>1, <2>2, <2>3
    <2>4. ASSUME NEW l \in S, Balance(u) + Room(S) - req[l].points >= 0 PROVE Backed(u)'
      <3>1. CASE l \in T
        BY <1>a, <1>b, <1>c, <2>1, <2>2, <2>4, <3>1
      <3>2. CASE l \notin T
        <4>1. Room(T) >= Room(S) + MaxAdjustment
          BY <2>1, <3>2, RoomGrows
        <4>2. req[l].points >= 0 /\ req[l].points \in Int
          BY <1>a
        <4> QED BY <1>a, <1>b, <1>c, <2>1, <2>4, <4>1, <4>2
      <3> QED BY <3>1, <3>2
    <2> QED BY <1>d, <2>3, <2>4
  <1>2. CASE Enters(u)
    <2>1. PICK r \in T : Balance(u)' - req'[r].points >= 0
      BY <1>2, <1>p DEF Enters
    <2>2. Balance(u)' + Room(T) - req'[r].points >= 0
      BY <1>a, <1>b, <2>1
    <2> QED BY <1>c, <2>2
  <1>3. CASE Spends(u)
    <2>1. PICK r \in S :
            /\ Balance(u)' = Balance(u) - req[r].points
            /\ \A s \in T : s \in S \ {r} /\ req'[s].points = req[s].points
      BY <1>3, <1>p DEF Spends
    <2>2. Room(T) >= Room(S) + MaxAdjustment
      BY <2>1, RoomGrows
    <2>3. req[r].points \in Int /\ 0 <= req[r].points /\ req[r].points <= MaxAdjustment
      BY <1>a
    <2>4. CASE Balance(u) + Room(S) - MaxAdjustment >= 0
      BY <1>a, <1>b, <1>c, <2>1, <2>2, <2>3, <2>4
    <2>5. ASSUME NEW l \in S, Balance(u) + Room(S) - req[l].points >= 0 PROVE Backed(u)'
      <3>0. req[l].points \in Int /\ 0 <= req[l].points /\ req[l].points <= MaxAdjustment
        BY <1>a
      <3>1. CASE l \in T
        <4>1. Balance(u)' + Room(T) - req'[l].points >= 0
          BY <1>a, <1>b, <2>1, <2>2, <2>3, <2>5, <3>0, <3>1
        <4> QED BY <1>c, <3>1, <4>1
      <3>2. CASE l = r
        BY <1>a, <1>b, <1>c, <2>1, <2>2, <2>3, <2>5, <3>2
      <3>3. CASE l # r /\ l \notin T
        \* Two left at once: impossible here, harmless anyway.
        <4>1. l \in S \ {r}
          BY <3>3
        <4>2. S \ {r} \in SUBSET Requests /\ T \in SUBSET (S \ {r})
          BY <2>1
        <4>3. Room(S \ {r}) >= Room(S) + MaxAdjustment
          BY RoomGrows
        <4>4. Room(T) >= Room(S \ {r}) + MaxAdjustment
          BY <3>3, <4>1, <4>2, RoomGrows
        <4>5. Room(S \ {r}) \in Nat
          BY <4>2, RoomGrows
        <4> QED BY <1>a, <1>b, <1>c, <2>1, <2>3, <2>5, <3>0, <4>3, <4>4, <4>5
      <3> QED BY <3>1, <3>2, <3>3
    <2> QED BY <1>d, <2>4, <2>5
  <1> QED BY <1>1, <1>2, <1>3

\* The invariant behind OverdraftBounded.
BackedAll == \A u \in Users : Backed(u)

\* The deepest overdraft: every request but one has spent, each once, a balance
\* that the last one had read as its own.
THEOREM OverdraftIsBounded ==
  ASSUME IsFiniteSet(Requests), Requests # {}
  PROVE  Spec => []OverdraftBounded
  <1>0. /\ Room({}) = Cardinality(Requests) * MaxAdjustment
        /\ Cardinality(Requests) \in Nat \ {0} /\ MaxAdjustment \in Nat
    <2>1. Requests \ {} = Requests
      OBVIOUS
    <2> QED BY <2>1, FS_CardinalityType, FS_EmptySet, PointConfig DEF Room
  <1>1. Init => BackedAll
    <2> SUFFICES ASSUME Init, NEW u \in Users PROVE Backed(u)
      BY DEF BackedAll
    <2>1. Spending(u) = {}
      BY DEF Init, Spending, Passed, NoRequest
    <2>2. Balance(u) = 0
      BY DEF Init, Balance
    <2>3. Room({}) >= MaxAdjustment
      <3>1. PICK c \in Nat : Cardinality(Requests) = c + 1
        <4>1. Cardinality(Requests) - 1 \in Nat
          BY <1>0
        <4> QED BY <4>1, <1>0
      <3>2. (c + 1) * MaxAdjustment = c * MaxAdjustment + MaxAdjustment /\ c * MaxAdjustment >= 0
        BY <1>0, <3>1
      <3>3. c * MaxAdjustment \in Nat
        BY <1>0, <3>1
      <3> QED BY <1>0, <3>1, <3>2, <3>3
    <2>4. Room({}) \in Int
      BY <1>0
    <2> QED BY <1>0, <2>1, <2>2, <2>3, <2>4 DEF Backed
  <1>2. IInv /\ IInv' /\ BackedAll /\ [Next]_vars => BackedAll'
    <2> SUFFICES ASSUME IInv, IInv', BackedAll, [Next]_vars, NEW u \in Users PROVE Backed(u)'
      BY DEF BackedAll
    <2>1. CASE Next
      BY <2>1, Classified, BackedKept DEF BackedAll
    <2>2. CASE UNCHANGED vars
      <3>1. UNCHANGED <<req, ledger>>
        BY <2>2 DEF vars, rows
      <3>2. Spending(u)' = Spending(u) /\ Balance(u)' = Balance(u)
        BY <3>1 DEF Spending, Balance, Passed, Covers
      <3> QED BY <3>1, <3>2 DEF BackedAll, Backed, Room
    <2> QED BY <2>1, <2>2
  <1>3. IInv /\ BackedAll => OverdraftBounded
    <2> SUFFICES ASSUME IInv, BackedAll, NEW u \in Users
                 PROVE  Balance(u) >= -((Cardinality(Requests) - 1) * MaxAdjustment)
      BY DEF OverdraftBounded
    <2>1. PICK S \in SUBSET Requests : S = Spending(u)
      BY DEF Spending
    <2>2. /\ Balance(u) \in Int /\ Room(S) \in Nat /\ Room({}) \in Nat
          /\ Room({}) >= Room(S)
          /\ S # {} => Room({}) >= Room(S) + MaxAdjustment
      BY Numbers, RoomGrows
    <2>3. (Cardinality(Requests) - 1) * MaxAdjustment = Room({}) - MaxAdjustment
      BY <1>0
    <2>4. Balance(u) + Room({}) - MaxAdjustment >= 0
      <3>1. CASE Balance(u) + Room(S) - MaxAdjustment >= 0
        BY <1>0, <2>2, <3>1
      <3>2. ASSUME NEW l \in S, Balance(u) + Room(S) - req[l].points >= 0
            PROVE  Balance(u) + Room({}) - MaxAdjustment >= 0
        <4>1. req[l].points \in Int /\ req[l].points >= 0
          BY <2>1, Numbers
        <4>2. Room({}) >= Room(S) + MaxAdjustment
          BY <2>2, <3>2
        <4> QED BY <1>0, <2>2, <3>2, <4>1, <4>2
      <3> QED BY <2>1, <3>1, <3>2 DEF BackedAll, Backed
    <2> QED BY <1>0, <2>2, <2>3, <2>4
  <1> QED BY <1>1, <1>2, <1>3, Invariance, PTL DEF Spec
=============================================================================
