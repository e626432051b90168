------------------------------ MODULE Cashier -------------------------------
(* Cashiers: accounts with a photo, a user name and an address (modelled   *)
(* as one), which the users table keeps unique among all rows it ever had. *)
EXTENDS Assets

CashierForms(op) ==
  [name: Names, pics: IF op = "create" THEN {{"cover"}} ELSE {{}, {"cover"}}, replace: {FALSE},
   lists: {{}}, refs: {{}}, kind: {None}, active: IF op = "create" THEN {TRUE} ELSE BOOLEAN]

CashierArrives(r) ==
  /\ Idle(r)
  /\ \/ \E f \in CashierForms("create") : Receive(r, "cashier", "create", r, f, "checking")
     \/ \E i \in Existing("cashier") :
          \/ \E f \in CashierForms("edit") : Receive(r, "cashier", "edit", i, f, "finding")
          \/ Receive(r, "cashier", "delete", i, NoForm, "finding")

CashierFind(r) ==
  /\ At(r, "cashier", "finding")
  /\ Find(r, IF Op(r) = "edit" THEN "checking" ELSE "writing")

\* The check looks at the accounts that are not deleted ...
AssertAvailable(r) == At(r, "cashier", "checking") /\ CheckName(r, Storing(r))

\* ... the unique index at all of them.
Indexed(r) == \A i \in Ids \ {Id(r)} : rows[i].res = "cashier" => rows[i].name # In(r).name

CashierInsert(r) ==
  /\ At(r, "cashier", "writing") /\ Op(r) = "create"
  /\ IF Indexed(r)
     THEN Commit(r, [NoRow EXCEPT !.res = "cashier", !.live = TRUE, !.name = In(r).name,
                                  !.active = In(r).active, !.cover = {Picture(r, "cover")}],
                 "rereading")
     ELSE Abort(r) /\ UNCHANGED <<rows, stored, history>>

\* Unlike the others, an edit carries the status.
CashierUpdate(r) ==
  /\ At(r, "cashier", "writing") /\ Op(r) = "edit"
  /\ IF Indexed(r)
     THEN Edit(r, [rows[Id(r)] EXCEPT !.name = In(r).name, !.cover = NewCover(r),
                                      !.active = In(r).active])
     ELSE Abort(r) /\ UNCHANGED <<rows, stored, history>>

CashierDelete(r) ==
  /\ At(r, "cashier", "writing") /\ Op(r) = "delete"
  /\ Remove(r, rows[Id(r)])

CashierShown(i) == rows[i].cover

CashierStep(r) ==
  \/ CashierArrives(r) \/ CashierFind(r) \/ AssertAvailable(r) \/ CashierInsert(r)
  \/ CashierUpdate(r) \/ CashierDelete(r)
=============================================================================
