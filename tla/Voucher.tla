------------------------------- MODULE Voucher ------------------------------
(* Vouchers: a code nobody else has, an amount or a percentage, and no     *)
(* picture.  Customers hold copies; a voucher somebody holds stays.        *)
EXTENDS Assets

\* The two columns of the discount; those a form fills are its references.
Columns(lists) == lists \X {"voucher"}

\* The handler lets both columns, or neither, through to normalize.
VoucherForms ==
  {f \in [name: Names, pics: {{}}, replace: {FALSE}, lists: SUBSET DiscountTypes,
          refs: SUBSET Columns(DiscountTypes), kind: DiscountTypes, active: BOOLEAN] :
     f.refs = Columns(f.lists)}

VoucherArrives(r) ==
  /\ Idle(r)
  /\ \/ \E f \in VoucherForms : Receive(r, "voucher", "create", r, f, "checking")
     \/ \E i \in Existing("voucher") :
          \/ \E f \in VoucherForms : ~f.active /\ Receive(r, "voucher", "edit", i, f, "finding")
          \/ Receive(r, "voucher", "delete", i, NoForm, "guarding")
          \/ \E a \in BOOLEAN : Receive(r, "voucher", "status", i, [NoForm EXCEPT !.active = a], "setting")

VoucherFind(r) == At(r, "voucher", "finding") /\ Find(r, "checking")

\* normalize: the column of the type is filled and the other is not.
Normal(form) == form.lists = {form.kind}

\* The code is compared like a name.
VoucherCheck(r) ==
  /\ At(r, "voucher", "checking")
  /\ IF Normal(In(r)) THEN CheckName(r, "writing")
     ELSE Done(r) /\ UNCHANGED <<rows, stored, history>>

VoucherInsert(r) ==
  /\ At(r, "voucher", "writing") /\ Op(r) = "create"
  /\ Commit(r, [NoRow EXCEPT !.res = "voucher", !.live = TRUE, !.name = In(r).name,
                             !.active = In(r).active, !.refs = In(r).refs, !.kind = In(r).kind],
            "dropping")

\* Both columns are written, the empty one too; the status is not.
VoucherUpdate(r) ==
  /\ At(r, "voucher", "writing") /\ Op(r) = "edit"
  /\ Edit(r, [rows[Id(r)] EXCEPT !.name = In(r).name, !.refs = In(r).refs, !.kind = In(r).kind])

Claimed(i) == i \in ordered

GuardVoucher(r) ==
  /\ At(r, "voucher", "guarding")
  /\ IF Claimed(Id(r)) THEN Done(r) ELSE Goto(r, "writing")
  /\ UNCHANGED <<rows, stored, history>>

VoucherDelete(r) ==
  /\ At(r, "voucher", "writing") /\ Op(r) = "delete"
  /\ Remove(r, rows[Id(r)])

VoucherStatus(r) == At(r, "voucher", "setting") /\ SetStatus(r)

\* A customer claims a voucher that is published, wherever its delete stands.
Claim(i) ==
  /\ i \in Existing("voucher") \ ordered
  /\ rows[i].active
  /\ ordered' = ordered \cup {i}
  /\ crowded' = IF \E r \in Requests : At(r, "voucher", "writing") /\ Op(r) = "delete" /\ Id(r) = i
                THEN crowded \cup {<<"voucher", i>>} ELSE crowded
  /\ UNCHANGED <<rows, stored, req, leaked, contested, blamed>>

VoucherStep(r) ==
  \/ VoucherArrives(r) \/ VoucherFind(r) \/ VoucherCheck(r) \/ VoucherInsert(r)
  \/ VoucherUpdate(r) \/ GuardVoucher(r) \/ VoucherDelete(r) \/ VoucherStatus(r)
=============================================================================
