---------------------------- MODULE TypeProduct -----------------------------
(* Product types: one picture, a name, and a delete that products stop.    *)
EXTENDS Assets

TypeForms(op) ==
  [name: Names, pics: IF op = "create" THEN {{"cover"}} ELSE {{}, {"cover"}}, replace: {FALSE},
   lists: {{}}, refs: {{}}, kind: {None}, active: {TRUE}]

TypeArrives(r) ==
  /\ Idle(r)
  /\ \/ \E f \in TypeForms("create") : Receive(r, "type", "create", r, f, "checking")
     \/ \E i \in Existing("type") :
          \/ \E f \in TypeForms("edit") : Receive(r, "type", "edit", i, f, "finding")
          \/ Receive(r, "type", "delete", i, NoForm, "guarding")
          \/ Receive(r, "type", "status", i, [NoForm EXCEPT !.active = FALSE], "setting")

\* Products that are not deleted and are of this type.
InUse(type) == \E p \in Existing("product") : <<"type", type>> \in rows[p].refs

\* A product that has been promised this type and is not written yet.
Adopting(o, type) ==
  /\ <<"type", type>> \in In(o).refs
  /\ At(o, "product", "uploading") \/ At(o, "product", "writing")

GuardType(r) ==
  /\ At(r, "type", "guarding")
  /\ IF InUse(Id(r)) THEN Done(r) /\ UNCHANGED crowded
     ELSE /\ Goto(r, "finding")
          /\ crowded' = IF \E o \in Requests : Adopting(o, Id(r))
                        THEN crowded \cup {<<"type", Id(r)>>} ELSE crowded
  /\ UNCHANGED <<rows, stored, leaked, contested, blamed>>

TypeFind(r) ==
  /\ At(r, "type", "finding")
  /\ Find(r, IF Op(r) = "edit" THEN "checking" ELSE "writing")

TypeCheckName(r) == At(r, "type", "checking") /\ CheckName(r, Storing(r))

\* The row is not read again: what was inserted is the answer.
TypeInsert(r) ==
  /\ At(r, "type", "writing") /\ Op(r) = "create"
  /\ Commit(r, [NoRow EXCEPT !.res = "type", !.live = TRUE, !.name = In(r).name,
                             !.active = In(r).active, !.cover = {Picture(r, "cover")}], "dropping")

TypeUpdate(r) ==
  /\ At(r, "type", "writing") /\ Op(r) = "edit"
  /\ Edit(r, [rows[Id(r)] EXCEPT !.name = In(r).name, !.cover = NewCover(r)])

TypeDelete(r) ==
  /\ At(r, "type", "writing") /\ Op(r) = "delete"
  /\ Remove(r, rows[Id(r)])

TypeStatus(r) == At(r, "type", "setting") /\ SetStatus(r)

TypeShown(i) == rows[i].cover

TypeStep(r) ==
  \/ TypeArrives(r) \/ GuardType(r) \/ TypeFind(r) \/ TypeCheckName(r)
  \/ TypeInsert(r) \/ TypeUpdate(r) \/ TypeDelete(r) \/ TypeStatus(r)
=============================================================================
