------------------------------ MODULE Product -------------------------------
(* Products: a cover and a gallery, a name nobody else has, a type.        *)
EXTENDS Assets

\* A create needs a cover.  An edit may send either, and replaces the gallery
\* only when it says so; the status is not part of it.
ProductForms(op) ==
  {f \in [name: Names, replace: BOOLEAN,
          pics: IF op = "create" THEN {Parts} ELSE {{}, Parts, {"gallery"}},
          lists: {{"type"}}, refs: {{<<"type", "type">>}}, kind: {None}, active: {TRUE}] :
     f.replace = (f.pics = {"gallery"})}

ProductArrives(r) ==
  /\ Idle(r)
  /\ \/ \E f \in ProductForms("create") : Receive(r, "product", "create", r, f, "checking")
     \/ \E i \in Existing("product") :
          \/ \E f \in ProductForms("edit") : Receive(r, "product", "edit", i, f, "finding")
          \/ Receive(r, "product", "delete", i, NoForm, "finding")
          \/ Receive(r, "product", "status", i, [NoForm EXCEPT !.active = FALSE], "setting")

ProductFind(r) ==
  /\ At(r, "product", "finding")
  /\ Find(r, IF Op(r) = "edit" THEN "checking" ELSE "clearing")

ProductCheckName(r) == At(r, "product", "checking") /\ CheckName(r, "referring")

\* A delete of this type that has already found no product of it.
Retiring(o, type) ==
  /\ At(o, "type", "finding") \/ At(o, "type", "writing")
  /\ Op(o) = "delete"
  /\ Id(o) = type

\* An unknown type is refused here: no foreign key fires on a soft delete.
CheckType(r) ==
  /\ At(r, "product", "referring")
  /\ \E type \in Ids :
       /\ <<"type", type>> \in In(r).refs
       /\ IF type \in Existing("type")
          THEN /\ Goto(r, Storing(r))
               /\ crowded' = IF \E o \in Requests : Retiring(o, type)
                             THEN crowded \cup {<<"type", type>>} ELSE crowded
          ELSE Done(r) /\ UNCHANGED crowded
  /\ UNCHANGED <<rows, stored, leaked, contested, blamed>>

\* Cover, row and gallery in one transaction.
ProductInsert(r) ==
  /\ At(r, "product", "writing") /\ Op(r) = "create"
  /\ Commit(r, [NoRow EXCEPT !.res = "product", !.live = TRUE, !.name = In(r).name,
                             !.active = In(r).active, !.cover = {Picture(r, "cover")},
                             !.gallery = Added(r), !.refs = In(r).refs], "rereading")

\* What the transaction of an edit leaves in the gallery: the links are dropped
\* only when the form replaces them, and the new ones are added.
ProductGallery(r) == Added(r) \cup IF In(r).replace THEN {} ELSE rows[Id(r)].gallery

ProductUpdate(r) ==
  /\ At(r, "product", "writing") /\ Op(r) = "edit"
  /\ Edit(r, [rows[Id(r)] EXCEPT !.name = In(r).name, !.cover = NewCover(r),
                                 !.gallery = ProductGallery(r), !.refs = In(r).refs])

\* The transaction of a delete unlinks the gallery it sees now ...
UnlinkGallery(r) ==
  /\ At(r, "product", "clearing")
  /\ req' = [req EXCEPT ![r].at = "writing", ![r].saw = rows[Id(r)].gallery]
  /\ UNCHANGED <<rows, stored, history>>

\* ... and then deletes the row, for which it may wait until an edit commits.
ProductDelete(r) ==
  /\ At(r, "product", "writing") /\ Op(r) = "delete"
  /\ Remove(r, [rows[Id(r)] EXCEPT !.gallery = @ \ req[r].saw])

ProductStatus(r) == At(r, "product", "setting") /\ SetStatus(r)

\* The pictures of a product as lists and details show it.
ProductShown(i) == Held(rows[i])

ProductStep(r) ==
  \/ ProductArrives(r) \/ ProductFind(r) \/ ProductCheckName(r) \/ CheckType(r)
  \/ ProductInsert(r) \/ ProductUpdate(r) \/ UnlinkGallery(r) \/ ProductDelete(r)
  \/ ProductStatus(r)
=============================================================================
