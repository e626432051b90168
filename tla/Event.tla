-------------------------------- MODULE Event -------------------------------
(* Events: a DISKON has discounted products, a BUNDLE what to buy and what *)
(* is given for it.  The rows of the three child tables belong to the      *)
(* event and are replaced as a whole.                                      *)
EXTENDS Assets

ChildLists == {"discount", "buy", "reward"}
Children(lists) == lists \X {"product"}

\* The handler lets any combination of child lists through; an empty list and
\* one that was not sent are the same.
EventForms(op) ==
  {f \in [name: Names, pics: IF op = "create" THEN {{"cover"}} ELSE {{}, {"cover"}},
          replace: {FALSE}, lists: SUBSET ChildLists, refs: SUBSET Children(ChildLists),
          kind: EventTypes, active: {FALSE}] :
     f.refs = Children(f.lists)}

EventArrives(r) ==
  /\ Idle(r)
  /\ \/ \E f \in EventForms("create") : Receive(r, "event", "create", r, f, "checking")
     \/ \E i \in Existing("event") :
          \/ \E f \in EventForms("edit") : Receive(r, "event", "edit", i, f, "finding")
          \/ Receive(r, "event", "delete", i, NoForm, "finding")
          \/ Receive(r, "event", "status", i, NoForm, "setting")

EventFind(r) ==
  /\ At(r, "event", "finding")
  /\ Find(r, IF Op(r) = "edit" THEN "checking" ELSE "clearing")

\* Mutant of Valid: the lists of the other type are not looked at.
Valid_Mixed(form) ==
  CASE form.kind = "DISKON" -> "discount" \in form.lists
    [] form.kind = "BUNDLE" -> {"buy", "reward"} \subseteq form.lists

\* Rows of the wrong kind are refused, and those of the right one required.
Valid(form) ==
  CASE form.kind = "DISKON" -> form.lists = {"discount"}
    [] form.kind = "BUNDLE" -> form.lists = {"buy", "reward"}

EventCheck(r) ==
  /\ At(r, "event", "checking")
  /\ IF Valid(In(r)) THEN CheckName(r, "referring")
     ELSE Done(r) /\ UNCHANGED <<rows, stored, history>>

\* Every product named must exist; its price is read here, not at the write.
ResolveChildren(r) ==
  /\ At(r, "event", "referring")
  /\ IF \A ref \in In(r).refs : ref[2] \in Existing("product")
     THEN Goto(r, Storing(r)) ELSE Done(r)
  /\ UNCHANGED <<rows, stored, history>>

EventInsert(r) ==
  /\ At(r, "event", "writing") /\ Op(r) = "create"
  /\ Commit(r, [NoRow EXCEPT !.res = "event", !.live = TRUE, !.name = In(r).name,
                             !.active = In(r).active, !.cover = {Picture(r, "cover")},
                             !.refs = In(r).refs, !.kind = In(r).kind], "rereading")

\* The children an edit leaves: all three tables are cleared first, so that a
\* DISKON can become a BUNDLE.
NewChildren(r) == In(r).refs

EventUpdate(r) ==
  /\ At(r, "event", "writing") /\ Op(r) = "edit"
  /\ Edit(r, [rows[Id(r)] EXCEPT !.name = In(r).name, !.cover = NewCover(r),
                                 !.refs = NewChildren(r), !.kind = In(r).kind])

\* The transaction of a delete clears the children it sees now ...
ClearChildren(r) ==
  /\ At(r, "event", "clearing")
  /\ req' = [req EXCEPT ![r].at = "writing", ![r].saw = rows[Id(r)].refs]
  /\ UNCHANGED <<rows, stored, history>>

\* ... and then deletes the event, for which it may wait until an edit commits.
EventDelete(r) ==
  /\ At(r, "event", "writing") /\ Op(r) = "delete"
  /\ Remove(r, [rows[Id(r)] EXCEPT !.refs = @ \ req[r].saw])

\* The form of edit-status hides the event.
EventStatus(r) == At(r, "event", "setting") /\ SetStatus(r)

EventShown(i) == rows[i].cover

EventStep(r) ==
  \/ EventArrives(r) \/ EventFind(r) \/ EventCheck(r) \/ ResolveChildren(r) \/ EventInsert(r)
  \/ EventUpdate(r) \/ ClearChildren(r) \/ EventDelete(r) \/ EventStatus(r)
=============================================================================
