------------------------------- MODULE Assets -------------------------------
(***************************************************************************)
(* What products, product types, banners, events, shops and cashiers have  *)
(* in common: a form with pictures.  A picture goes to the image provider  *)
(* before the row that shows it is written, and is taken back when that    *)
(* fails; the picture it replaces is removed once the row has moved on.    *)
(* (Vouchers and reviews go the same way without a picture.)               *)
(* Nothing ties the two stores together but the order of these steps:      *)
(*                                                                         *)
(*   create   checking -> referring -> uploading -> writing -> rereading   *)
(*   edit     finding -> the same -> dropping (the replaced pictures)      *)
(*   delete   [guarding ->] finding -> [clearing ->] writing -> dropping   *)
(*   status   setting                                                      *)
(*   an error from writing on -> undoing (the pictures just uploaded)      *)
(*                                                                         *)
(* Each resource has a module with its own steps; Catalogue composes them. *)
(***************************************************************************)
EXTENDS Integers, FiniteSets

CONSTANTS
  Requests,  \* bound: each slot serves one request
  Names

VARIABLES
  rows,      \* the tables: id -> row with what its child tables hold
  stored,    \* the pictures the provider keeps
  req,
  leaked,    \* left behind by a crash or a discard that failed (history variable)
  contested, \* rows two requests were writing at once (history variable)
  crowded,   \* names, and needed rows, two requests checked at once (history variable)
  blamed,    \* rows whose read after the write failed (history variable)
  ordered    \* shops that orders refer to, vouchers that customers hold

overlaps == <<contested, crowded>>
history  == <<leaked, overlaps, blamed>>
vars     == <<rows, stored, req, history>>

None  == "none"
First == "first"
Resources == {"product", "type", "banner", "event", "shop", "cashier", "voucher", "review"}

ASSUME AssetsConfig == Requests \cap (Resources \cup {None, First}) = {} /\ None \notin Names

\* One row of each resource is there from the start; a new one is named after
\* the request that creates it.
Ids == Resources \cup Requests
Parts == {"cover", "gallery"}
\* A picture: the row it is for, the request that uploaded it, its place.
Pictures == Ids \X (Requests \cup {First}) \X Parts
DiscountTypes == {"amount", "percent"}
Lists == {"type", "staff", "line", "discount", "buy", "reward"} \cup DiscountTypes
Ref == Lists \X Ids
EventTypes == {"DISKON", "BUNDLE"}
Kinds == EventTypes \cup DiscountTypes \cup {None}

Row == [res: Resources \cup {None}, live: BOOLEAN, name: Names \cup {None}, active: BOOLEAN,
        cover: {{}} \cup {{p} : p \in Pictures},  \* none or one
        gallery: SUBSET Pictures, refs: SUBSET Ref, kind: Kinds]
NoRow == [res |-> None, live |-> FALSE, name |-> None, active |-> FALSE, cover |-> {},
          gallery |-> {}, refs |-> {}, kind |-> None]

\* A form: the pictures sent, whether they replace the gallery, and which of
\* the lists of references it carries.
Form == [name: Names \cup {None}, pics: SUBSET Parts, replace: BOOLEAN,
         lists: SUBSET Lists, refs: SUBSET Ref, kind: Kinds, active: BOOLEAN]
NoForm == [name |-> None, pics |-> {}, replace |-> FALSE, lists |-> {}, refs |-> {},
           kind |-> None, active |-> TRUE]

Stage == {"idle", "guarding", "finding", "checking", "referring", "uploading", "clearing",
          "writing", "rereading", "dropping", "undoing", "setting", "answered"}
Request == [at: Stage, res: Resources \cup {None}, op: {"create", "edit", "delete", "status", None},
            id: Ids \cup {None}, form: Form,
            old: SUBSET Pictures, new: SUBSET Pictures, saw: SUBSET (Pictures \cup Ref)]
NoRequest == [at |-> "idle", res |-> None, op |-> None, id |-> None, form |-> NoForm,
              old |-> {}, new |-> {}, saw |-> {}]

At(r, res, stage) == req[r].res = res /\ req[r].at = stage
Op(r) == req[r].op
Id(r) == req[r].id
In(r) == req[r].form
Idle(r) == req[r].at = "idle"
Goto(r, stage) == req' = [req EXCEPT ![r].at = stage]
Done(r) == req' = [req EXCEPT ![r] = [NoRequest EXCEPT !.at = "answered", !.res = req[r].res]]

\* An error ends the request; what it uploaded is discarded first.
Abort(r) ==
  IF req[r].new = {} THEN Done(r)
  ELSE req' = [req EXCEPT ![r] = [NoRequest EXCEPT !.at = "undoing", !.res = req[r].res,
                                                      !.new = req[r].new]]

\* Before the write, what there is to upload is uploaded.
Storing(r) == IF In(r).pics = {} THEN "writing" ELSE "uploading"

\* A request for res arrives with one of the forms its handler lets through.
Receive(r, res, op, id, form, stage) ==
  /\ req' = [req EXCEPT ![r] =
       [NoRequest EXCEPT !.at = stage, !.res = res, !.op = op, !.id = id,
                         !.form = form]]
  /\ UNCHANGED <<rows, stored, history>>

Existing(res) == {i \in Ids : rows[i].res = res /\ rows[i].live}
Held(row) == row.cover \cup row.gallery

\* The row is read, and with it the pictures it shows at this moment.
Find(r, stage) ==
  /\ IF Id(r) \in Existing(req[r].res)
     THEN req' = [req EXCEPT ![r].at = stage, ![r].old = Held(rows[Id(r)])]
     ELSE Done(r)
  /\ UNCHANGED <<rows, stored, history>>

\* Mutant of Taken: a hidden row does not hold its name.
Taken_Active(r) ==
  \E i \in Existing(req[r].res) \ {Id(r)} : rows[i].active /\ rows[i].name = In(r).name

\* Names are compared among the rows that are not deleted, the edited one
\* excepted; there is no index to enforce what the check finds.
Taken(r) == \E i \in Existing(req[r].res) \ {Id(r)} : rows[i].name = In(r).name
Named(o, res, name) ==
  req[o].res = res /\ In(o).name = name /\ req[o].at \in {"referring", "uploading", "writing"}

CheckName(r, stage) ==
  /\ IF Taken(r) THEN Done(r) /\ UNCHANGED crowded
     ELSE /\ Goto(r, stage)
          /\ crowded' = IF \E o \in Requests \ {r} : Named(o, req[r].res, In(r).name)
                        THEN crowded \cup {<<req[r].res, In(r).name>>} ELSE crowded
  /\ UNCHANGED <<rows, stored, leaked, contested, blamed>>

-----------------------------------------------------------------------------
(* Pictures                                                                *)

Picture(r, part) == <<Id(r), r, part>>

Missing(r) == {part \in In(r).pics : Picture(r, part) \notin req[r].new}

\* The cover first.  The provider names every asset itself, so one upload never
\* hits another.
Upload(r) ==
  /\ req[r].at = "uploading"
  /\ \E part \in Missing(r) :
       /\ part = "cover" \/ "cover" \notin Missing(r)
       /\ stored' = stored \cup {Picture(r, part)}
       /\ req' = [req EXCEPT ![r].new = @ \cup {Picture(r, part)},
                             ![r].at = IF Missing(r) = {part} THEN "writing" ELSE @]
  /\ UNCHANGED <<rows, history>>

\* A file is refused, or the answer of the provider does not arrive in time,
\* whether or not it kept the picture.
UploadFails(r) ==
  /\ req[r].at = "uploading"
  /\ Abort(r)
  /\ \E lost \in SUBSET {Picture(r, part) : part \in Missing(r)} :
       /\ Cardinality(lost) <= 1
       /\ stored' = stored \cup lost
       /\ leaked' = leaked \cup lost
  /\ UNCHANGED <<rows, overlaps, blamed>>

\* Discarding is best effort, one picture after the other.
Discard(pics) ==
  \E gone \in SUBSET pics :
    /\ stored' = stored \ gone
    /\ leaked' = leaked \cup (pics \ gone)

\* Mutant of Undo: the uploads of a request that failed are forgotten.
Undo_Forgotten(r) ==
  /\ req[r].at = "undoing"
  /\ Done(r)
  /\ UNCHANGED <<rows, stored, history>>

\* The error path: nothing should point at what was just uploaded.
Undo(r) ==
  /\ req[r].at = "undoing"
  /\ Discard(req[r].new)
  /\ Done(r)
  /\ UNCHANGED <<rows, overlaps, blamed>>

\* The row has moved on: what was read before the write goes.
Drop(r) ==
  /\ req[r].at = "dropping"
  /\ Discard(req[r].old)
  /\ Done(r)
  /\ UNCHANGED <<rows, overlaps, blamed>>

-----------------------------------------------------------------------------
(* Writing                                                                 *)

Writers == {"checking", "referring", "uploading", "clearing", "writing", "rereading"}
Contest(r) ==
  contested' = IF \E o \in Requests \ {r} : Id(o) = Id(r) /\ req[o].at \in Writers
               THEN contested \cup {Id(r)} ELSE contested

\* The cover of a row after the write: a form without a file keeps it.
NewCover(r) == IF "cover" \in In(r).pics THEN {Picture(r, "cover")} ELSE rows[Id(r)].cover
Added(r) == IF "gallery" \in In(r).pics THEN {Picture(r, "gallery")} ELSE {}

\* Mutant of Replaced: everything that was read goes.
Replaced_All(r) == req[r].old

\* Of the pictures that were read, those the write replaced.
Replaced(r) ==
  {p \in req[r].old : \/ p[3] = "cover" /\ "cover" \in In(r).pics
                      \/ p[3] = "gallery" /\ In(r).replace}

\* Commits row as the row of r and goes on at stage.
Commit(r, row, stage) ==
  /\ rows' = [rows EXCEPT ![Id(r)] = row]
  /\ req' = [req EXCEPT ![r] = [@ EXCEPT !.at = stage, !.form = NoForm, !.old = Replaced(r)]]
  /\ Contest(r)
  /\ UNCHANGED <<stored, leaked, crowded, blamed>>

\* UPDATE ... WHERE id: no row, no change, and an error.
Edit(r, row) ==
  IF Id(r) \in Existing(req[r].res) THEN Commit(r, row, "rereading")
  ELSE Abort(r) /\ UNCHANGED <<rows, stored, history>>

\* Mutant of Remove: only the row itself is deleted.
Remove_RowOnly(r, row) ==
  IF Id(r) \in Existing(req[r].res)
  THEN /\ rows' = [rows EXCEPT ![Id(r)].live = FALSE]
       /\ req' = [req EXCEPT ![r].at = "dropping", ![r].saw = {}]
       /\ Contest(r)
       /\ UNCHANGED <<stored, leaked, crowded, blamed>>
  ELSE Done(r) /\ UNCHANGED <<rows, stored, history>>

\* The soft delete keeps the row; what it showed is dropped as it was read.
Remove(r, row) ==
  IF Id(r) \in Existing(req[r].res)
  THEN /\ rows' = [rows EXCEPT ![Id(r)] = [row EXCEPT !.live = FALSE]]
       /\ req' = [req EXCEPT ![r].at = "dropping", ![r].saw = {}]
       /\ Contest(r)
       /\ UNCHANGED <<stored, leaked, crowded, blamed>>
  ELSE Done(r) /\ UNCHANGED <<rows, stored, history>>

\* edit-status: one UPDATE of one column; anything but active is inactive.
SetStatus(r) ==
  /\ IF Id(r) \in Existing(req[r].res)
     THEN rows' = [rows EXCEPT ![Id(r)].active = In(r).active]
     ELSE UNCHANGED rows
  /\ Done(r)
  /\ UNCHANGED <<stored, history>>

\* The answer to a write is the row read again.  Whatever is wrong with that
\* read counts as a failure of the write.
Reread(r) ==
  /\ req[r].at = "rereading"
  /\ IF Id(r) \notin Existing(req[r].res) THEN Abort(r)
     ELSE IF req[r].old = {} THEN Done(r) ELSE Goto(r, "dropping")
  /\ UNCHANGED <<rows, stored, history>>

\* A statement fails.  From the first upload on the handler takes back what it
\* uploaded, and that is all it does about it.
StatementFails(r) ==
  /\ req[r].at \notin {"idle", "answered", "uploading", "undoing", "dropping"}
  /\ Abort(r)
  /\ blamed' = IF req[r].at = "rereading" THEN blamed \cup {Id(r)} ELSE blamed
  /\ UNCHANGED <<rows, stored, leaked, overlaps>>

\* The process dies: what is not committed is gone, what was uploaded stays.
Crash(r) ==
  /\ req[r].at \notin {"idle", "answered"}
  /\ leaked' = leaked \cup req[r].new
                 \cup (IF req[r].at \in {"rereading", "dropping"} THEN req[r].old ELSE {})
  /\ Done(r)
  /\ UNCHANGED <<rows, stored, overlaps, blamed>>
=============================================================================
