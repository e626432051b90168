-------------------------- MODULE Catalogue_proofs --------------------------
(***************************************************************************)
(* Proofs about Catalogue, for any number of requests, any names and any   *)
(* sets of resources that are worked on at once.                           *)
(*                                                                         *)
(* The steps of the eight resources come down to six effects on a request  *)
(* and its row (Effect), and what concerns pictures to nine (Deals).  From *)
(* them follows the shape of rows and requests (Shape), and on top of that *)
(* one invariant for each property: NamesInv, NeededInv, OutlivesInv,      *)
(* PicturesInv, StrandedInv.                                               *)
(***************************************************************************)
EXTENDS Catalogue, TLAPS

-----------------------------------------------------------------------------
(* Rows                                                                    *)

Galleried == {"product", "shop"}
Nameless == {None, "shop", "review"}
Compared == {"product", "type", "banner", "event", "voucher"}
TypeRef == {<<"type", "type">>}

\* The children of a row as its table declares them.
RefsFit(res, refs) ==
  /\ res = "product" => refs = TypeRef
  /\ res \in {"type", "banner", "cashier"} => refs = {}
  /\ res # "shop" => \A ref \in refs : ref[1] # "staff"
  /\ res \notin {"shop", "review"} => \A ref \in refs : ref[1] # "line"

KindOf(kind) ==
  CASE kind = "DISKON" -> {"discount"} [] kind = "BUNDLE" -> {"buy", "reward"} [] OTHER -> {kind}
OneKind(refs, kind) == {ref[1] : ref \in refs} = KindOf(kind)

RowFit(i, row) ==
  /\ row \in Row
  /\ row.res = None => row = NoRow
  /\ row.res \in {"voucher", "review"} => row.cover = {}
  /\ row.res \in Pictured => row.cover # {}
  /\ row.res \notin Galleried => row.gallery = {}
  /\ \A p \in row.cover : p[1] = i /\ p[3] = "cover"
  /\ \A p \in row.gallery : p[1] = i /\ p[3] = "gallery"
  /\ IF row.res \in Nameless THEN row.name = None ELSE row.name \in Names
  /\ RefsFit(row.res, row.refs)
  /\ row.live /\ row.res \in {"event", "voucher"} => OneKind(row.refs, row.kind)
  /\ ~row.live /\ row.res = "shop" => row.gallery = {} /\ row.refs = {}

-----------------------------------------------------------------------------
(* Requests                                                                *)

Early == {"guarding", "finding", "checking", "referring", "clearing", "setting"}
Before == Early \cup {"uploading", "writing"}
After == {"rereading", "dropping"}
Saving == {"create", "edit"}

StagesOf(op) ==
  CASE op = "create" -> {"checking", "referring", "uploading", "writing", "rereading", "dropping"}
    [] op = "edit" -> {"finding", "checking", "referring", "uploading", "writing", "rereading", "dropping"}
    [] op = "delete" -> {"guarding", "finding", "clearing", "writing", "dropping"}
    [] op = "status" -> {"setting"}
    [] OTHER -> {"idle", "undoing", "answered"}

FormFit(res, op, form) ==
  /\ res \in Resources \ {"review"}
  /\ IF res \in Nameless THEN form.name = None ELSE form.name \in Names
  /\ res \notin Galleried => ~form.replace /\ "gallery" \notin form.pics
  /\ res = "voucher" => form.pics = {}
  /\ op = "create" /\ res # "voucher" => "cover" \in form.pics
  /\ RefsFit(res, form.refs)
  /\ res = "event" => form.kind \in EventTypes /\ form.refs = Children(form.lists)
  /\ res = "voucher" => form.kind \in DiscountTypes /\ form.refs = Columns(form.lists)
  /\ res = "shop" => \A ref \in form.refs : ref[1] \in form.lists

\* What the checks at the start let through.
Checked(q) ==
  q.at \in {"referring", "uploading", "writing"} =>
    /\ q.res = "event" => Valid(q.form)
    /\ q.res = "voucher" => Normal(q.form)

\* The stages a request can be at, for what it does and to what.
PathFits(r, q) ==
  /\ q.at \in StagesOf(q.op)
  /\ q.op # None => q.id \in Ids /\ q.res \in Resources
  /\ q.op = "create" => q.id = r
  /\ q.at = "clearing" => q.res \in {"product", "event"}
  /\ q.op = "delete" /\ q.res \in {"voucher", "review"} => q.at \notin {"finding", "clearing"}

\* A create or an edit that has not written yet.
Pending(q) == q.op \in Saving /\ q.at \notin After

FormFits(q) == Pending(q) => FormFit(q.res, q.op, q.form) /\ Checked(q)

OldFits(q) ==
  /\ q.op # None => \A p \in q.old : p[1] = q.id
  /\ q.op = "create" \/ q.at \in {"finding", "guarding", "setting"} \/ q.res \in {"voucher", "review"}
       => q.old = {}

\* The pictures a request uploads, and those it has.
Uploads(r, q) == {<<q.id, r, part>> : part \in q.form.pics}
NewFits(r, q) ==
  /\ \A p \in q.new : p[2] = r
  /\ q.op # None => \A p \in q.new : p[1] = q.id
  /\ q.op \in {"delete", "status"} \/ q.at \in Early => q.new = {}
  /\ Pending(q) => q.new \subseteq Uploads(r, q)
  /\ Pending(q) /\ q.at = "writing" => q.new = Uploads(r, q)

Sane(r, q) == q \in Request /\ PathFits(r, q) /\ FormFits(q) /\ OldFits(q) /\ NewFits(r, q)

\* A request and the row it is about.
Fits(r, q, tables) ==
  /\ q.at = "idle" => tables[r] = NoRow
  /\ q.op = "create" /\ q.at \in Before => tables[r] = NoRow
  /\ q.op \in {"edit", "delete", "status"} \/ q.at \in After => tables[q.id].res = q.res

Shape ==
  /\ \A i \in Ids : RowFit(i, rows[i])
  /\ \A r \in Requests : Sane(r, req[r]) /\ Fits(r, req[r], rows)

Naming(q) == q.op \in Saving /\ q.res \in Compared /\ q.at \in {"referring", "uploading", "writing"}

-----------------------------------------------------------------------------
(* What a step of a request comes to                                       *)

Turn(r, q) == req' = [req EXCEPT ![r] = q]
Pairs == Resources \X (Names \cup Ids)
Calm == UNCHANGED <<rows, stored, leaked, contested, blamed>>
Answered(r) == [NoRequest EXCEPT !.at = "answered", !.res = req[r].res]
Ending(r) ==
  IF req[r].new = {} THEN Answered(r)
  ELSE [NoRequest EXCEPT !.at = "undoing", !.res = req[r].res, !.new = req[r].new]

\* Where a request can start.
MayStart(res, op, stage) ==
  \/ op \in {"edit", "delete", "status"} /\ stage \in {"guarding", "finding", "setting"}
     /\ (op = "delete" /\ stage = "finding" => res \notin {"type", "shop", "voucher", "review"})
  \/ op = "create" /\ stage = "checking"
  \/ op = "create" /\ stage = "referring" /\ res = "shop"
  \/ op = "delete" /\ stage = "writing" /\ res = "review"
Start(q) == q.new = {} /\ q.old = {} /\ MayStart(q.res, q.op, q.at)

Arrives(r, q) == Idle(r) /\ Start(q) /\ Fits(r, q, rows) /\ Calm /\ crowded' = crowded

\* What is known of the stages after the one that looked.
Looked(r, q) ==
  /\ q.old = IF req[r].at = "finding" THEN Held(rows[q.id]) ELSE req[r].old
  /\ Naming(q) /\ ~Naming(req[r]) =>
       /\ ~Taken(r)
       /\ (\E o \in Requests \ {r} : Named(o, q.res, q.form.name)) =>
            <<q.res, q.form.name>> \in crowded'
  /\ q.res = "product" /\ q.op \in Saving /\ q.at \in {"uploading", "writing"} =>
       /\ "type" \in Existing("type")
       /\ (\E o \in Requests : Retiring(o, "type")) => <<"type", "type">> \in crowded'
  /\ q.res = "type" /\ q.op = "delete" /\ req[r].at = "guarding" =>
       /\ ~InUse(q.id)
       /\ (\E o \in Requests : Adopting(o, q.id)) => <<"type", q.id>> \in crowded'
  /\ q.res \in {"shop", "voucher"} /\ req[r].at = "guarding" => q.id \notin ordered
  /\ q.res \in {"type", "shop"} /\ q.op = "delete" => req[r].at \in {"guarding", "finding"}
  /\ q.res = "voucher" /\ q.op = "delete" => req[r].at = "guarding"
  /\ req[r].at = "guarding" => q.at = "finding" \/ q.res = "voucher"
  /\ q.op = "delete" /\ q.at = "writing" /\ q.res = "product" => q.saw = rows[q.id].gallery
  /\ q.op = "delete" /\ q.at = "writing" /\ q.res = "event" => q.saw = rows[q.id].refs

Proceeds(r, q) ==
  /\ req[r].at \in Early \ {"setting"}
  /\ q.at \in {"finding", "checking", "referring", "clearing", "uploading", "writing"}
  /\ q = [req[r] EXCEPT !.at = q.at, !.old = q.old, !.saw = q.saw]
  /\ Looked(r, q)
  /\ Calm /\ crowded \subseteq crowded' /\ crowded' \subseteq crowded \cup Pairs

Quits(r, q) == req[r].at \in Before /\ q = Ending(r) /\ Calm /\ crowded' = crowded

\* The row a write leaves.
NewRefs(r) ==
  In(r).refs \cup (IF req[r].res = "shop"
                   THEN {ref \in rows[Id(r)].refs : ref[1] \notin In(r).lists} ELSE {})
Draft(r, row) ==
  /\ row \in Row
  /\ row.res = req[r].res /\ row.live
  /\ row.name = In(r).name
  /\ row.cover = NewCover(r)
  /\ row.gallery = ProductGallery(r)
  /\ row.refs = NewRefs(r)
  /\ row.res \in {"event", "voucher"} => row.kind = In(r).kind

Writes(r, q) ==
  /\ req[r].at = "writing" /\ Op(r) \in Saving
  /\ Op(r) = "edit" => Id(r) \in Existing(req[r].res)
  /\ req[r].res = "cashier" => Indexed(r)
  /\ \E row \in Row : Draft(r, row) /\ rows' = [rows EXCEPT ![Id(r)] = row]
  /\ q.at \in After /\ (q.at = "dropping" => Op(r) = "create")
  /\ q = [req[r] EXCEPT !.at = q.at, !.form = NoForm, !.old = Replaced(r)]
  /\ Contest(r)
  /\ UNCHANGED <<stored, leaked, crowded, blamed>>

\* The row a delete leaves.
Remains(r, row) ==
  /\ row \in Row /\ ~row.live
  /\ row.res = req[r].res /\ row.name = rows[Id(r)].name /\ row.cover = rows[Id(r)].cover
  /\ row.gallery \subseteq rows[Id(r)].gallery /\ row.refs \subseteq rows[Id(r)].refs
  /\ row.res # "event" /\ row.res # "shop" => row.refs = rows[Id(r)].refs
  /\ row.res = "product" => row.gallery \subseteq rows[Id(r)].gallery \ req[r].saw
  /\ row.res = "event" => row.refs \subseteq rows[Id(r)].refs \ req[r].saw
  /\ row.res = "shop" => row.gallery = {} /\ row.refs = {}

Removes(r, q) ==
  /\ req[r].at = "writing" /\ Op(r) = "delete"
  /\ Id(r) \in Existing(req[r].res)
  /\ \E row \in Row : Remains(r, row) /\ rows' = [rows EXCEPT ![Id(r)] = row]
  /\ q = [req[r] EXCEPT !.at = "dropping", !.saw = {}]
  /\ Contest(r)
  /\ UNCHANGED <<stored, leaked, crowded, blamed>>

Sets(r, q) ==
  /\ req[r].at = "setting" /\ q = Ending(r)
  /\ rows' = [rows EXCEPT ![Id(r)].active = In(r).active]
  /\ UNCHANGED <<stored, history>>

Effect(r) ==
  \E q \in Request :
    /\ Turn(r, q)
    /\ Sane(r, q)
    /\ \/ Arrives(r, q) \/ Proceeds(r, q) \/ Quits(r, q)
       \/ Writes(r, q) \/ Removes(r, q) \/ Sets(r, q)

Whole == TypeOK /\ Shape

-----------------------------------------------------------------------------
(* What the shared steps do                                                *)

\* Nothing asked for, nobody asking and no row are forms, requests and rows.
LEMMA Blank == NoForm \in Form /\ NoRequest \in Request /\ NoRow \in Row
  BY DEF NoForm, Form, NoRequest, Request, NoRow, Row, Stage, Kinds

\* A request that is over is in order whatever the tables hold.
LEMMA Endings ==
  ASSUME NEW r \in Requests, req[r] \in Request, \A p \in req[r].new : p[2] = r, NEW tables
  PROVE  /\ Answered(r) \in Request /\ Answered(r).at = "answered" /\ Answered(r).op = None
         /\ Answered(r).old = {} /\ Answered(r).new = {}
         /\ Sane(r, Answered(r)) /\ Fits(r, Answered(r), tables)
         /\ Ending(r) \in Request /\ Ending(r).op = None /\ Ending(r).old = {} /\ Ending(r).new = req[r].new
         /\ Ending(r).at = IF req[r].new = {} THEN "answered" ELSE "undoing"
         /\ Sane(r, Ending(r)) /\ Fits(r, Ending(r), tables)
         /\ (Done(r) => Turn(r, Answered(r))) /\ (Abort(r) => Turn(r, Ending(r)))
<1> DEFINE e == Ending(r)
           a == Answered(r)
<1>1. /\ a \in Request /\ a.at = "answered" /\ a.op = None /\ a.old = {} /\ a.new = {}
  BY Blank DEF Answered, Request, NoRequest, Stage
<1>2. /\ e \in Request /\ e.op = None /\ e.old = {} /\ e.new = req[r].new
      /\ e.at = IF req[r].new = {} THEN "answered" ELSE "undoing"
  <2>1. CASE req[r].new = {} BY <1>1, <2>1 DEF Ending
  <2>2. CASE req[r].new # {} BY <2>2, Blank DEF Ending, Request, NoRequest, Stage
  <2> QED BY <2>1, <2>2
<1>3. (Done(r) => Turn(r, a)) /\ (Abort(r) => Turn(r, e))
  BY DEF Done, Abort, Turn, Ending, Answered
<1> HIDE DEF a, e
<1>4. Sane(r, a) /\ Fits(r, a, tables)
  BY <1>1 DEF Sane, PathFits, StagesOf, FormFits, Pending, OldFits, NewFits, Saving, None, Early, Fits, After
<1>5. Sane(r, e) /\ Fits(r, e, tables)
  BY <1>2 DEF Sane, PathFits, StagesOf, FormFits, Pending, OldFits, NewFits, Saving, None, Early, Fits, After
<1> QED BY <1>1, <1>2, <1>3, <1>4, <1>5 DEF a, e

\* A request that gives up before it has written changes nothing but itself.
LEMMA AbortEffect ==
  ASSUME Shape, NEW r \in Requests, req[r].at \in Before, Abort(r), Calm, crowded' = crowded
  PROVE  Effect(r)
<1> DEFINE e == Ending(r)
<1>1. req[r] \in Request /\ \A p \in req[r].new : p[2] = r BY DEF Shape, Sane, NewFits
<1>2. e \in Request /\ Turn(r, e) /\ Sane(r, e) BY <1>1, Endings
<1>3. Quits(r, e) BY DEF Quits
<1> HIDE DEF e
<1> QED BY <1>2, <1>3 DEF Effect

\* So does one that ends there without pictures of its own.
LEMMA DoneEffect ==
  ASSUME Shape, NEW r \in Requests, req[r].at \in Before, req[r].new = {},
         Done(r), Calm, crowded' = crowded
  PROVE  Effect(r)
BY AbortEffect DEF Abort

\* A request that arrives as its handler lets it through.
LEMMA ReceiveEffect ==
  ASSUME Shape, NEW r \in Requests, Idle(r),
         NEW res \in Resources, NEW op \in {"create", "edit", "delete", "status"},
         NEW id \in Ids, NEW form \in Form, NEW stage \in StagesOf(op),
         MayStart(res, op, stage),
         stage = "guarding" => op = "delete", stage = "finding" => op \in {"edit", "delete"},
         op = "create" => id = r,
         op # "create" => id \in Existing(res),
         op \in Saving => FormFit(res, op, form),
         Receive(r, res, op, id, form, stage)
  PROVE  Effect(r)
<1> DEFINE q == [NoRequest EXCEPT !.at = stage, !.res = res, !.op = op, !.id = id, !.form = form]
<1>1. stage \in Stage \ {"clearing", "uploading"} /\ (stage = "writing" => res = "review")
        /\ (stage = "referring" => res = "shop") /\ stage \notin After
  BY DEF StagesOf, Stage, MayStart, After
<1>2. /\ q \in Request /\ q.at = stage /\ q.res = res /\ q.op = op /\ q.id = id /\ q.form = form
      /\ q.old = {} /\ q.new = {}
  BY <1>1, Blank DEF Request, NoRequest
<1>3. Turn(r, q) /\ Calm /\ crowded' = crowded BY DEF Turn, Receive, Calm, history, overlaps
<1>4. rows[r] = NoRow BY DEF Shape, Fits, Idle
<1> HIDE DEF q
<1>5. PathFits(r, q)
  BY <1>1, <1>2 DEF PathFits, MayStart
<1>6. FormFits(q) /\ OldFits(q)
  BY <1>1, <1>2 DEF FormFits, Pending, Checked, OldFits, FormFit, Saving
<1>7. NewFits(r, q)
  <2>1. ~(Pending(q) /\ q.at = "writing") BY <1>1, <1>2 DEF Pending, Saving, MayStart
  <2> QED BY <1>2, <2>1 DEF NewFits
<1>8. Arrives(r, q)
  <2>1. Start(q) BY <1>2 DEF Start
  <2>2. Fits(r, q, rows)
    BY <1>1, <1>2, <1>4 DEF Fits, Existing, After, MayStart
  <2> QED BY <1>3, <2>1, <2>2 DEF Arrives
<1> QED BY <1>2, <1>3, <1>5, <1>6, <1>7, <1>8 DEF Effect, Sane

\* A step from one of the early stages to the next.
LEMMA ProceedEffect ==
  ASSUME Shape, NEW r \in Requests, NEW q \in Request, Turn(r, q), Calm,
         crowded \subseteq crowded', crowded' \subseteq crowded \cup Pairs,
         req[r].at \in Early \ {"setting"},
         q.at \in {"finding", "checking", "referring", "clearing", "uploading", "writing"},
         q.at \in StagesOf(req[r].op),
         q = [req[r] EXCEPT !.at = q.at, !.old = q.old, !.saw = q.saw],
         Looked(r, q),
         q.at = "finding" => req[r].at = "guarding" /\ q.res \in {"type", "shop"},
         q.at = "clearing" => q.res \in {"product", "event"},
         Pending(q) => Checked(q),
         Pending(q) /\ q.at = "writing" => q.form.pics = {}
  PROVE  Effect(r)
<1> DEFINE s == req[r]
<1>1. s \in Request /\ Sane(r, s) /\ Fits(r, s, rows) BY DEF Shape, Sane
<1>2. /\ q.res = s.res /\ q.op = s.op /\ q.id = s.id /\ q.form = s.form /\ q.new = s.new
  BY <1>1 DEF Request
<1> HIDE DEF s
<1>3. s.op \in {"create", "edit", "delete"} /\ s.op # None /\ s.at \notin After /\ q.at \notin After
  BY <1>1 DEF s, Sane, PathFits, StagesOf, Early, None, After
<1>4. PathFits(r, q)
  BY <1>1, <1>2, <1>3 DEF s, Sane, PathFits
<1>5. FormFits(q)
  BY <1>1, <1>2, <1>3 DEF Sane, FormFits, Pending, Saving
<1>6. s.new = {}
  BY <1>1 DEF s, Sane, NewFits
<1>7. NewFits(r, q)
  BY <1>1, <1>2, <1>3, <1>6 DEF NewFits, Uploads
<1>8. OldFits(q)
  <2>1. CASE s.at = "finding"
    <3>1. RowFit(s.id, rows[s.id]) /\ rows[s.id].res = s.res
      BY <1>1, <1>3, <2>1 DEF Shape, Sane, PathFits, Fits, Saving, StagesOf, s
    <3>2. \A p \in Held(rows[s.id]) : p[1] = s.id
      BY <3>1 DEF RowFit, Held
    <3>3. s.res \in {"voucher", "review"} => Held(rows[s.id]) = {}
      BY <3>1 DEF RowFit, Held, Galleried
    <3>4. s.op # "create"
      BY <1>1, <2>1 DEF Sane, PathFits, StagesOf
    <3>5. q.old = Held(rows[s.id]) BY <1>2, <2>1 DEF Looked, s
    <3>6. q.at \notin {"finding", "guarding", "setting"}
      BY <2>1 DEF s
    <3> QED BY <1>2, <3>2, <3>3, <3>4, <3>5, <3>6 DEF OldFits
  <2>2. CASE s.at # "finding"
    <3>1. q.old = s.old BY <2>2 DEF Looked, s
    <3>2. q.at \in {"finding", "guarding", "setting"} => s.at = "guarding"
      BY DEF s
    <3> QED BY <1>1, <1>2, <1>3, <3>1, <3>2 DEF Sane, OldFits
  <2> QED BY <2>1, <2>2
<1>9. Sane(r, q) BY <1>4, <1>5, <1>7, <1>8 DEF Sane
<1>10. Proceeds(r, q) BY DEF Proceeds
<1> QED BY <1>9, <1>10 DEF Effect

\* The row is read, or is gone.
LEMMA FindEffect ==
  ASSUME Shape, NEW r \in Requests, req[r].at = "finding",
         NEW stage \in StagesOf(Op(r)) \ {"finding"}, Find(r, stage),
         \/ Op(r) = "edit" /\ stage = "checking"
         \/ Op(r) = "edit" /\ stage = "referring" /\ req[r].res = "shop"
         \/ Op(r) = "delete" /\ stage = "clearing" /\ req[r].res \in {"product", "event"}
         \/ Op(r) = "delete" /\ stage = "writing" /\ req[r].res \notin {"product", "event"}
  PROVE  Effect(r)
<1> DEFINE s == req[r]
           q == [s EXCEPT !.at = stage, !.old = Held(rows[Id(r)])]
<1>1. s \in Request /\ Sane(r, s) BY DEF Shape, Sane
<1>0. Calm /\ crowded' = crowded BY DEF Find, Calm, history, overlaps
<1>2. CASE Id(r) \notin Existing(s.res)
  <2>1. Done(r) BY <1>2 DEF Find
  <2>2. s.new = {} /\ s.at \in Before BY <1>1 DEF Sane, NewFits, Early, Before
  <2> QED BY <1>0, <2>1, <2>2, DoneEffect
<1>3. CASE Id(r) \in Existing(s.res)
  <2>1. req' = [req EXCEPT ![r].at = stage, ![r].old = Held(rows[Id(r)])] BY <1>3 DEF Find
  <2>2. Turn(r, q) BY <2>1 DEF Turn
  <2>3. Held(rows[Id(r)]) \in SUBSET Pictures
    BY <1>3 DEF Existing, Shape, RowFit, Row, Held
  <2>4. /\ q \in Request /\ q.at = stage /\ q.old = Held(rows[Id(r)])
        /\ q.res = s.res /\ q.op = s.op /\ q.id = s.id /\ q.form = s.form /\ q.saw = s.saw
        /\ q = [s EXCEPT !.at = q.at, !.old = q.old, !.saw = q.saw]
    BY <1>1, <2>3 DEF Request, Stage
  <2> HIDE DEF q
  <2>5. ~Naming(q) /\ (q.op \notin Saving \/ q.at \notin {"uploading", "writing"})
    BY <2>4 DEF Naming, Saving, Compared, Op
  <2>6. Looked(r, q)
    BY <1>1, <2>4, <2>5 DEF Looked, Op, Id, Sane, PathFits
  <2>7. Pending(q) => Checked(q) /\ q.at # "writing"
    BY <2>4 DEF Checked, Pending, Saving, Op
  <2> QED BY <1>0, <2>2, <2>4, <2>6, <2>7, ProceedEffect DEF Early, Op
<1> QED BY <1>2, <1>3

\* The name is free for all one can see, or the request ends.
LEMMA CheckNameEffect ==
  ASSUME Shape, NEW r \in Requests, req[r].at = "checking",
         NEW stage \in {"referring", "uploading", "writing"}, CheckName(r, stage),
         stage = "writing" => In(r).pics = {},
         req[r].res # "shop", req[r].res = "product" => stage = "referring",
         req[r].res = "event" => Valid(In(r)), req[r].res = "voucher" => Normal(In(r))
  PROVE  Effect(r)
<1> DEFINE s == req[r]
           q == [s EXCEPT !.at = stage]
<1>1. s \in Request /\ Sane(r, s) BY DEF Shape, Sane
<1>0. Calm BY DEF CheckName, Calm
<1>2. CASE Taken(r)
  <2>1. Done(r) /\ crowded' = crowded BY <1>2 DEF CheckName
  <2>2. s.new = {} /\ s.at \in Before BY <1>1 DEF Sane, NewFits, Early, Before
  <2> QED BY <1>0, <2>1, <2>2, DoneEffect
<1>3. CASE ~Taken(r)
  <2>1. Turn(r, q) BY <1>3 DEF Turn, Goto, CheckName
  <2>2. /\ q \in Request /\ q.at = stage /\ q.old = s.old
        /\ q.res = s.res /\ q.op = s.op /\ q.id = s.id /\ q.form = s.form
        /\ q = [s EXCEPT !.at = q.at, !.old = q.old, !.saw = q.saw]
    BY <1>1 DEF Request, Stage
  <2>3. crowded \subseteq crowded' /\ ((\E o \in Requests \ {r} : Named(o, req[r].res, In(r).name))
                                        => <<req[r].res, In(r).name>> \in crowded')
    BY <1>3 DEF CheckName
  <2> HIDE DEF q
  <2>4. s.op \in Saving /\ stage \in StagesOf(s.op) /\ s.op # "delete"
    BY <1>1 DEF Sane, PathFits, StagesOf, Saving
  <2>0. <<req[r].res, In(r).name>> \in Pairs
    <3>1. s.res \in Resources /\ Pending(s)
      BY <1>1, <2>4 DEF Sane, PathFits, Saving, Pending, After, None
    <3>2. In(r).name \in Names
      BY <1>1, <3>1 DEF Sane, FormFits, FormFit, Nameless, In, None, Resources
    <3> QED BY <3>1, <3>2 DEF Pairs
  <2>7. crowded' \subseteq crowded \cup Pairs
    BY <1>3, <2>0 DEF CheckName
  <2>5. Looked(r, q)
    BY <1>3, <2>2, <2>3, <2>4 DEF Looked, In
  <2>6. Checked(q)
    BY <2>2 DEF Checked, In
  <2> QED BY <1>0, <2>1, <2>2, <2>3, <2>4, <2>5, <2>6, <2>7, ProceedEffect DEF Early, In
<1> QED BY <1>2, <1>3

\* What a form refers to is there: on to the pictures, or the row.
LEMMA ReferEffect ==
  ASSUME Shape, NEW r \in Requests, req[r].at = "referring",
         NEW stage \in {"uploading", "writing"}, Goto(r, stage),
         stage = "writing" => In(r).pics = {},
         Calm, crowded \subseteq crowded', crowded' \subseteq crowded \cup Pairs,
         req[r].res = "product" =>
           /\ "type" \in Existing("type")
           /\ (\E o \in Requests : Retiring(o, "type")) => <<"type", "type">> \in crowded'
  PROVE  Effect(r)
<1> DEFINE s == req[r]
           q == [s EXCEPT !.at = stage]
<1>1. s \in Request /\ Sane(r, s) BY DEF Shape, Sane
<1>2. Turn(r, q) BY DEF Turn, Goto
<1>3. /\ q \in Request /\ q.at = stage /\ q.old = s.old
      /\ q.res = s.res /\ q.op = s.op /\ q.id = s.id /\ q.form = s.form
      /\ q = [s EXCEPT !.at = q.at, !.old = q.old, !.saw = q.saw]
  BY <1>1 DEF Request, Stage
<1> HIDE DEF q
<1>4. s.op \in Saving /\ stage \in StagesOf(s.op) /\ s.op # "delete"
  BY <1>1 DEF Sane, PathFits, StagesOf, Saving
<1>5. Looked(r, q)
  BY <1>3, <1>4 DEF Looked, Naming
<1>6. Checked(q)
  BY <1>1, <1>3, <1>4 DEF Checked, Sane, FormFits, Pending, After
<1> QED BY <1>2, <1>3, <1>4, <1>5, <1>6, ProceedEffect DEF Early, In

\* A delete that nothing stops.
LEMMA GuardEffect ==
  ASSUME Shape, NEW r \in Requests, req[r].at = "guarding",
         NEW stage \in {"finding", "writing"}, Goto(r, stage),
         Calm, crowded \subseteq crowded', crowded' \subseteq crowded \cup Pairs,
         \/ req[r].res \in {"type", "shop"} /\ stage = "finding"
         \/ req[r].res = "voucher" /\ stage = "writing",
         req[r].res = "type" =>
           /\ ~InUse(Id(r))
           /\ (\E o \in Requests : Adopting(o, Id(r))) => <<"type", Id(r)>> \in crowded',
         req[r].res # "type" => Id(r) \notin ordered
  PROVE  Effect(r)
<1> DEFINE s == req[r]
           q == [s EXCEPT !.at = stage]
<1>1. s \in Request /\ Sane(r, s) BY DEF Shape, Sane
<1>2. Turn(r, q) BY DEF Turn, Goto
<1>3. /\ q \in Request /\ q.at = stage /\ q.old = s.old
      /\ q.res = s.res /\ q.op = s.op /\ q.id = s.id /\ q.form = s.form
      /\ q = [s EXCEPT !.at = q.at, !.old = q.old, !.saw = q.saw]
  BY <1>1 DEF Request, Stage
<1> HIDE DEF q
<1>4. s.op = "delete" /\ stage \in StagesOf(s.op) /\ s.op \notin Saving
  BY <1>1 DEF Sane, PathFits, StagesOf, Saving
<1>5. Looked(r, q)
  BY <1>3, <1>4 DEF Looked, Naming, Id
<1>6. ~Pending(q)
  BY <1>3, <1>4 DEF Pending
<1> QED BY <1>2, <1>3, <1>4, <1>5, <1>6, ProceedEffect DEF Early

\* The transaction of a delete has cleared what it saw.
LEMMA ClearEffect ==
  ASSUME Shape, NEW r \in Requests, req[r].at = "clearing", NEW saw \in SUBSET (Pictures \cup Ref),
         req' = [req EXCEPT ![r].at = "writing", ![r].saw = saw],
         UNCHANGED <<rows, stored, history>>,
         req[r].res = "product" => saw = rows[Id(r)].gallery,
         req[r].res = "event" => saw = rows[Id(r)].refs
  PROVE  Effect(r)
<1> DEFINE s == req[r]
           q == [s EXCEPT !.at = "writing", !.saw = saw]
<1>1. s \in Request /\ Sane(r, s) BY DEF Shape, Sane
<1>2. Turn(r, q) /\ Calm /\ crowded' = crowded BY DEF Turn, Calm, history, overlaps
<1>3. /\ q \in Request /\ q.at = "writing" /\ q.old = s.old /\ q.saw = saw
      /\ q.res = s.res /\ q.op = s.op /\ q.id = s.id /\ q.form = s.form
      /\ q = [s EXCEPT !.at = q.at, !.old = q.old, !.saw = q.saw]
  BY <1>1 DEF Request, Stage
<1> HIDE DEF q
<1>4. s.op = "delete" /\ "writing" \in StagesOf(s.op) /\ s.op \notin Saving
       /\ s.res \in {"product", "event"}
  BY <1>1 DEF Sane, PathFits, StagesOf, Saving
<1>5. Looked(r, q)
  BY <1>3, <1>4 DEF Looked, Naming, Id
<1>6. ~Pending(q)
  BY <1>3, <1>4 DEF Pending
<1> QED BY <1>2, <1>3, <1>4, <1>5, <1>6, ProceedEffect DEF Early

\* What a create or an edit writes, type by type and as it finds its row.
LEMMA WriteReady ==
  ASSUME Shape, NEW r \in Requests, req[r].at = "writing", Op(r) \in Saving,
         Op(r) = "edit" => Id(r) \in Existing(req[r].res)
  PROVE  /\ Id(r) \in Ids /\ rows[Id(r)] \in Row /\ In(r) \in Form /\ req[r].res \in Resources
         /\ NewCover(r) \in {{}} \cup {{p} : p \in Pictures}
         /\ ProductGallery(r) \in SUBSET Pictures
         /\ NewRefs(r) \in SUBSET Ref
         /\ Op(r) = "create" =>
              /\ Id(r) = r /\ rows[Id(r)] = NoRow
              /\ NewCover(r) = IF req[r].res = "voucher" THEN {} ELSE {Picture(r, "cover")}
              /\ ProductGallery(r) = Added(r)
         /\ Op(r) = "edit" => rows[Id(r)].res = req[r].res /\ rows[Id(r)].live
         /\ req[r].res \notin Galleried => ProductGallery(r) = {} /\ rows[Id(r)].gallery = {}
         /\ req[r].res # "shop" => NewRefs(r) = In(r).refs
         /\ req[r].res \in {"type", "banner", "cashier"} => In(r).refs = {} /\ rows[Id(r)].refs = {}
         /\ req[r].res = "shop" => In(r).name = None /\ rows[Id(r)].name = None
         /\ req[r].res = "voucher" => NewCover(r) = {} /\ rows[Id(r)].cover = {}
<1> DEFINE s == req[r]
           was == rows[Id(r)]
<1>1. s \in Request /\ Sane(r, s) /\ Fits(r, s, rows) BY DEF Shape, Sane
<1>2. s.op \in {"create", "edit"} /\ s.op # None /\ Pending(s) /\ s.at \in Before
  BY DEF Pending, After, Op, Saving, None, Before
<1>3. s.id \in Ids /\ s.res \in Resources /\ (s.op = "create" => s.id = r)
  BY <1>1, <1>2 DEF Sane, PathFits
<1>4. FormFit(s.res, s.op, s.form) BY <1>1, <1>2 DEF Sane, FormFits
<1>5. RowFit(s.id, was) BY <1>3 DEF Shape, Id
<1>6. In(r) \in Form BY <1>1 DEF Request, In
<1>7. s.op = "create" => was = NoRow
  BY <1>1, <1>2, <1>3 DEF Fits, Id
<1>8. s.op = "edit" => was.res = s.res /\ was.live
  BY DEF Existing, Op, Id
<1>9. /\ was \in Row /\ was.gallery \subseteq Pictures /\ was.refs \subseteq Ref
      /\ was.cover \in {{}} \cup {{p} : p \in Pictures}
  BY <1>5 DEF RowFit, Row
<1>10. Picture(r, "cover") \in Pictures /\ Picture(r, "gallery") \in Pictures
  BY <1>3 DEF Picture, Pictures, Parts, Id
<1>11. /\ In(r).refs \subseteq Ref /\ In(r).pics \subseteq Parts
  BY <1>6 DEF Form
<1>12. NewCover(r) \in {{}} \cup {{p} : p \in Pictures}
  BY <1>9, <1>10 DEF NewCover
<1>13. ProductGallery(r) \in SUBSET Pictures
  BY <1>9, <1>10 DEF ProductGallery, Added
<1>14. NewRefs(r) \in SUBSET Ref
  BY <1>9, <1>11 DEF NewRefs
<1>15. was = NoRow => was.gallery = {} /\ was.refs = {} /\ was.cover = {} /\ was.name = None
  BY DEF NoRow
<1>16. s.op = "create" =>
         /\ NewCover(r) = IF req[r].res = "voucher" THEN {} ELSE {Picture(r, "cover")}
         /\ ProductGallery(r) = Added(r)
  BY <1>4, <1>7, <1>15 DEF NewCover, ProductGallery, FormFit, In
<1>17. s.res \notin Galleried => ProductGallery(r) = {} /\ was.gallery = {}
  BY <1>2, <1>4, <1>5, <1>7, <1>8, <1>15 DEF ProductGallery, Added, FormFit, In, RowFit
<1>18. s.res # "shop" => NewRefs(r) = In(r).refs
  BY DEF NewRefs
<1>19. s.res \in {"type", "banner", "cashier"} => In(r).refs = {} /\ was.refs = {}
  BY <1>2, <1>4, <1>5, <1>7, <1>8, <1>15 DEF FormFit, RefsFit, RowFit, In
<1>20. s.res = "shop" => In(r).name = None /\ was.name = None
  BY <1>2, <1>4, <1>5, <1>7, <1>8, <1>15 DEF FormFit, Nameless, RowFit, In
<1>21. s.res = "voucher" => NewCover(r) = {} /\ was.cover = {}
  BY <1>2, <1>4, <1>5, <1>7, <1>8, <1>15 DEF FormFit, RowFit, In, NewCover
<1> QED
  BY <1>3, <1>6, <1>7, <1>8, <1>9, <1>12, <1>13, <1>14, <1>16, <1>17, <1>18, <1>19, <1>20, <1>21
  DEF Id, Op

\* A commit of a draft is a write.
LEMMA WriteEffect ==
  ASSUME Shape, NEW r \in Requests, req[r].at = "writing", Op(r) \in Saving,
         Op(r) = "edit" => Id(r) \in Existing(req[r].res),
         req[r].res = "cashier" => Indexed(r),
         NEW row, Draft(r, row), NEW stage \in After, stage = "dropping" => Op(r) = "create",
         Commit(r, row, stage)
  PROVE  Effect(r)
<1> DEFINE s == req[r]
           q == [s EXCEPT !.at = stage, !.form = NoForm, !.old = Replaced(r)]
<1>1. s \in Request /\ Sane(r, s) BY DEF Shape, Sane
<1>2. Turn(r, q) BY DEF Turn, Commit
<1>3. Replaced(r) \subseteq s.old BY DEF Replaced
<1>4. /\ q \in Request /\ q.at = stage /\ q.old = Replaced(r) /\ q.form = NoForm
      /\ q.res = s.res /\ q.op = s.op /\ q.id = s.id /\ q.new = s.new
      /\ q = [s EXCEPT !.at = q.at, !.form = NoForm, !.old = Replaced(r)]
  BY <1>1, <1>3, Blank DEF Request, Stage, After
<1> HIDE DEF q
<1>5. Writes(r, q)
  BY <1>4 DEF Writes, Commit, Draft
<1>6. stage \in StagesOf(s.op) /\ s.op \in {"create", "edit"} /\ s.op # None
  BY DEF StagesOf, After, Op, Saving, None
<1>7. PathFits(r, q)
  BY <1>1, <1>4, <1>6 DEF Sane, PathFits, After
<1>8. ~Pending(q) /\ stage \notin Early \cup {"finding", "guarding", "setting"}
  BY <1>4 DEF Pending, After, Early
<1>9. OldFits(q) /\ NewFits(r, q) /\ FormFits(q)
  BY <1>1, <1>3, <1>4, <1>6, <1>8 DEF Sane, OldFits, NewFits, FormFits
<1> QED BY <1>2, <1>4, <1>5, <1>7, <1>9 DEF Effect, Sane

\* A create: what it inserts is a draft of its row.
LEMMA InsertEffect ==
  ASSUME Shape, NEW r \in Requests, req[r].at = "writing", Op(r) = "create",
         req[r].res = "cashier" => Indexed(r),
         NEW row, Draft(r, row), NEW stage \in After, Commit(r, row, stage)
  PROVE  Effect(r)
BY WriteEffect DEF Saving

\* An update that hits no row ends the request.
LEMMA WriteFails ==
  ASSUME Shape, NEW r \in Requests, req[r].at = "writing", Abort(r),
         UNCHANGED <<rows, stored, history>>
  PROVE  Effect(r)
BY AbortEffect DEF Before, Calm, history, overlaps

\* An edit: the row it would write is a draft if the row is still there.
LEMMA EditEffect ==
  ASSUME Shape, NEW r \in Requests, req[r].at = "writing", Op(r) = "edit",
         req[r].res = "cashier" => Indexed(r),
         NEW row, Id(r) \in Existing(req[r].res) => Draft(r, row), Edit(r, row)
  PROVE  Effect(r)
<1>1. CASE Id(r) \in Existing(req[r].res)
  BY <1>1, WriteEffect DEF Edit, Saving, After
<1>2. CASE Id(r) \notin Existing(req[r].res)
  BY <1>2, WriteFails DEF Edit
<1> QED BY <1>1, <1>2

\* A soft delete is a removal, or ends the request when the row is gone.
LEMMA RemoveEffect ==
  ASSUME Shape, NEW r \in Requests, req[r].at = "writing", Op(r) = "delete",
         NEW row, Remove(r, row),
         Id(r) \in Existing(req[r].res) => Remains(r, [row EXCEPT !.live = FALSE])
  PROVE  Effect(r)
<1> DEFINE s == req[r]
           q == [s EXCEPT !.at = "dropping", !.saw = {}]
<1>1. s \in Request /\ Sane(r, s) BY DEF Shape, Sane
<1>2. CASE Id(r) \in Existing(s.res)
  <2>1. Turn(r, q) BY <1>2 DEF Turn, Remove
  <2>2. /\ q \in Request /\ q.at = "dropping" /\ q.old = s.old /\ q.form = s.form
        /\ q.res = s.res /\ q.op = s.op /\ q.id = s.id /\ q.new = s.new
    BY <1>1 DEF Request, Stage
  <2>3. Removes(r, q)
    BY <1>2 DEF Removes, Remove, Remains
  <2> HIDE DEF q
  <2>4. Sane(r, q)
    BY <1>1, <2>2 DEF Sane, PathFits, StagesOf, FormFits, OldFits, NewFits, Pending, Saving, Op, Early
  <2> QED BY <2>1, <2>2, <2>3, <2>4 DEF Effect
<1>3. CASE Id(r) \notin Existing(s.res)
  <2>1. s.new = {} BY <1>1 DEF Sane, NewFits, Op
  <2> QED BY <1>3, <2>1, DoneEffect DEF Remove, Calm, history, overlaps, Before
<1> QED BY <1>2, <1>3

\* One column is updated, or none.
LEMMA StatusEffect ==
  ASSUME Shape, NEW r \in Requests, req[r].at = "setting", SetStatus(r)
  PROVE  Effect(r)
<1> DEFINE q == Ending(r)
<1>1. req[r] \in Request /\ req[r].new = {} BY DEF Shape, Sane, NewFits, Early
<1>2. q \in Request /\ Turn(r, q) /\ Sane(r, q) BY <1>1, Endings DEF SetStatus, Abort
<1> HIDE DEF q
<1>5. CASE Id(r) \in Existing(req[r].res)
  <2>1. Sets(r, q) BY <1>5 DEF Sets, q, SetStatus
  <2> QED BY <1>2, <2>1 DEF Effect
<1>6. CASE Id(r) \notin Existing(req[r].res)
  <2>1. Quits(r, q) BY <1>6 DEF Quits, q, SetStatus, Before, Early, Calm, history, overlaps
  <2> QED BY <1>2, <2>1 DEF Effect
<1> QED BY <1>5, <1>6

-----------------------------------------------------------------------------
(* The steps of each resource                                              *)

\* The stage a request is at and what it does fix each other.
LEMMA OpAt ==
  ASSUME Shape, NEW r \in Requests
  PROVE  /\ req[r].at \in StagesOf(Op(r)) /\ req[r] \in Request
         /\ req[r].at # "idle" => Op(r) = None \/ (Id(r) \in Ids /\ req[r].res \in Resources)
         /\ req[r].at \in Before => Op(r) \in {"create", "edit", "delete", "status"} /\ Op(r) # None
                                    /\ Id(r) \in Ids /\ req[r].res \in Resources
         /\ req[r].at \in Early => req[r].new = {}
         /\ req[r].at = "clearing" => Op(r) = "delete" /\ rows[Id(r)] \in Row
BY DEF Shape, Sane, PathFits, NewFits, Op, Id, StagesOf, Before, Early, None, RowFit

\* The forms of edit-status.
LEMMA EditForms == [NoForm EXCEPT !.active = FALSE] \in Form /\ [NoForm EXCEPT !.active = TRUE] \in Form
  BY Blank DEF Form

\* Products.
LEMMA ProductEffect == ASSUME Shape, NEW r \in Requests, ProductStep(r) PROVE Effect(r)
<1>0. /\ req[r].at \in StagesOf(Op(r)) /\ req[r] \in Request
      /\ r \in Ids /\ "product" \in Resources /\ "type" \in Ids
  BY OpAt DEF Ids, Resources
<1>1. CASE ProductArrives(r)
  <2>1. ASSUME NEW op \in {"create", "edit"}, NEW f \in ProductForms(op)
        PROVE  f \in Form /\ FormFit("product", op, f)
    <3>1. TypeRef \subseteq Ref BY DEF TypeRef, Ref, Lists, Ids, Resources
    <3>2. f \in Form
      BY <2>1, <3>1 DEF ProductForms, Form, Parts, Kinds, TypeRef, Lists
    <3> QED BY <2>1, <3>2
        DEF ProductForms, FormFit, RefsFit, Resources, Nameless, Galleried, None, TypeRef, Parts
  <2>2. CASE \E f \in ProductForms("create") : Receive(r, "product", "create", r, f, "checking")
    <3>1. PICK f \in ProductForms("create") : Receive(r, "product", "create", r, f, "checking")
      BY <2>2
    <3> QED BY <1>0, <1>1, <2>1, <3>1, ReceiveEffect DEF ProductArrives, StagesOf, MayStart
  <2>3. ASSUME NEW i \in Existing("product"), NEW f \in ProductForms("edit"),
               Receive(r, "product", "edit", i, f, "finding")
        PROVE  Effect(r)
    BY <1>0, <1>1, <2>1, <2>3, ReceiveEffect DEF ProductArrives, StagesOf, MayStart, Existing
  <2>4. ASSUME NEW i \in Existing("product"), Receive(r, "product", "delete", i, NoForm, "finding")
        PROVE  Effect(r)
    BY <1>0, <1>1, <2>4, Blank, ReceiveEffect DEF ProductArrives, StagesOf, MayStart, Existing, Saving
  <2>5. ASSUME NEW i \in Existing("product"),
               Receive(r, "product", "status", i, [NoForm EXCEPT !.active = FALSE], "setting")
        PROVE  Effect(r)
    BY <1>0, <1>1, <2>5, EditForms, ReceiveEffect DEF ProductArrives, StagesOf, MayStart, Existing, Saving
  <2> QED BY <1>1, <2>2, <2>3, <2>4, <2>5 DEF ProductArrives
<1>2. CASE ProductFind(r)
  BY <1>0, <1>2, FindEffect DEF ProductFind, At, StagesOf
<1>3. CASE ProductCheckName(r)
  BY <1>3, CheckNameEffect DEF ProductCheckName, At
<1>4. CASE CheckType(r)
  <2>1. PICK type \in Ids :
          /\ <<"type", type>> \in In(r).refs
          /\ IF type \in Existing("type")
             THEN /\ Goto(r, Storing(r))
                  /\ crowded' = IF \E o \in Requests : Retiring(o, type)
                                THEN crowded \cup {<<"type", type>>} ELSE crowded
             ELSE Done(r) /\ UNCHANGED crowded
    BY <1>4 DEF CheckType
  <2>2. At(r, "product", "referring") /\ Calm BY <1>4 DEF CheckType, Calm
  <2>3. In(r).refs = TypeRef
    BY <2>2 DEF Shape, Sane, FormFits, FormFit, RefsFit, Pending, PathFits, StagesOf, After, At, In, Saving
  <2>4. type = "type" BY <2>1, <2>3 DEF TypeRef
  <2>5. Storing(r) \in {"uploading", "writing"} /\ (Storing(r) = "writing" => In(r).pics = {})
    BY DEF Storing
  <2>6. CASE type \in Existing("type")
    <3>1. <<"type", type>> \in Pairs BY <1>0, <2>4 DEF Pairs, Resources
    <3> QED BY <2>1, <2>2, <2>4, <2>5, <2>6, <3>1, ReferEffect DEF At
  <2>7. CASE type \notin Existing("type")
    BY <2>1, <2>2, <2>7, DoneEffect, OpAt DEF At, Before, Early
  <2> QED BY <2>6, <2>7
<1>5. CASE ProductInsert(r)
  <2> DEFINE row == [NoRow EXCEPT !.res = "product", !.live = TRUE, !.name = In(r).name,
                             !.active = In(r).active, !.cover = {Picture(r, "cover")},
                             !.gallery = Added(r), !.refs = In(r).refs]
  <2>1. At(r, "product", "writing") /\ Op(r) = "create" /\ Commit(r, row, "rereading")
    BY <1>5 DEF ProductInsert
  <2>2. /\ row.res = "product" /\ row.live /\ row.name = In(r).name /\ row.cover = {Picture(r, "cover")}
        /\ row.gallery = Added(r) /\ row.refs = In(r).refs
    BY DEF NoRow
  <2>0. /\ In(r).name \in Names \cup {None} /\ In(r).active \in BOOLEAN /\ In(r).refs \in SUBSET Ref
        /\ {Picture(r, "cover")} \in {{}} \cup {{p} : p \in Pictures} /\ Added(r) \in SUBSET Pictures
    BY <2>1, WriteReady DEF At, Form, Saving
  <2>3. row \in Row
    BY <2>0, Blank DEF Row, Resources
  <2> HIDE DEF row
  <2>4. Draft(r, row)
    BY <2>1, <2>2, <2>3, WriteReady DEF Draft, At, Saving
  <2> QED BY <2>1, <2>4, InsertEffect DEF At, After
<1>6. CASE ProductUpdate(r)
  <2> DEFINE row == [rows[Id(r)] EXCEPT !.name = In(r).name, !.cover = NewCover(r),
                                 !.gallery = ProductGallery(r), !.refs = In(r).refs]
  <2>1. At(r, "product", "writing") /\ Op(r) = "edit" /\ Edit(r, row)
    BY <1>6 DEF ProductUpdate
  <2>2. Id(r) \in Existing("product") => Draft(r, row)
    BY <2>1, WriteReady DEF Draft, Row, At, Form, Saving
  <2> HIDE DEF row
  <2> QED BY <2>1, <2>2, EditEffect DEF At
<1>7. CASE UnlinkGallery(r)
  <2>1. rows[Id(r)].gallery \in SUBSET (Pictures \cup Ref)
    BY <1>7, OpAt DEF UnlinkGallery, At, Row, Early
  <2> QED BY <1>7, <2>1, ClearEffect DEF UnlinkGallery, At
<1>8. CASE ProductDelete(r)
  <2> DEFINE row == [rows[Id(r)] EXCEPT !.gallery = @ \ req[r].saw]
  <2>1. At(r, "product", "writing") /\ Op(r) = "delete" /\ Remove(r, row)
    BY <1>8 DEF ProductDelete
  <2>2. Id(r) \in Existing("product") => Remains(r, [row EXCEPT !.live = FALSE])
    <3>1. ASSUME Id(r) \in Existing("product") PROVE Remains(r, [row EXCEPT !.live = FALSE])
      <4>1. rows[Id(r)] \in Row /\ rows[Id(r)].res = "product"
        BY <3>1 DEF Existing, Shape, RowFit
      <4> DEFINE gone == [row EXCEPT !.live = FALSE]
      <4>2. /\ gone \in Row /\ ~gone.live /\ gone.res = "product" /\ gone.name = rows[Id(r)].name
            /\ gone.cover = rows[Id(r)].cover /\ gone.gallery = rows[Id(r)].gallery \ req[r].saw
            /\ gone.refs = rows[Id(r)].refs
        BY <4>1 DEF Row
      <4> HIDE DEF gone
      <4>3. Remains(r, gone) BY <2>1, <4>2 DEF Remains, At
      <4> QED BY <4>3 DEF gone
    <3> QED BY <3>1
  <2> HIDE DEF row
  <2> QED BY <2>1, <2>2, RemoveEffect DEF At
<1>9. CASE ProductStatus(r)
  BY <1>9, StatusEffect DEF ProductStatus, At
<1> QED BY <1>1, <1>2, <1>3, <1>4, <1>5, <1>6, <1>7, <1>8, <1>9 DEF ProductStep

\* Product types.
LEMMA TypeEffect == ASSUME Shape, NEW r \in Requests, TypeStep(r) PROVE Effect(r)
<1>0. /\ req[r].at \in StagesOf(Op(r)) /\ req[r] \in Request
      /\ r \in Ids /\ "type" \in Resources
  BY OpAt DEF Ids, Resources
<1>1. CASE TypeArrives(r)
  <2>1. ASSUME NEW op \in {"create", "edit"}, NEW f \in TypeForms(op)
        PROVE  f \in Form /\ FormFit("type", op, f)
    <3>1. f \in Form
      BY <2>1 DEF TypeForms, Form, Parts, Kinds
    <3>2. /\ f.name \in Names /\ f.pics \subseteq {"cover"} /\ f.replace = FALSE /\ f.refs = {}
          /\ (op = "create" => f.pics = {"cover"})
      BY <2>1 DEF TypeForms
    <3> QED BY <3>1, <3>2
        DEF FormFit, RefsFit, Resources, Nameless, Galleried, None
  <2>2. CASE \E f \in TypeForms("create") : Receive(r, "type", "create", r, f, "checking")
    <3>1. PICK f \in TypeForms("create") : Receive(r, "type", "create", r, f, "checking")
      BY <2>2
    <3> QED BY <1>0, <1>1, <2>1, <3>1, ReceiveEffect DEF TypeArrives, StagesOf, MayStart
  <2>3. ASSUME NEW i \in Existing("type"), NEW f \in TypeForms("edit"),
               Receive(r, "type", "edit", i, f, "finding")
        PROVE  Effect(r)
    BY <1>0, <1>1, <2>1, <2>3, ReceiveEffect DEF TypeArrives, StagesOf, MayStart, Existing
  <2>4. ASSUME NEW i \in Existing("type"), Receive(r, "type", "delete", i, NoForm, "guarding")
        PROVE  Effect(r)
    BY <1>0, <1>1, <2>4, Blank, ReceiveEffect DEF TypeArrives, StagesOf, MayStart, Existing, Saving
  <2>5. ASSUME NEW i \in Existing("type"),
               Receive(r, "type", "status", i, [NoForm EXCEPT !.active = FALSE], "setting")
        PROVE  Effect(r)
    BY <1>0, <1>1, <2>5, EditForms, ReceiveEffect DEF TypeArrives, StagesOf, MayStart, Existing, Saving
  <2> QED BY <1>1, <2>2, <2>3, <2>4, <2>5 DEF TypeArrives
<1>2. CASE TypeFind(r)
  BY <1>0, <1>2, FindEffect DEF TypeFind, At, StagesOf
<1>3. CASE TypeCheckName(r)
  <2>1. Storing(r) \in {"uploading", "writing"} /\ (Storing(r) = "writing" => In(r).pics = {})
    BY DEF Storing
  <2> QED BY <1>3, <2>1, CheckNameEffect DEF TypeCheckName, At
<1>4. CASE GuardType(r)
  <2>1. At(r, "type", "guarding") /\ Calm BY <1>4 DEF GuardType, Calm
  <2>2. CASE InUse(Id(r))
    BY <1>4, <2>1, <2>2, DoneEffect, OpAt DEF GuardType, At, Before, Early
  <2>3. CASE ~InUse(Id(r))
    <3>1. <<"type", Id(r)>> \in Pairs BY <1>0, <2>1, OpAt DEF At, Pairs, Before, Early
    <3> QED BY <1>4, <2>1, <2>3, <3>1, GuardEffect DEF GuardType, At
  <2> QED BY <2>2, <2>3
<1>5. CASE TypeInsert(r)
  <2> DEFINE row == [NoRow EXCEPT !.res = "type", !.live = TRUE, !.name = In(r).name,
                             !.active = In(r).active, !.cover = {Picture(r, "cover")}]
  <2>1. At(r, "type", "writing") /\ Op(r) = "create" /\ Commit(r, row, "dropping")
    BY <1>5 DEF TypeInsert
  <2>2. /\ row.res = "type" /\ row.live /\ row.name = In(r).name
        /\ row.cover = {Picture(r, "cover")} /\ row.gallery = {} /\ row.refs = {}
    BY DEF NoRow
  <2>3. /\ In(r).name \in Names \cup {None} /\ In(r).active \in BOOLEAN
        /\ In(r).refs \in SUBSET Ref /\ In(r).kind \in Kinds
        /\ {Picture(r, "cover")} \in {{}} \cup {{p} : p \in Pictures} /\ Added(r) \in SUBSET Pictures
    BY <2>1, WriteReady DEF At, Form, Saving
  <2>4. row \in Row
    BY <2>3, Blank DEF Row, Resources
  <2> HIDE DEF row
  <2>5. Draft(r, row)
    BY <2>1, <2>2, <2>4, WriteReady DEF Draft, At, Saving, NoRow, Galleried
  <2> QED BY <2>1, <2>5, InsertEffect DEF At, After
<1>6. CASE TypeUpdate(r)
  <2> DEFINE row == [rows[Id(r)] EXCEPT !.name = In(r).name, !.cover = NewCover(r)]
  <2>1. At(r, "type", "writing") /\ Op(r) = "edit" /\ Edit(r, row)
    BY <1>6 DEF TypeUpdate
  <2>2. Id(r) \in Existing("type") => Draft(r, row)
    BY <2>1, WriteReady DEF Draft, Row, At, Form, Saving, Galleried
  <2> HIDE DEF row
  <2> QED BY <2>1, <2>2, EditEffect DEF At
<1>7. CASE TypeDelete(r)
  <2> DEFINE row == rows[Id(r)]
             gone == [row EXCEPT !.live = FALSE]
  <2>1. At(r, "type", "writing") /\ Op(r) = "delete" /\ Remove(r, row)
    BY <1>7 DEF TypeDelete
  <2>2. ASSUME Id(r) \in Existing("type") PROVE Remains(r, gone)
    <3>1. rows[Id(r)] \in Row /\ rows[Id(r)].res = "type"
      BY <2>2 DEF Existing, Shape, RowFit
    <3>2. /\ gone \in Row /\ ~gone.live /\ gone.res = "type" /\ gone.name = rows[Id(r)].name
          /\ gone.cover = rows[Id(r)].cover /\ gone.gallery = rows[Id(r)].gallery
          /\ gone.refs = rows[Id(r)].refs
      BY <3>1 DEF Row
    <3> HIDE DEF gone
    <3> QED BY <2>1, <3>2 DEF Remains, At
  <2> HIDE DEF row
  <2> QED BY <2>1, <2>2, RemoveEffect DEF At
<1>8. CASE TypeStatus(r)
  BY <1>8, StatusEffect DEF TypeStatus, At
<1> QED BY <1>1, <1>2, <1>3, <1>4, <1>5, <1>6, <1>7, <1>8 DEF TypeStep

\* Banners.
LEMMA BannerEffect == ASSUME Shape, NEW r \in Requests, BannerStep(r) PROVE Effect(r)
<1>0. /\ req[r].at \in StagesOf(Op(r)) /\ req[r] \in Request
      /\ r \in Ids /\ "banner" \in Resources
  BY OpAt DEF Ids, Resources
<1>1. CASE BannerArrives(r)
  <2>1. ASSUME NEW op \in {"create", "edit"}, NEW f \in BannerForms(op)
        PROVE  f \in Form /\ FormFit("banner", op, f)
    <3>1. f \in Form
      BY <2>1 DEF BannerForms, Form, Parts, Kinds
    <3>2. /\ f.name \in Names /\ f.pics \subseteq {"cover"} /\ f.replace = FALSE /\ f.refs = {}
          /\ (op = "create" => f.pics = {"cover"})
      BY <2>1 DEF BannerForms
    <3> QED BY <3>1, <3>2
        DEF FormFit, RefsFit, Resources, Nameless, Galleried, None
  <2>2. CASE \E f \in BannerForms("create") : Receive(r, "banner", "create", r, f, "checking")
    <3>1. PICK f \in BannerForms("create") : Receive(r, "banner", "create", r, f, "checking")
      BY <2>2
    <3> QED BY <1>0, <1>1, <2>1, <3>1, ReceiveEffect DEF BannerArrives, StagesOf, MayStart
  <2>3. ASSUME NEW i \in Existing("banner"), NEW f \in BannerForms("edit"),
               Receive(r, "banner", "edit", i, f, "finding")
        PROVE  Effect(r)
    BY <1>0, <1>1, <2>1, <2>3, ReceiveEffect DEF BannerArrives, StagesOf, MayStart, Existing
  <2>4. ASSUME NEW i \in Existing("banner"), Receive(r, "banner", "delete", i, NoForm, "finding")
        PROVE  Effect(r)
    BY <1>0, <1>1, <2>4, Blank, ReceiveEffect DEF BannerArrives, StagesOf, MayStart, Existing, Saving
  <2>5. ASSUME NEW i \in Existing("banner"),
               Receive(r, "banner", "status", i, [NoForm EXCEPT !.active = FALSE], "setting")
        PROVE  Effect(r)
    BY <1>0, <1>1, <2>5, EditForms, ReceiveEffect DEF BannerArrives, StagesOf, MayStart, Existing, Saving
  <2> QED BY <1>1, <2>2, <2>3, <2>4, <2>5 DEF BannerArrives
<1>2. CASE BannerFind(r)
  BY <1>0, <1>2, FindEffect DEF BannerFind, At, StagesOf
<1>3. CASE BannerCheckName(r)
  <2>1. Storing(r) \in {"uploading", "writing"} /\ (Storing(r) = "writing" => In(r).pics = {})
    BY DEF Storing
  <2> QED BY <1>3, <2>1, CheckNameEffect DEF BannerCheckName, At
<1>4. CASE BannerInsert(r)
  <2> DEFINE row == [NoRow EXCEPT !.res = "banner", !.live = TRUE, !.name = In(r).name,
                             !.active = In(r).active, !.cover = {Picture(r, "cover")}]
  <2>1. At(r, "banner", "writing") /\ Op(r) = "create" /\ Commit(r, row, "dropping")
    BY <1>4 DEF BannerInsert
  <2>2. /\ row.res = "banner" /\ row.live /\ row.name = In(r).name
        /\ row.cover = {Picture(r, "cover")} /\ row.gallery = {} /\ row.refs = {}
    BY DEF NoRow
  <2>3. /\ In(r).name \in Names \cup {None} /\ In(r).active \in BOOLEAN
        /\ In(r).refs \in SUBSET Ref /\ In(r).kind \in Kinds
        /\ {Picture(r, "cover")} \in {{}} \cup {{p} : p \in Pictures} /\ Added(r) \in SUBSET Pictures
    BY <2>1, WriteReady DEF At, Form, Saving
  <2>4. row \in Row
    BY <2>3, Blank DEF Row, Resources
  <2> HIDE DEF row
  <2>5. Draft(r, row)
    BY <2>1, <2>2, <2>4, WriteReady DEF Draft, At, Saving, NoRow, Galleried
  <2> QED BY <2>1, <2>5, InsertEffect DEF At, After
<1>5. CASE BannerUpdate(r)
  <2> DEFINE row == [rows[Id(r)] EXCEPT !.name = In(r).name, !.cover = NewCover(r)]
  <2>1. At(r, "banner", "writing") /\ Op(r) = "edit" /\ Edit(r, row)
    BY <1>5 DEF BannerUpdate
  <2>2. Id(r) \in Existing("banner") => Draft(r, row)
    BY <2>1, WriteReady DEF Draft, Row, At, Form, Saving, Galleried
  <2> HIDE DEF row
  <2> QED BY <2>1, <2>2, EditEffect DEF At
<1>6. CASE BannerDelete(r)
  <2> DEFINE row == rows[Id(r)]
             gone == [row EXCEPT !.live = FALSE]
  <2>1. At(r, "banner", "writing") /\ Op(r) = "delete" /\ Remove(r, row)
    BY <1>6 DEF BannerDelete
  <2>2. ASSUME Id(r) \in Existing("banner") PROVE Remains(r, gone)
    <3>1. rows[Id(r)] \in Row /\ rows[Id(r)].res = "banner"
      BY <2>2 DEF Existing, Shape, RowFit
    <3>2. /\ gone \in Row /\ ~gone.live /\ gone.res = "banner" /\ gone.name = rows[Id(r)].name
          /\ gone.cover = rows[Id(r)].cover /\ gone.gallery = rows[Id(r)].gallery
          /\ gone.refs = rows[Id(r)].refs
      BY <3>1 DEF Row
    <3> HIDE DEF gone
    <3> QED BY <2>1, <3>2 DEF Remains, At
  <2> HIDE DEF row
  <2> QED BY <2>1, <2>2, RemoveEffect DEF At
<1>7. CASE BannerStatus(r)
  BY <1>7, StatusEffect DEF BannerStatus, At
<1> QED BY <1>1, <1>2, <1>3, <1>4, <1>5, <1>6, <1>7 DEF BannerStep

\* Events.
LEMMA EventEffect == ASSUME Shape, NEW r \in Requests, EventStep(r) PROVE Effect(r)
<1>0. /\ req[r].at \in StagesOf(Op(r)) /\ req[r] \in Request
      /\ r \in Ids /\ "event" \in Resources
  BY OpAt DEF Ids, Resources
<1>1. CASE EventArrives(r)
  <2>1. ASSUME NEW op \in {"create", "edit"}, NEW f \in EventForms(op)
        PROVE  f \in Form /\ FormFit("event", op, f)
    <3>1. Children(ChildLists) \subseteq Ref
      BY DEF Children, ChildLists, Ref, Lists, Ids, Resources
    <3>2. f \in Form
      BY <2>1, <3>1 DEF EventForms, Form, Parts, Kinds, ChildLists, Lists
    <3>3. \A ref \in f.refs : ref[1] # "staff" /\ ref[1] # "line"
      BY <2>1 DEF EventForms, Children, ChildLists
    <3>4. /\ f.name \in Names /\ f.pics \subseteq {"cover"} /\ f.replace = FALSE
          /\ f.kind \in EventTypes /\ f.refs = Children(f.lists)
          /\ (op = "create" => f.pics = {"cover"})
      BY <2>1 DEF EventForms
    <3> QED BY <3>2, <3>3, <3>4
        DEF FormFit, RefsFit, Resources, Nameless, Galleried, None
  <2>2. CASE \E f \in EventForms("create") : Receive(r, "event", "create", r, f, "checking")
    <3>1. PICK f \in EventForms("create") : Receive(r, "event", "create", r, f, "checking")
      BY <2>2
    <3> QED BY <1>0, <1>1, <2>1, <3>1, ReceiveEffect DEF EventArrives, StagesOf, MayStart
  <2>3. ASSUME NEW i \in Existing("event"), NEW f \in EventForms("edit"),
               Receive(r, "event", "edit", i, f, "finding")
        PROVE  Effect(r)
    BY <1>0, <1>1, <2>1, <2>3, ReceiveEffect DEF EventArrives, StagesOf, MayStart, Existing
  <2>4. ASSUME NEW i \in Existing("event"), Receive(r, "event", "delete", i, NoForm, "finding")
        PROVE  Effect(r)
    BY <1>0, <1>1, <2>4, Blank, ReceiveEffect DEF EventArrives, StagesOf, MayStart, Existing, Saving
  <2>5. ASSUME NEW i \in Existing("event"), Receive(r, "event", "status", i, NoForm, "setting")
        PROVE  Effect(r)
    BY <1>0, <1>1, <2>5, Blank, ReceiveEffect DEF EventArrives, StagesOf, MayStart, Existing, Saving
  <2> QED BY <1>1, <2>2, <2>3, <2>4, <2>5 DEF EventArrives
<1>2. CASE EventFind(r)
  BY <1>0, <1>2, FindEffect DEF EventFind, At, StagesOf
<1>3. CASE EventCheck(r)
  <2>1. CASE Valid(In(r))
    BY <1>3, <2>1, CheckNameEffect DEF EventCheck, At
  <2>2. CASE ~Valid(In(r))
    BY <1>3, <2>2, DoneEffect, OpAt DEF EventCheck, At, Before, Early, Calm, history, overlaps
  <2> QED BY <2>1, <2>2
<1>4. CASE ResolveChildren(r)
  <2>1. At(r, "event", "referring") /\ Calm /\ crowded' = crowded
    BY <1>4 DEF ResolveChildren, Calm, history, overlaps
  <2>2. Storing(r) \in {"uploading", "writing"} /\ (Storing(r) = "writing" => In(r).pics = {})
    BY DEF Storing
  <2>3. CASE Done(r) BY <2>1, <2>3, DoneEffect, OpAt DEF At, Before, Early
  <2>4. CASE Goto(r, Storing(r)) BY <2>1, <2>2, <2>4, ReferEffect DEF At
  <2> QED BY <1>4, <2>3, <2>4 DEF ResolveChildren
<1>5. CASE EventInsert(r)
  <2> DEFINE row == [NoRow EXCEPT !.res = "event", !.live = TRUE, !.name = In(r).name,
                             !.active = In(r).active, !.cover = {Picture(r, "cover")},
                             !.refs = In(r).refs, !.kind = In(r).kind]
  <2>1. At(r, "event", "writing") /\ Op(r) = "create" /\ Commit(r, row, "rereading")
    BY <1>5 DEF EventInsert
  <2>2. /\ row.res = "event" /\ row.live /\ row.name = In(r).name
        /\ row.cover = {Picture(r, "cover")} 
        /\ row.gallery = {} /\ row.refs = In(r).refs /\ row.kind = In(r).kind
    BY DEF NoRow
  <2>3. /\ In(r).name \in Names \cup {None} /\ In(r).active \in BOOLEAN
        /\ In(r).refs \in SUBSET Ref /\ In(r).kind \in Kinds
        /\ {Picture(r, "cover")} \in {{}} \cup {{p} : p \in Pictures} /\ Added(r) \in SUBSET Pictures
    BY <2>1, WriteReady DEF At, Form, Saving
  <2>4. row \in Row
    BY <2>3, Blank DEF Row, Resources
  <2> HIDE DEF row
  <2>5. Draft(r, row)
    BY <2>1, <2>2, <2>4, WriteReady DEF Draft, At, Saving, NoRow, Galleried
  <2> QED BY <2>1, <2>5, InsertEffect DEF At, After
<1>6. CASE EventUpdate(r)
  <2> DEFINE row == [rows[Id(r)] EXCEPT !.name = In(r).name, !.cover = NewCover(r),
                                 !.refs = NewChildren(r), !.kind = In(r).kind]
  <2>1. At(r, "event", "writing") /\ Op(r) = "edit" /\ Edit(r, row)
    BY <1>6 DEF EventUpdate
  <2>2. Id(r) \in Existing("event") => Draft(r, row)
    BY <2>1, WriteReady DEF Draft, Row, At, Form, Saving, Galleried, NewChildren
  <2> HIDE DEF row
  <2> QED BY <2>1, <2>2, EditEffect DEF At
<1>7. CASE ClearChildren(r)
  <2>1. rows[Id(r)].refs \in SUBSET (Pictures \cup Ref)
    BY <1>7, OpAt DEF ClearChildren, At, Row, Early
  <2> QED BY <1>7, <2>1, ClearEffect DEF ClearChildren, At
<1>8. CASE EventDelete(r)
  <2> DEFINE row == [rows[Id(r)] EXCEPT !.refs = @ \ req[r].saw]
             gone == [row EXCEPT !.live = FALSE]
  <2>1. At(r, "event", "writing") /\ Op(r) = "delete" /\ Remove(r, row)
    BY <1>8 DEF EventDelete
  <2>2. ASSUME Id(r) \in Existing("event") PROVE Remains(r, gone)
    <3>1. rows[Id(r)] \in Row /\ rows[Id(r)].res = "event"
      BY <2>2 DEF Existing, Shape, RowFit
    <3>2. /\ gone \in Row /\ ~gone.live /\ gone.res = "event" /\ gone.name = rows[Id(r)].name
          /\ gone.cover = rows[Id(r)].cover /\ gone.gallery = rows[Id(r)].gallery
          /\ gone.refs = rows[Id(r)].refs \ req[r].saw
      BY <3>1 DEF Row
    <3> HIDE DEF gone
    <3> QED BY <2>1, <3>2 DEF Remains, At
  <2> HIDE DEF row
  <2> QED BY <2>1, <2>2, RemoveEffect DEF At
<1>9. CASE EventStatus(r)
  BY <1>9, StatusEffect DEF EventStatus, At
<1> QED BY <1>1, <1>2, <1>3, <1>4, <1>5, <1>6, <1>7, <1>8, <1>9 DEF EventStep

\* Shops.
LEMMA ShopEffect == ASSUME Shape, NEW r \in Requests, ShopStep(r) PROVE Effect(r)
<1>0. /\ req[r].at \in StagesOf(Op(r)) /\ req[r] \in Request
      /\ r \in Ids /\ "shop" \in Resources
  BY OpAt DEF Ids, Resources
<1>1. CASE ShopArrives(r)
  <2>1. ASSUME NEW op \in {"create", "edit"}, NEW f \in ShopForms(op)
        PROVE  f \in Form /\ FormFit("shop", op, f)
    <3>1. ShopRefs.staff = <<"staff", "cashier">> /\ ShopRefs.line = <<"line", "product">>
      BY DEF ShopRefs
    <3>2. <<"staff", "cashier">> \in Ref /\ <<"line", "product">> \in Ref
      BY DEF Ref, Lists, Ids, Resources
    <3>3. /\ Listed({"staff"}) \subseteq {<<"staff", "cashier">>}
          /\ Listed({"staff", "line"}) \subseteq {<<"staff", "cashier">>, <<"line", "product">>}
      BY <3>1 DEF Listed
    <3>4. f.lists \in {{"staff"}, {"staff", "line"}} /\ f.name = None /\ f \in Form
          /\ f.refs \subseteq {<<"staff", "cashier">>, <<"line", "product">>}
          /\ (f.lists = {"staff"} => f.refs \subseteq {<<"staff", "cashier">>})
          /\ (op = "create" => "cover" \in f.pics)
      <4>1. CASE op = "create"
        <5>1. f = [NoForm EXCEPT !.lists = {"staff", "line"}, !.pics = Parts,
                                 !.refs = Listed({"staff", "line"})]
          BY <2>1, <4>1 DEF ShopForms
        <5>2. Listed({"staff", "line"}) \subseteq Ref BY <3>2, <3>3
        <5> QED BY <3>3, <5>1, <5>2, Blank DEF Form, NoForm, Parts, Lists
      <4>2. CASE op = "edit"
        <5>1. /\ f \in [name: {None}, pics: {Parts, {"gallery"}}, replace: BOOLEAN,
                        lists: {{"staff"}, {"staff", "line"}}, refs: {{}, Listed({"staff"})},
                        kind: {None}, active: {TRUE}]
          BY <2>1, <4>2 DEF ShopForms
        <5>2. Listed({"staff"}) \subseteq Ref BY <3>2, <3>3
        <5>3. f \in Form
          BY <5>1, <5>2 DEF Form, Parts, Kinds, Lists
        <5> QED BY <3>3, <4>2, <5>1, <5>3
      <4> QED BY <2>1, <4>1, <4>2
    <3>5. \A ref \in f.refs : ref[1] \in f.lists
      BY <3>4
    <3> QED BY <2>1, <3>4, <3>5
        DEF FormFit, RefsFit, Resources, Nameless, Galleried
  <2>2. CASE \E f \in ShopForms("create") : Receive(r, "shop", "create", r, f, "referring")
    <3>1. PICK f \in ShopForms("create") : Receive(r, "shop", "create", r, f, "referring")
      BY <2>2
    <3> QED BY <1>0, <1>1, <2>1, <3>1, ReceiveEffect DEF ShopArrives, StagesOf, MayStart
  <2>3. ASSUME NEW i \in Existing("shop"), NEW f \in ShopForms("edit"),
               Receive(r, "shop", "edit", i, f, "finding")
        PROVE  Effect(r)
    BY <1>0, <1>1, <2>1, <2>3, ReceiveEffect DEF ShopArrives, StagesOf, MayStart, Existing
  <2>4. ASSUME NEW i \in Existing("shop"), Receive(r, "shop", "delete", i, NoForm, "guarding")
        PROVE  Effect(r)
    BY <1>0, <1>1, <2>4, Blank, ReceiveEffect DEF ShopArrives, StagesOf, MayStart, Existing, Saving
  <2>5. ASSUME NEW i \in Existing("shop"),
               Receive(r, "shop", "status", i, [NoForm EXCEPT !.active = FALSE], "setting")
        PROVE  Effect(r)
    BY <1>0, <1>1, <2>5, EditForms, ReceiveEffect DEF ShopArrives, StagesOf, MayStart, Existing, Saving
  <2> QED BY <1>1, <2>2, <2>3, <2>4, <2>5 DEF ShopArrives
<1>2. CASE ShopFind(r)
  BY <1>0, <1>2, FindEffect DEF ShopFind, At, StagesOf
<1>3. CASE GuardShop(r)
  <2>1. At(r, "shop", "guarding") /\ Calm /\ crowded' = crowded
    BY <1>3 DEF GuardShop, Calm, history, overlaps
  <2>2. CASE HasOrders(Id(r))
    BY <1>3, <2>1, <2>2, DoneEffect, OpAt DEF GuardShop, At, Before, Early
  <2>3. CASE ~HasOrders(Id(r))
    BY <1>3, <2>1, <2>3, GuardEffect DEF GuardShop, At, HasOrders
  <2> QED BY <2>2, <2>3
<1>4. CASE Resolve(r)
  <2>1. At(r, "shop", "referring") /\ Calm /\ crowded' = crowded
    BY <1>4 DEF Resolve, Calm, history, overlaps
  <2>2. Storing(r) \in {"uploading", "writing"} /\ (Storing(r) = "writing" => In(r).pics = {})
    BY DEF Storing
  <2>3. CASE Done(r) BY <2>1, <2>3, DoneEffect, OpAt DEF At, Before, Early
  <2>4. CASE Goto(r, Storing(r)) BY <2>1, <2>2, <2>4, ReferEffect DEF At
  <2> QED BY <1>4, <2>3, <2>4 DEF Resolve
<1>5. CASE ShopInsert(r)
  <2> DEFINE base == [NoRow EXCEPT !.res = "shop", !.live = TRUE,
                                   !.active = In(r).active, !.cover = {Picture(r, "cover")}]
             row == WriteAssignments(r, base)
  <2>1. At(r, "shop", "writing") /\ Op(r) = "create" /\ Commit(r, row, "rereading")
    BY <1>5 DEF ShopInsert
  <2>2. /\ In(r).active \in BOOLEAN /\ In(r).refs \in SUBSET Ref
        /\ {Picture(r, "cover")} \in {{}} \cup {{p} : p \in Pictures} /\ Added(r) \in SUBSET Pictures
    BY <2>1, WriteReady DEF At, Form, Saving
  <2>3. /\ base \in Row /\ base.res = "shop" /\ base.live /\ base.name = None
        /\ base.cover = {Picture(r, "cover")} /\ base.gallery = {} /\ base.refs = {}
    BY <2>2, Blank DEF Row, NoRow, Resources
  <2> HIDE DEF base
  <2>4. /\ row \in Row /\ row.res = "shop" /\ row.live /\ row.name = None
        /\ row.cover = {Picture(r, "cover")} /\ row.gallery = Added(r) /\ row.refs = In(r).refs
    BY <2>2, <2>3 DEF WriteAssignments, Row
  <2> HIDE DEF row
  <2>5. NewRefs(r) = In(r).refs
    <3>1. rows[Id(r)] = NoRow BY <2>1, WriteReady DEF At, Saving
    <3>2. rows[Id(r)].refs = {} BY <3>1 DEF NoRow
    <3> QED BY <3>2 DEF NewRefs
  <2>6. Draft(r, row)
    BY <2>1, <2>4, <2>5, WriteReady DEF Draft, At, Saving
  <2> QED BY <2>1, <2>6, InsertEffect DEF At, After
<1>6. CASE ShopUpdate(r)
  <2> DEFINE was == rows[Id(r)]
             base == [was EXCEPT !.cover = NewCover(r)]
             row == WriteAssignments(r, base)
  <2>1. At(r, "shop", "writing") /\ Op(r) = "edit" /\ Edit(r, row)
    BY <1>6 DEF ShopUpdate
  <2>2. ASSUME Id(r) \in Existing("shop") PROVE Draft(r, row)
    <3>1. /\ was \in Row /\ was.res = "shop" /\ was.live /\ was.name = In(r).name
          /\ NewCover(r) \in {{}} \cup {{p} : p \in Pictures}
          /\ ProductGallery(r) \in SUBSET Pictures /\ NewRefs(r) \in SUBSET Ref
      BY <2>1, <2>2, WriteReady DEF At, Saving
    <3> HIDE DEF was
    <3>2. /\ base \in Row /\ base.res = "shop" /\ base.live /\ base.name = In(r).name
          /\ base.cover = NewCover(r) /\ base.gallery = was.gallery /\ base.refs = was.refs
      BY <3>1 DEF Row
    <3> HIDE DEF base
    <3>3. /\ Added(r) \cup (IF In(r).replace THEN {} ELSE base.gallery) = ProductGallery(r)
          /\ In(r).refs \cup {ref \in base.refs : ref[1] \notin In(r).lists} = NewRefs(r)
      BY <2>1, <3>2 DEF ProductGallery, NewRefs, At, was
    <3>4. /\ row \in Row /\ row.res = "shop" /\ row.live /\ row.name = In(r).name
          /\ row.cover = NewCover(r) /\ row.gallery = ProductGallery(r) /\ row.refs = NewRefs(r)
      BY <3>1, <3>2, <3>3 DEF WriteAssignments, Row
    <3> HIDE DEF row
    <3> QED BY <2>1, <3>4 DEF Draft, At
  <2> HIDE DEF row
  <2> QED BY <2>1, <2>2, EditEffect DEF At
<1>7. CASE ShopDelete(r)
  <2> DEFINE row == [rows[Id(r)] EXCEPT !.gallery = {}, !.refs = {}]
             gone == [row EXCEPT !.live = FALSE]
  <2>1. At(r, "shop", "writing") /\ Op(r) = "delete" /\ Remove(r, row)
    BY <1>7 DEF ShopDelete
  <2>2. ASSUME Id(r) \in Existing("shop") PROVE Remains(r, gone)
    <3>1. rows[Id(r)] \in Row /\ rows[Id(r)].res = "shop"
      BY <2>2 DEF Existing, Shape, RowFit
    <3>2. /\ gone \in Row /\ ~gone.live /\ gone.res = "shop" /\ gone.name = rows[Id(r)].name
          /\ gone.cover = rows[Id(r)].cover /\ gone.gallery = {}
          /\ gone.refs = {}
      BY <3>1 DEF Row
    <3> HIDE DEF gone
    <3> QED BY <2>1, <3>2 DEF Remains, At
  <2> HIDE DEF row
  <2> QED BY <2>1, <2>2, RemoveEffect DEF At
<1>8. CASE ShopStatus(r)
  BY <1>8, StatusEffect DEF ShopStatus, At
<1> QED BY <1>1, <1>2, <1>3, <1>4, <1>5, <1>6, <1>7, <1>8 DEF ShopStep

\* Cashiers.
LEMMA CashierEffect == ASSUME Shape, NEW r \in Requests, CashierStep(r) PROVE Effect(r)
<1>0. /\ req[r].at \in StagesOf(Op(r)) /\ req[r] \in Request
      /\ r \in Ids /\ "cashier" \in Resources
  BY OpAt DEF Ids, Resources
<1>1. CASE CashierArrives(r)
  <2>1. ASSUME NEW op \in {"create", "edit"}, NEW f \in CashierForms(op)
        PROVE  f \in Form /\ FormFit("cashier", op, f)
    <3>1. f \in Form
      BY <2>1 DEF CashierForms, Form, Parts, Kinds
    <3>2. /\ f.name \in Names /\ f.pics \subseteq {"cover"} /\ f.replace = FALSE /\ f.refs = {}
          /\ (op = "create" => f.pics = {"cover"})
      BY <2>1 DEF CashierForms
    <3> QED BY <3>1, <3>2
        DEF FormFit, RefsFit, Resources, Nameless, Galleried, None
  <2>2. CASE \E f \in CashierForms("create") : Receive(r, "cashier", "create", r, f, "checking")
    <3>1. PICK f \in CashierForms("create") : Receive(r, "cashier", "create", r, f, "checking")
      BY <2>2
    <3> QED BY <1>0, <1>1, <2>1, <3>1, ReceiveEffect DEF CashierArrives, StagesOf, MayStart
  <2>3. ASSUME NEW i \in Existing("cashier"), NEW f \in CashierForms("edit"),
               Receive(r, "cashier", "edit", i, f, "finding")
        PROVE  Effect(r)
    BY <1>0, <1>1, <2>1, <2>3, ReceiveEffect DEF CashierArrives, StagesOf, MayStart, Existing
  <2>4. ASSUME NEW i \in Existing("cashier"), Receive(r, "cashier", "delete", i, NoForm, "finding")
        PROVE  Effect(r)
    BY <1>0, <1>1, <2>4, Blank, ReceiveEffect DEF CashierArrives, StagesOf, MayStart, Existing, Saving
  <2> QED BY <1>1, <2>2, <2>3, <2>4 DEF CashierArrives
<1>2. CASE CashierFind(r)
  BY <1>0, <1>2, FindEffect DEF CashierFind, At, StagesOf
<1>3. CASE AssertAvailable(r)
  <2>1. Storing(r) \in {"uploading", "writing"} /\ (Storing(r) = "writing" => In(r).pics = {})
    BY DEF Storing
  <2> QED BY <1>3, <2>1, CheckNameEffect DEF AssertAvailable, At
<1>4. CASE CashierInsert(r) /\ Indexed(r)
  <2> DEFINE row == [NoRow EXCEPT !.res = "cashier", !.live = TRUE, !.name = In(r).name,
                             !.active = In(r).active, !.cover = {Picture(r, "cover")}]
  <2>1. At(r, "cashier", "writing") /\ Op(r) = "create" /\ Commit(r, row, "rereading")
    BY <1>4 DEF CashierInsert
  <2>2. /\ row.res = "cashier" /\ row.live /\ row.name = In(r).name
        /\ row.cover = {Picture(r, "cover")} /\ row.gallery = {} /\ row.refs = {}
    BY DEF NoRow
  <2>3. /\ In(r).name \in Names \cup {None} /\ In(r).active \in BOOLEAN
        /\ In(r).refs \in SUBSET Ref /\ In(r).kind \in Kinds
        /\ {Picture(r, "cover")} \in {{}} \cup {{p} : p \in Pictures} /\ Added(r) \in SUBSET Pictures
    BY <2>1, WriteReady DEF At, Form, Saving
  <2>4. row \in Row
    BY <2>3, Blank DEF Row, Resources
  <2> HIDE DEF row
  <2>5. Draft(r, row)
    BY <2>1, <2>2, <2>4, WriteReady DEF Draft, At, Saving, NoRow, Galleried
  <2> QED BY <1>4, <2>1, <2>5, InsertEffect DEF At, After
<1>5. CASE CashierUpdate(r) /\ Indexed(r)
  <2> DEFINE row == [rows[Id(r)] EXCEPT !.name = In(r).name, !.cover = NewCover(r),
                                      !.active = In(r).active]
  <2>1. At(r, "cashier", "writing") /\ Op(r) = "edit" /\ Edit(r, row)
    BY <1>5 DEF CashierUpdate
  <2>2. Id(r) \in Existing("cashier") => Draft(r, row)
    BY <2>1, WriteReady DEF Draft, Row, At, Form, Saving, Galleried
  <2> HIDE DEF row
  <2> QED BY <1>5, <2>1, <2>2, EditEffect DEF At
<1>6. CASE (CashierInsert(r) \/ CashierUpdate(r)) /\ ~Indexed(r)
  BY <1>6, WriteFails DEF CashierInsert, CashierUpdate, At
<1>7. CASE CashierDelete(r)
  <2> DEFINE row == rows[Id(r)]
             gone == [row EXCEPT !.live = FALSE]
  <2>1. At(r, "cashier", "writing") /\ Op(r) = "delete" /\ Remove(r, row)
    BY <1>7 DEF CashierDelete
  <2>2. ASSUME Id(r) \in Existing("cashier") PROVE Remains(r, gone)
    <3>1. rows[Id(r)] \in Row /\ rows[Id(r)].res = "cashier"
      BY <2>2 DEF Existing, Shape, RowFit
    <3>2. /\ gone \in Row /\ ~gone.live /\ gone.res = "cashier" /\ gone.name = rows[Id(r)].name
          /\ gone.cover = rows[Id(r)].cover /\ gone.gallery = rows[Id(r)].gallery
          /\ gone.refs = rows[Id(r)].refs
      BY <3>1 DEF Row
    <3> HIDE DEF gone
    <3> QED BY <2>1, <3>2 DEF Remains, At
  <2> HIDE DEF row
  <2> QED BY <2>1, <2>2, RemoveEffect DEF At
<1> QED BY <1>1, <1>2, <1>3, <1>4, <1>5, <1>6, <1>7 DEF CashierStep

\* Vouchers.
LEMMA VoucherEffect == ASSUME Shape, NEW r \in Requests, VoucherStep(r) PROVE Effect(r)
<1>0. /\ req[r].at \in StagesOf(Op(r)) /\ req[r] \in Request
      /\ r \in Ids /\ "voucher" \in Resources
  BY OpAt DEF Ids, Resources
<1>1. CASE VoucherArrives(r)
  <2>1. ASSUME NEW op \in {"create", "edit"}, NEW f \in VoucherForms
        PROVE  f \in Form /\ FormFit("voucher", op, f)
    <3>1. Columns(DiscountTypes) \subseteq Ref
      BY DEF Columns, DiscountTypes, Ref, Lists, Ids, Resources
    <3>2. f \in Form
      BY <2>1, <3>1 DEF VoucherForms, Form, Parts, Kinds, Lists
    <3>3. \A ref \in f.refs : ref[1] # "staff" /\ ref[1] # "line"
      BY <2>1 DEF VoucherForms, Columns, DiscountTypes
    <3> QED BY <2>1, <3>2, <3>3
        DEF VoucherForms, FormFit, RefsFit, Resources, Nameless, Galleried, None
  <2>2. CASE \E f \in VoucherForms : Receive(r, "voucher", "create", r, f, "checking")
    <3>1. PICK f \in VoucherForms : Receive(r, "voucher", "create", r, f, "checking")
      BY <2>2
    <3> QED BY <1>0, <1>1, <2>1, <3>1, ReceiveEffect DEF VoucherArrives, StagesOf, MayStart
  <2>3. ASSUME NEW i \in Existing("voucher"), NEW f \in VoucherForms,
               Receive(r, "voucher", "edit", i, f, "finding")
        PROVE  Effect(r)
    BY <1>0, <1>1, <2>1, <2>3, ReceiveEffect DEF VoucherArrives, StagesOf, MayStart, Existing
  <2>4. ASSUME NEW i \in Existing("voucher"), Receive(r, "voucher", "delete", i, NoForm, "guarding")
        PROVE  Effect(r)
    BY <1>0, <1>1, <2>4, Blank, ReceiveEffect DEF VoucherArrives, StagesOf, MayStart, Existing, Saving
  <2>5. ASSUME NEW i \in Existing("voucher"), NEW a \in BOOLEAN,
               Receive(r, "voucher", "status", i, [NoForm EXCEPT !.active = a], "setting")
        PROVE  Effect(r)
    <3>1. [NoForm EXCEPT !.active = a] \in Form BY Blank DEF Form
    <3> QED BY <1>0, <1>1, <2>5, <3>1, ReceiveEffect DEF VoucherArrives, StagesOf, MayStart, Existing, Saving
  <2> QED BY <1>1, <2>2, <2>3, <2>4, <2>5 DEF VoucherArrives
<1>2. CASE VoucherFind(r)
  <2>1. Op(r) = "edit"
    BY <1>0, <1>2 DEF VoucherFind, At, StagesOf, Shape, Sane, PathFits, Op
  <2> QED BY <1>0, <1>2, <2>1, FindEffect DEF VoucherFind, At, StagesOf
<1>3. CASE VoucherCheck(r)
  <2>1. CASE Normal(In(r))
    <3>1. In(r).pics = {}
      BY <1>3 DEF VoucherCheck, At, Shape, Sane, FormFits, FormFit, Pending, PathFits, StagesOf, After,
                  Saving, In
    <3> QED BY <1>3, <2>1, <3>1, CheckNameEffect DEF VoucherCheck, At
  <2>2. CASE ~Normal(In(r))
    BY <1>3, <2>2, DoneEffect, OpAt DEF VoucherCheck, At, Before, Early, Calm, history, overlaps
  <2> QED BY <2>1, <2>2
<1>4. CASE VoucherInsert(r)
  <2> DEFINE row == [NoRow EXCEPT !.res = "voucher", !.live = TRUE, !.name = In(r).name,
                             !.active = In(r).active, !.refs = In(r).refs, !.kind = In(r).kind]
  <2>1. At(r, "voucher", "writing") /\ Op(r) = "create" /\ Commit(r, row, "dropping")
    BY <1>4 DEF VoucherInsert
  <2>2. /\ row.res = "voucher" /\ row.live /\ row.name = In(r).name
        /\ row.cover = {} 
        /\ row.gallery = {} /\ row.refs = In(r).refs /\ row.kind = In(r).kind
    BY DEF NoRow
  <2>3. /\ In(r).name \in Names \cup {None} /\ In(r).active \in BOOLEAN
        /\ In(r).refs \in SUBSET Ref /\ In(r).kind \in Kinds
        /\ {} \in {{}} \cup {{p} : p \in Pictures} /\ Added(r) \in SUBSET Pictures
    BY <2>1, WriteReady DEF At, Form, Saving
  <2>4. row \in Row
    BY <2>3, Blank DEF Row, Resources
  <2> HIDE DEF row
  <2>5. Draft(r, row)
    BY <2>1, <2>2, <2>4, WriteReady DEF Draft, At, Saving, NoRow, Galleried
  <2> QED BY <2>1, <2>5, InsertEffect DEF At, After
<1>5. CASE VoucherUpdate(r)
  <2> DEFINE row == [rows[Id(r)] EXCEPT !.name = In(r).name, !.refs = In(r).refs, !.kind = In(r).kind]
  <2>1. At(r, "voucher", "writing") /\ Op(r) = "edit" /\ Edit(r, row)
    BY <1>5 DEF VoucherUpdate
  <2>2. Id(r) \in Existing("voucher") => Draft(r, row)
    BY <2>1, WriteReady DEF Draft, Row, At, Form, Saving, Galleried
  <2> HIDE DEF row
  <2> QED BY <2>1, <2>2, EditEffect DEF At
<1>6. CASE GuardVoucher(r)
  <2>1. At(r, "voucher", "guarding") /\ Calm /\ crowded' = crowded
    BY <1>6 DEF GuardVoucher, Calm, history, overlaps
  <2>2. CASE Claimed(Id(r))
    BY <1>6, <2>1, <2>2, DoneEffect, OpAt DEF GuardVoucher, At, Before, Early
  <2>3. CASE ~Claimed(Id(r))
    BY <1>6, <2>1, <2>3, GuardEffect DEF GuardVoucher, At, Claimed
  <2> QED BY <2>2, <2>3
<1>7. CASE VoucherDelete(r)
  <2> DEFINE row == rows[Id(r)]
             gone == [row EXCEPT !.live = FALSE]
  <2>1. At(r, "voucher", "writing") /\ Op(r) = "delete" /\ Remove(r, row)
    BY <1>7 DEF VoucherDelete
  <2>2. ASSUME Id(r) \in Existing("voucher") PROVE Remains(r, gone)
    <3>1. rows[Id(r)] \in Row /\ rows[Id(r)].res = "voucher"
      BY <2>2 DEF Existing, Shape, RowFit
    <3>2. /\ gone \in Row /\ ~gone.live /\ gone.res = "voucher" /\ gone.name = rows[Id(r)].name
          /\ gone.cover = rows[Id(r)].cover /\ gone.gallery = rows[Id(r)].gallery
          /\ gone.refs = rows[Id(r)].refs
      BY <3>1 DEF Row
    <3> HIDE DEF gone
    <3> QED BY <2>1, <3>2 DEF Remains, At
  <2> HIDE DEF row
  <2> QED BY <2>1, <2>2, RemoveEffect DEF At
<1>8. CASE VoucherStatus(r)
  BY <1>8, StatusEffect DEF VoucherStatus, At
<1> QED BY <1>1, <1>2, <1>3, <1>4, <1>5, <1>6, <1>7, <1>8 DEF VoucherStep

\* Reviews.
LEMMA ReviewEffect == ASSUME Shape, NEW r \in Requests, ReviewStep(r) PROVE Effect(r)
<1>0. /\ req[r].at \in StagesOf(Op(r)) /\ req[r] \in Request
      /\ r \in Ids /\ "review" \in Resources
  BY OpAt DEF Ids, Resources
<1>1. CASE ReviewArrives(r)
  <2>1. ASSUME NEW i \in Existing("review"), Receive(r, "review", "delete", i, NoForm, "writing")
        PROVE  Effect(r)
    BY <1>0, <1>1, <2>1, Blank, ReceiveEffect DEF ReviewArrives, StagesOf, MayStart, Existing, Saving
  <2>2. ASSUME NEW i \in Existing("review"), NEW a \in BOOLEAN,
               Receive(r, "review", "status", i, [NoForm EXCEPT !.active = a], "setting")
        PROVE  Effect(r)
    <3>1. [NoForm EXCEPT !.active = a] \in Form BY Blank DEF Form
    <3> QED BY <1>0, <1>1, <2>2, <3>1, ReceiveEffect DEF ReviewArrives, StagesOf, MayStart, Existing, Saving
  <2> QED BY <1>1, <2>1, <2>2 DEF ReviewArrives, ReviewsListed
<1>9. ReviewDelete(r) => Op(r) = "delete"
  BY <1>0 DEF ReviewDelete, At, Op, StagesOf, Shape, Sane, FormFits, FormFit, PathFits, Pending, After, Saving
<1>2. CASE ReviewDelete(r)
  <2> DEFINE row == rows[Id(r)]
             gone == [row EXCEPT !.live = FALSE]
  <2>1. At(r, "review", "writing") /\ Op(r) = "delete" /\ Remove(r, row)
    BY <1>2, <1>9 DEF ReviewDelete
  <2>2. ASSUME Id(r) \in Existing("review") PROVE Remains(r, gone)
    <3>1. rows[Id(r)] \in Row /\ rows[Id(r)].res = "review"
      BY <2>2 DEF Existing, Shape, RowFit
    <3>2. /\ gone \in Row /\ ~gone.live /\ gone.res = "review" /\ gone.name = rows[Id(r)].name
          /\ gone.cover = rows[Id(r)].cover /\ gone.gallery = rows[Id(r)].gallery
          /\ gone.refs = rows[Id(r)].refs
      BY <3>1 DEF Row
    <3> HIDE DEF gone
    <3> QED BY <2>1, <3>2 DEF Remains, At
  <2> HIDE DEF row
  <2> QED BY <2>1, <2>2, RemoveEffect DEF At
<1>3. CASE ReviewStatus(r)
  BY <1>3, StatusEffect DEF ReviewStatus, At
<1> QED BY <1>1, <1>2, <1>3 DEF ReviewStep

-----------------------------------------------------------------------------
(* Rows that a write leaves                                                *)

\* What a list of children of one kind looks like.
LEMMA Columned == \A lists, x : {ref[1] : ref \in lists \X {x}} = lists
<1> TAKE lists, x
<1>1. \A l \in lists : <<l, x>> \in lists \X {x} /\ <<l, x>>[1] = l OBVIOUS
<1> QED BY <1>1

\* What validate and normalize let through has children of one kind.
LEMMA KindChecked ==
  ASSUME NEW form,
         \/ form.kind \in EventTypes /\ form.refs = Children(form.lists) /\ Valid(form)
         \/ form.kind \in DiscountTypes /\ form.refs = Columns(form.lists) /\ Normal(form)
  PROVE  OneKind(form.refs, form.kind)
<1>1. {ref[1] : ref \in Children(form.lists)} = form.lists BY Columned DEF Children
<1>2. {ref[1] : ref \in Columns(form.lists)} = form.lists BY Columned DEF Columns
<1> QED BY <1>1, <1>2 DEF OneKind, KindOf, Valid, Normal, EventTypes, DiscountTypes

\* The row a write leaves is in order.
LEMMA DraftFits ==
  ASSUME Shape, NEW r \in Requests, req[r].at = "writing", Op(r) \in Saving,
         Op(r) = "edit" => Id(r) \in Existing(req[r].res),
         NEW row \in Row, Draft(r, row)
  PROVE  RowFit(Id(r), row)
<1> DEFINE s == req[r]
           was == rows[Id(r)]
<1>1. s \in Request /\ Sane(r, s) /\ Fits(r, s, rows) BY DEF Shape, Sane
<1>2. s.op \in {"create", "edit"} /\ s.op # None /\ Pending(s) /\ s.at \in Before
  BY DEF Pending, After, Op, Saving, None, Before
<1>3. s.id \in Ids /\ s.res \in Resources
  BY <1>1, <1>2 DEF Sane, PathFits
<1>4. FormFit(s.res, s.op, s.form) /\ Checked(s) BY <1>1, <1>2 DEF Sane, FormFits
<1>5. RowFit(s.id, was) BY <1>3 DEF Shape, Id
<1>6. s.op = "create" => was = NoRow
  BY <1>1, <1>2, WriteReady DEF Op
<1>7. s.op = "edit" => was.res = s.res
  BY DEF Existing, Op, Id
<1>8. was = NoRow => was.gallery = {} /\ was.refs = {} /\ was.cover = {}
  BY DEF NoRow
<1>9. row.res \in {"voucher", "review"} => row.cover = {}
  BY <1>4, WriteReady DEF Draft, FormFit
<1>10. row.res \in Pictured => row.cover # {}
  BY <1>2, <1>4, <1>5, <1>7 DEF Draft, NewCover, FormFit, RowFit, Pictured, In
<1>11. row.res \notin Galleried => row.gallery = {}
  BY WriteReady DEF Draft
<1>12. Picture(r, "cover")[1] = Id(r) /\ Picture(r, "cover")[3] = "cover"
        /\ Picture(r, "gallery")[1] = Id(r) /\ Picture(r, "gallery")[3] = "gallery"
  BY DEF Picture
<1>13. \A p \in row.cover : p[1] = Id(r) /\ p[3] = "cover"
  BY <1>2, <1>5, <1>6, <1>7, <1>8, <1>12 DEF Draft, NewCover, RowFit, Id
<1>14. \A p \in row.gallery : p[1] = Id(r) /\ p[3] = "gallery"
  BY <1>2, <1>5, <1>6, <1>7, <1>8, <1>12 DEF Draft, ProductGallery, Added, RowFit, Id
<1>15. IF row.res \in Nameless THEN row.name = None ELSE row.name \in Names
  BY <1>4 DEF Draft, FormFit, In
<1>16. RefsFit(row.res, row.refs)
  <2>1. CASE s.res # "shop"
    BY <1>4, <2>1, WriteReady DEF Draft, FormFit, In
  <2>2. CASE s.res = "shop"
    BY <2>2 DEF Draft, RefsFit
  <2> QED BY <2>1, <2>2
<1>17. row.res \in {"event", "voucher"} => OneKind(row.refs, row.kind)
  <2>1. s.res \in {"event", "voucher"} => OneKind(In(r).refs, In(r).kind)
    BY <1>4, KindChecked DEF FormFit, Checked, In
  <2>2. row.res \in {"event", "voucher"} => row.refs = In(r).refs /\ row.kind = In(r).kind
    BY WriteReady DEF Draft
  <2> QED BY <2>1, <2>2 DEF Draft
<1>18. row.live /\ row.res = s.res BY DEF Draft
<1> QED
  BY <1>3, <1>9, <1>10, <1>11, <1>13, <1>14, <1>15, <1>16, <1>17, <1>18
  DEF RowFit, None, Resources

\* The row a delete leaves, and the row a change of status leaves.
LEMMA RemainsFit ==
  ASSUME Shape, NEW r \in Requests, Id(r) \in Existing(req[r].res), req[r].res \in Resources,
         NEW row \in Row, Remains(r, row)
  PROVE  RowFit(Id(r), row)
<1> DEFINE was == rows[Id(r)]
<1>1. RowFit(Id(r), was) /\ was.res = req[r].res BY DEF Existing, Shape
<1>2. RefsFit(row.res, row.refs)
  BY <1>1 DEF RowFit, Remains, RefsFit
<1> QED BY <1>1, <1>2 DEF RowFit, Remains, None, Resources

\* A row shown or hidden is still in order.
LEMMA StatusFits ==
  ASSUME NEW i, NEW was, RowFit(i, was), NEW active \in BOOLEAN, was.res # None
  PROVE  RowFit(i, [was EXCEPT !.active = active])
<1> DEFINE now == [was EXCEPT !.active = active]
<1>1. was \in Row BY DEF RowFit
<1>2. /\ now \in Row /\ now.res = was.res /\ now.live = was.live /\ now.name = was.name
      /\ now.cover = was.cover /\ now.gallery = was.gallery /\ now.refs = was.refs /\ now.kind = was.kind
  BY <1>1 DEF Row
<1> HIDE DEF now
<1>3. RowFit(i, now) BY <1>2 DEF RowFit
<1> QED BY <1>3 DEF now

-----------------------------------------------------------------------------
(* The tables after a step                                                 *)

\* The tables after a step: as before, or one row, in order, written by r.
Touches(r, row) ==
  /\ req[r].at \in {"writing", "setting"} /\ Op(r) # None
  /\ Id(r) \in Ids /\ req[r].res \in Resources
  /\ RowFit(Id(r), row) /\ row.res = req[r].res
  /\ rows' = [rows EXCEPT ![Id(r)] = row]
Tables(r) == rows' = rows \/ \E row : Touches(r, row)

\* Who changes the tables changes one row, into one that is in order.
LEMMA EffectTables ==
  ASSUME Whole, NEW r \in Requests, NEW q \in Request, Sane(r, q),
         Writes(r, q) \/ Removes(r, q) \/ Sets(r, q)
  PROVE  \E row : Touches(r, row)
<1>1. rows \in [Ids -> Row] /\ Shape BY DEF Whole, TypeOK
<1>2. req[r] \in Request /\ Sane(r, req[r]) /\ Fits(r, req[r], rows) BY <1>1 DEF Shape, Sane
<1>3. req[r].at \in {"writing", "setting"} /\ Op(r) # None
  BY <1>2 DEF Writes, Removes, Sets, Saving, None, Sane, PathFits, StagesOf, Op
<1>4. Id(r) \in Ids /\ req[r].res \in Resources
  BY <1>2, <1>3 DEF Sane, PathFits, Id, Op
<1>5. CASE Writes(r, q)
  <2>1. PICK row \in Row : Draft(r, row) /\ rows' = [rows EXCEPT ![Id(r)] = row]
    BY <1>5 DEF Writes
  <2>2. RowFit(Id(r), row) BY <1>1, <1>5, <2>1, DraftFits DEF Writes
  <2> QED BY <1>3, <1>4, <2>1, <2>2 DEF Touches, Draft
<1>6. CASE Removes(r, q)
  <2>1. PICK row \in Row : Remains(r, row) /\ rows' = [rows EXCEPT ![Id(r)] = row]
    BY <1>6 DEF Removes
  <2>2. RowFit(Id(r), row) BY <1>1, <1>4, <1>6, <2>1, RemainsFit DEF Removes
  <2> QED BY <1>3, <1>4, <2>1, <2>2 DEF Touches, Remains
<1>7. CASE Sets(r, q)
  <2> DEFINE row == [rows[Id(r)] EXCEPT !.active = In(r).active]
  <2>1. rows' = [rows EXCEPT ![Id(r)] = row] BY <1>1, <1>4, <1>7 DEF Sets
  <2>2. req[r].op = "status" BY <1>2, <1>7 DEF Sets, Sane, PathFits, StagesOf
  <2>3. RowFit(Id(r), rows[Id(r)]) /\ rows[Id(r)].res = req[r].res
    BY <1>1, <1>2, <1>4, <2>2 DEF Shape, Fits, Id
  <2>4. In(r).active \in BOOLEAN BY <1>2 DEF Request, Form, In
  <2>5. RowFit(Id(r), row) BY <1>4, <2>3, <2>4, StatusFits DEF Resources, None
  <2>6. row.res = req[r].res BY <2>3 DEF RowFit, Row
  <2> HIDE DEF row
  <2> QED BY <1>3, <1>4, <2>1, <2>5, <2>6 DEF Touches
<1> QED BY <1>5, <1>6, <1>7

\* The record of a request after an effect still fits its row.
LEMMA EffectFits ==
  ASSUME Whole, NEW r \in Requests, NEW q \in Request, Turn(r, q), Sane(r, q),
         \/ Arrives(r, q) \/ Proceeds(r, q) \/ Quits(r, q)
         \/ Writes(r, q) \/ Removes(r, q) \/ Sets(r, q)
  PROVE  Fits(r, q, rows') /\ Tables(r)
<1>1. rows \in [Ids -> Row] /\ Shape BY DEF Whole, TypeOK
<1>2. /\ req[r] \in Request /\ Sane(r, req[r]) /\ Fits(r, req[r], rows)
      /\ \A p \in req[r].new : p[2] = r
  BY <1>1 DEF Shape, Sane, NewFits
<1>3. CASE Arrives(r, q)
  BY <1>3 DEF Arrives, Calm, Tables
<1>4. CASE Proceeds(r, q)
  <2>1. rows' = rows /\ q.op = req[r].op /\ q.id = req[r].id /\ q.res = req[r].res
    BY <1>2, <1>4 DEF Proceeds, Calm, Request
  <2>2. q.at \notin After /\ q.at # "idle" /\ req[r].at \in Before
    BY <1>4 DEF Proceeds, After, Before
  <2> QED BY <1>2, <2>1, <2>2 DEF Fits, Tables
<1>5. CASE Quits(r, q)
  BY <1>2, <1>5, Endings DEF Quits, Calm, Tables
<1>6. CASE Writes(r, q) \/ Removes(r, q) \/ Sets(r, q)
  <2>1. PICK row : Touches(r, row) BY <1>6, EffectTables
  <2>2. rows'[Id(r)].res = req[r].res BY <1>1, <2>1 DEF Touches
  <2>3. CASE Sets(r, q)
    BY <1>2, <2>1, <2>3, Endings DEF Sets, Tables
  <2>4. CASE Writes(r, q) \/ Removes(r, q)
    <3>1. q.id = req[r].id /\ q.res = req[r].res /\ q.at \in After
      BY <1>2, <2>4 DEF Writes, Removes, Request, After
    <3>2. q.at \notin Before /\ q.at # "idle" BY <3>1 DEF After, Before, Early
    <3> QED BY <2>1, <2>2, <3>1, <3>2 DEF Fits, Tables, Id
  <2> QED BY <1>6, <2>3, <2>4
<1> QED BY <1>3, <1>4, <1>5, <1>6

\* An upload that succeeds adds one picture to the request and to the store.
LEMMA UploadTurn ==
  ASSUME Whole, NEW r \in Requests, Upload(r)
  PROVE  \E q \in Request, part \in Missing(r) :
           /\ Turn(r, q) /\ Sane(r, q) /\ Fits(r, q, rows)
           /\ req[r].at = "uploading" /\ q.at \in {"uploading", "writing"}
           /\ q = [req[r] EXCEPT !.at = q.at, !.new = q.new]
           /\ q.new = req[r].new \cup {Picture(r, part)} /\ Picture(r, part) \in Pictures
           /\ Op(r) \in Saving /\ stored' = stored \cup {Picture(r, part)}
<1> DEFINE s == req[r]
<1>1. s \in Request /\ Sane(r, s) /\ Fits(r, s, rows) /\ s.at = "uploading"
  BY DEF Whole, Shape, Sane, Upload
<1>2. s.op \in {"create", "edit"} /\ s.op # None /\ Pending(s)
  BY <1>1 DEF Sane, PathFits, StagesOf, Pending, Saving, After, None
<1>3. PICK part \in Missing(r) :
        /\ stored' = stored \cup {Picture(r, part)}
        /\ req' = [req EXCEPT ![r].new = @ \cup {Picture(r, part)},
                              ![r].at = IF Missing(r) = {part} THEN "writing" ELSE @]
  BY DEF Upload
<1> DEFINE stage == IF Missing(r) = {part} THEN "writing" ELSE "uploading"
           q == [s EXCEPT !.new = s.new \cup {Picture(r, part)}, !.at = stage]
<1>4. part \in s.form.pics /\ part \in Parts
  BY <1>1, <1>3 DEF Missing, In, Request, Form
<1>5. Picture(r, part) \in Pictures /\ Picture(r, part) = <<s.id, r, part>>
  BY <1>1, <1>2, <1>4 DEF Picture, Pictures, Sane, PathFits, Id
<1>6. Turn(r, q) BY <1>1, <1>3 DEF Turn
<1>7. stage \in {"uploading", "writing"} OBVIOUS
<1> HIDE DEF stage
<1>8. /\ q \in Request /\ q.at = stage /\ q.new = s.new \cup {Picture(r, part)}
      /\ q.res = s.res /\ q.op = s.op /\ q.id = s.id /\ q.form = s.form /\ q.old = s.old
      /\ q = [s EXCEPT !.at = q.at, !.new = q.new]
  BY <1>1, <1>5, <1>7 DEF Request, Stage
<1> HIDE DEF q
<1>9. PathFits(r, q) /\ FormFits(q) /\ OldFits(q)
  BY <1>1, <1>2, <1>7, <1>8 DEF Sane, PathFits, StagesOf, FormFits, Checked, Pending, OldFits
<1>10. NewFits(r, q)
  <2>1. Uploads(r, q) = {<<s.id, r, x>> : x \in s.form.pics} BY <1>8 DEF Uploads
  <2>2. s.new \subseteq Uploads(r, s) /\ Uploads(r, q) = Uploads(r, s)
    BY <1>1, <1>2, <1>8 DEF Sane, NewFits, Uploads
  <2>3. q.new \subseteq Uploads(r, q) BY <1>4, <1>5, <1>8, <2>1, <2>2
  <2>4. ASSUME stage = "writing" PROVE Uploads(r, q) \subseteq q.new
    <3>1. Missing(r) = {part} BY <2>4 DEF stage
    <3>2. \A x \in s.form.pics : x # part => <<s.id, r, x>> \in s.new
      BY <3>1 DEF Missing, Picture, In, Id
    <3> QED BY <1>5, <1>8, <2>1, <3>2
  <2>5. \A p \in q.new : p[1] = s.id /\ p[2] = r
    BY <2>1, <2>3
  <2>6. q.at \notin Early /\ q.op \notin {"delete", "status"}
    BY <1>2, <1>7, <1>8 DEF Early
  <2> QED BY <1>8, <2>3, <2>4, <2>5, <2>6 DEF NewFits
<1>11. Fits(r, q, rows)
  BY <1>1, <1>2, <1>7, <1>8 DEF Fits, After, Before, Early
<1> QED BY <1>1, <1>2, <1>3, <1>5, <1>6, <1>7, <1>8, <1>9, <1>10, <1>11 DEF Sane, Op, Saving

\* The steps that end a request, or take its answer to the pictures it replaced.
LEMMA CloseTurn ==
  ASSUME Whole, NEW r \in Requests,
         UploadFails(r) \/ Undo(r) \/ Drop(r) \/ Reread(r) \/ StatementFails(r) \/ Crash(r)
  PROVE  \E q \in Request :
           /\ Turn(r, q) /\ Sane(r, q) /\ Fits(r, q, rows) /\ rows' = rows
           /\ \/ q = Ending(r) /\ (UploadFails(r) \/ Reread(r) \/ StatementFails(r))
              \/ q = Answered(r)
              \/ q = [req[r] EXCEPT !.at = "dropping"] /\ Reread(r)
<1>1. /\ req[r] \in Request /\ Sane(r, req[r]) /\ Fits(r, req[r], rows)
      /\ \A p \in req[r].new : p[2] = r
  BY DEF Whole, Shape, Sane, NewFits
<1>2. rows' = rows
  BY DEF UploadFails, Undo, Drop, Reread, StatementFails, Crash
<1>3. ASSUME Abort(r), UploadFails(r) \/ Reread(r) \/ StatementFails(r)
      PROVE  \E q \in Request :
               Turn(r, q) /\ Sane(r, q) /\ Fits(r, q, rows) /\ q = Ending(r)
  BY <1>1, <1>3, Endings
<1>4. ASSUME Done(r)
      PROVE  \E q \in Request :
               Turn(r, q) /\ Sane(r, q) /\ Fits(r, q, rows) /\ q = Answered(r)
  BY <1>1, <1>4, Endings
<1>5. CASE UploadFails(r) \/ StatementFails(r)
  BY <1>2, <1>3, <1>5 DEF UploadFails, StatementFails
<1>6. CASE Undo(r) \/ Drop(r) \/ Crash(r)
  BY <1>2, <1>4, <1>6 DEF Undo, Drop, Crash
<1>7. CASE Reread(r)
  <2>1. CASE Abort(r) BY <1>2, <1>3, <1>7, <2>1
  <2>2. CASE Done(r) BY <1>2, <1>4, <1>7, <2>2
  <2>3. CASE Goto(r, "dropping")
    <3> DEFINE s == req[r]
               q == [s EXCEPT !.at = "dropping"]
    <3>1. s.at = "rereading" BY <1>7 DEF Reread
    <3>2. Turn(r, q) BY <2>3 DEF Turn, Goto
    <3>3. /\ q \in Request /\ q.at = "dropping" /\ q.new = s.new /\ q.old = s.old
          /\ q.res = s.res /\ q.op = s.op /\ q.id = s.id /\ q.form = s.form
          /\ q = [s EXCEPT !.at = "dropping"]
      BY <1>1 DEF Request, Stage
    <3> HIDE DEF q
    <3>4. Sane(r, q)
      BY <1>1, <3>1, <3>3
      DEF Sane, PathFits, StagesOf, FormFits, OldFits, NewFits, Pending, Early, After
    <3>5. Fits(r, q, rows) BY <1>1, <3>1, <3>3 DEF Fits, After, Before, Early
    <3> QED BY <1>2, <1>7, <3>2, <3>3, <3>4, <3>5
  <2> QED BY <1>7, <2>1, <2>2, <2>3 DEF Reread
<1> QED BY <1>5, <1>6, <1>7

\* Whatever the resource, a step has one of the effects, or is about pictures.
LEMMA ServeEffect ==
  ASSUME Whole, NEW r \in Requests, Serve(r)
  PROVE  \/ Effect(r)
         \/ Upload(r)
         \/ UploadFails(r) \/ Undo(r) \/ Drop(r) \/ Reread(r) \/ StatementFails(r) \/ Crash(r)
<1>1. Shape BY DEF Whole
<1> QED
  BY <1>1, ProductEffect, TypeEffect, BannerEffect, EventEffect, ShopEffect, CashierEffect,
     VoucherEffect, ReviewEffect
  DEF Serve

\* Every step of a request leaves it in order, and the tables too.
LEMMA ServeTurn ==
  ASSUME Whole, NEW r \in Requests, Serve(r)
  PROVE  \E q \in Request : Turn(r, q) /\ Sane(r, q) /\ Fits(r, q, rows') /\ Tables(r)
<1>1. CASE Effect(r)
  <2>1. PICK q \in Request :
          /\ Turn(r, q) /\ Sane(r, q)
          /\ \/ Arrives(r, q) \/ Proceeds(r, q) \/ Quits(r, q)
             \/ Writes(r, q) \/ Removes(r, q) \/ Sets(r, q)
    BY <1>1 DEF Effect
  <2> QED BY <2>1, EffectFits
<1>2. CASE Upload(r)
  <2>1. rows' = rows BY <1>2 DEF Upload
  <2> QED BY <1>2, <2>1, UploadTurn DEF Tables
<1>3. CASE UploadFails(r) \/ Undo(r) \/ Drop(r) \/ Reread(r) \/ StatementFails(r) \/ Crash(r)
  BY <1>3, CloseTurn DEF Tables
<1> QED BY <1>1, <1>2, <1>3, ServeEffect

\* What one request writes leaves the others with the rows they are about.
LEMMA OthersFit ==
  ASSUME Whole, NEW r \in Requests, NEW o \in Requests, o # r, Tables(r)
  PROVE  Fits(o, req[o], rows')
<1>1. rows \in [Ids -> Row] /\ Shape BY DEF Whole, TypeOK
<1>2. /\ Sane(r, req[r]) /\ Fits(r, req[r], rows) /\ Sane(o, req[o]) /\ Fits(o, req[o], rows)
  BY <1>1 DEF Shape
<1>3. CASE rows' = rows BY <1>2, <1>3
<1>4. CASE \E row : Touches(r, row)
  <2>1. PICK row : Touches(r, row) BY <1>4
  <2>2. r \in Ids /\ o \in Ids /\ rows[Id(r)] \in Row BY <1>1, <2>1 DEF Ids, Touches
  <2>3. \A i \in Ids : i # Id(r) => rows'[i] = rows[i]
    BY <1>1, <2>1 DEF Touches
  <2>4. rows'[Id(r)].res = req[r].res /\ req[r].res # None
    BY <1>1, <2>1 DEF Touches, Resources, None
  <2>5. Op(r) = "create" => Id(r) = r /\ rows[Id(r)] = NoRow
    BY <1>2, <2>1 DEF Sane, PathFits, Fits, Touches, Op, Id, Before, Early
  <2>6. Op(r) # "create" => rows[Id(r)].res = req[r].res
    BY <1>2, <2>1 DEF Sane, PathFits, StagesOf, Fits, Touches, Op, Id, None
  <2>7. NoRow.res = None BY DEF NoRow
  <2>8. rows[o] = NoRow => Id(r) # o
    BY <2>4, <2>5, <2>6, <2>7
  <2>9. ASSUME req[o].op \in {"edit", "delete", "status"} \/ req[o].at \in After
        PROVE  rows'[req[o].id].res = req[o].res
    <3>1. req[o].op # None
      BY <1>2, <2>9 DEF Sane, PathFits, StagesOf, After, None
    <3>2. req[o].id \in Ids /\ req[o].res \in Resources /\ rows[req[o].id].res = req[o].res
      BY <1>2, <2>9, <3>1 DEF Sane, PathFits, Fits
    <3>3. req[o].res # None BY <3>2 DEF Resources, None
    <3> QED BY <2>3, <2>4, <2>5, <2>6, <2>7, <3>2, <3>3
  <2>10. rows[o] = NoRow => rows'[o] = NoRow BY <2>2, <2>3, <2>8
  <2> QED BY <1>2, <2>9, <2>10 DEF Fits
<1> QED BY <1>3, <1>4 DEF Tables

\* The shape is kept by every step of a request.
LEMMA ShapeServe ==
  ASSUME Whole, NEW r \in Requests, Serve(r)
  PROVE  Shape' /\ rows' \in [Ids -> Row] /\ req' \in [Requests -> Request]
<1>1. rows \in [Ids -> Row] /\ req \in [Requests -> Request] /\ Shape BY DEF Whole, TypeOK
<1>2. PICK q \in Request : Turn(r, q) /\ Sane(r, q) /\ Fits(r, q, rows') /\ Tables(r)
  BY ServeTurn
<1>3. req' \in [Requests -> Request] /\ req'[r] = q /\ \A o \in Requests \ {r} : req'[o] = req[o]
  BY <1>1, <1>2 DEF Turn
<1>4. rows' \in [Ids -> Row] /\ \A i \in Ids : RowFit(i, rows'[i])
  <2>1. CASE rows' = rows BY <1>1, <2>1 DEF Shape
  <2>2. CASE \E row : Touches(r, row)
    <3>1. PICK row : Touches(r, row) BY <2>2
    <3>2. row \in Row BY <3>1 DEF Touches, RowFit
    <3>3. rows' \in [Ids -> Row] BY <1>1, <3>1, <3>2 DEF Touches
    <3>4. \A i \in Ids : rows'[i] = IF i = Id(r) THEN row ELSE rows[i]
      BY <1>1, <3>1 DEF Touches
    <3> QED BY <1>1, <3>1, <3>3, <3>4 DEF Shape, Touches
  <2> QED BY <1>2, <2>1, <2>2 DEF Tables
<1>5. \A o \in Requests : Sane(o, req'[o]) /\ Fits(o, req'[o], rows')
  <2>1. TAKE o \in Requests
  <2>2. CASE o = r BY <1>2, <1>3, <2>2
  <2>3. CASE o # r
    <3>1. Sane(o, req[o]) BY <1>1 DEF Shape
    <3> QED BY <1>2, <1>3, <2>3, <3>1, OthersFit
  <2> QED BY <2>2, <2>3
<1>6. \A i \in Ids : RowFit(i, rows[i])' BY <1>4
<1> QED BY <1>3, <1>4, <1>5 DEF Shape

-----------------------------------------------------------------------------
(* Everything in order                                                     *)

\* The rows that are there from the start are in order.
LEMMA FirstFits == ASSUME NEW i \in Resources PROVE RowFit(i, FirstRow(i))
<1> DEFINE row == FirstRow(i)
           name == CHOOSE n \in Names : TRUE
           refs == CASE i = "product" -> {<<"type", "type">>}
                     [] i = "event" -> {<<"discount", "product">>}
                     [] i = "shop" -> {<<"line", "product">>}
                     [] i = "voucher" -> {<<"amount", "voucher">>}
                     [] i = "review" -> {<<"line", "product">>} [] OTHER -> {}
           kind == CASE i = "event" -> "DISKON" [] i = "voucher" -> "amount" [] OTHER -> None
           cover == IF i \in Pictured THEN {<<i, First, "cover">>} ELSE {}
           gallery == IF i \in Galleried THEN {<<i, First, "gallery">>} ELSE {}
<1>1. name \in Names BY CatalogueConfig
<1> HIDE DEF name
<1>2. i \in Ids /\ <<i, First, "cover">> \in Pictures /\ <<i, First, "gallery">> \in Pictures
  BY DEF Ids, Pictures, Parts
<1>3. refs \in SUBSET Ref
  BY DEF Ref, Lists, Ids, Resources, DiscountTypes
<1>4. kind \in Kinds BY DEF Kinds, EventTypes, DiscountTypes
<1>5. cover \in {{}} \cup {{p} : p \in Pictures} /\ gallery \in SUBSET Pictures
  BY <1>2
<1>6. /\ \A p \in cover : p[1] = i /\ p[3] = "cover"
      /\ \A p \in gallery : p[1] = i /\ p[3] = "gallery"
      /\ i \in Pictured => cover # {}
      /\ i \in {"voucher", "review"} => cover = {}
      /\ i \notin Galleried => gallery = {}
  <2>1. \A part \in Parts : <<i, First, part>>[1] = i /\ <<i, First, part>>[3] = part OBVIOUS
  <2> QED BY <2>1 DEF Pictured, Parts
<1>7. RefsFit(i, refs)
  BY DEF RefsFit, TypeRef, Resources
<1>8. i \in {"event", "voucher"} => OneKind(refs, kind)
  <2>1. {ref[1] : ref \in {<<"discount", "product">>}} = {"discount"} OBVIOUS
  <2>2. {ref[1] : ref \in {<<"amount", "voucher">>}} = {"amount"} OBVIOUS
  <2> QED BY <2>1, <2>2 DEF OneKind, KindOf
<1>9. /\ row.res = i /\ row.live /\ row.active /\ row.cover = cover /\ row.gallery = gallery
      /\ row.name = IF i \in {"shop", "review"} THEN None ELSE name
  BY DEF FirstRow, NoRow, name, Galleried
<1>13. row.refs = refs
  BY DEF FirstRow, NoRow
<1>14. row.kind = kind
  BY DEF FirstRow, NoRow
<1> HIDE DEF refs, kind, cover, gallery
<1>10. row \in Row
  BY <1>1, <1>3, <1>4, <1>5, <1>9, <1>13, <1>14 DEF Row, FirstRow, NoRow
<1>11. i # None BY DEF Resources, None
<1> HIDE DEF row
<1>12. RowFit(i, row)
  BY <1>1, <1>6, <1>7, <1>8, <1>9, <1>10, <1>11, <1>13, <1>14 DEF RowFit, Nameless
<1> QED BY <1>12 DEF row

\* So is the absence of a row.
LEMMA BlankFits == \A i : RowFit(i, NoRow)
BY Blank DEF RowFit, NoRow, None, Pictured, Resources, RefsFit, Galleried, Nameless

\* Everything is in order at the start.
LEMMA InitWhole == Init => Whole
<1> SUFFICES ASSUME Init PROVE Whole OBVIOUS
<1>1. PICK used \in BOOLEAN :
        rows = [i \in Ids |-> IF i \in Resources \ (IF used THEN {} ELSE {"product", "event", "shop", "review"})
                              THEN FirstRow(i) ELSE NoRow]
  BY DEF Init
<1>2. \A i \in Ids : rows[i] = NoRow \/ (i \in Resources /\ rows[i] = FirstRow(i))
  BY <1>1
<1>3. \A i \in Ids : RowFit(i, rows[i])
  BY <1>2, FirstFits, BlankFits
<1>4. rows \in [Ids -> Row]
  <2>1. \A i \in Ids : rows[i] \in Row BY <1>3 DEF RowFit
  <2>2. rows = [i \in Ids |-> rows[i]] BY <1>1
  <2> QED BY <2>1, <2>2
<1>5. stored \subseteq Pictures
  <2>1. \A i \in Ids : Held(rows[i]) \subseteq Pictures BY <1>4 DEF Held, Row
  <2> QED BY <2>1 DEF Init
<1>6. \A r \in Requests : req[r] = NoRequest /\ rows[r] = NoRow
  <2>1. TAKE r \in Requests
  <2>2. r \in Ids \ Resources BY AssetsConfig DEF Ids
  <2> QED BY <1>1, <2>2 DEF Init
<1>7. /\ NoRequest.at = "idle" /\ NoRequest.op = None /\ NoRequest.old = {} /\ NoRequest.new = {}
  BY DEF NoRequest
<1>8. \A r \in Requests : Sane(r, NoRequest)
  BY <1>7, Blank DEF Sane, PathFits, StagesOf, FormFits, Pending, OldFits, NewFits, Saving, None, Early
<1>9. \A r \in Requests : Fits(r, NoRequest, rows)
  BY <1>6, <1>7 DEF Fits, None, Before, Early, After
<1>10. TypeOK
  BY <1>3, <1>4, <1>5, Blank DEF TypeOK, Init, RowFit
<1> QED BY <1>3, <1>6, <1>8, <1>9, <1>10 DEF Whole, Shape

\* What a step does to the rest of the state, type by type.
LEMMA StoresTyped ==
  ASSUME Whole, NEW r \in Requests, Serve(r)
  PROVE  /\ stored' \subseteq Pictures /\ leaked' \subseteq Pictures /\ contested' \subseteq Ids
         /\ crowded' \subseteq Pairs /\ blamed' \subseteq Ids
<1>1. /\ stored \subseteq Pictures /\ leaked \subseteq Pictures /\ contested \subseteq Ids
      /\ crowded \subseteq Pairs /\ blamed \subseteq Ids
      /\ req[r] \in Request /\ Sane(r, req[r])
  BY DEF Whole, TypeOK, Pairs, Shape, Sane
<1>2. req[r].old \subseteq Pictures /\ req[r].new \subseteq Pictures BY <1>1 DEF Request
<1>3. Op(r) # None => Id(r) \in Ids BY <1>1 DEF Sane, PathFits, Op, Id
<1>4. CASE Effect(r)
  <2>1. PICK q \in Request :
          /\ Turn(r, q) /\ Sane(r, q)
          /\ \/ Arrives(r, q) \/ Proceeds(r, q) \/ Quits(r, q)
             \/ Writes(r, q) \/ Removes(r, q) \/ Sets(r, q)
    BY <1>4 DEF Effect
  <2>2. CASE Arrives(r, q) \/ Proceeds(r, q) \/ Quits(r, q)
    BY <1>1, <2>2 DEF Arrives, Proceeds, Quits, Calm
  <2>3. CASE Writes(r, q) \/ Removes(r, q)
    <3>1. Id(r) \in Ids BY <1>3, <2>3 DEF Writes, Removes, Saving, None
    <3> QED BY <1>1, <2>3, <3>1 DEF Writes, Removes, Contest
  <2>4. CASE Sets(r, q)
    BY <1>1, <2>4 DEF Sets, history, overlaps
  <2> QED BY <2>1, <2>2, <2>3, <2>4
<1>5. CASE Upload(r)
  <2>1. PICK part \in Missing(r) :
          Picture(r, part) \in Pictures /\ stored' = stored \cup {Picture(r, part)}
    BY <1>5, UploadTurn
  <2> QED BY <1>1, <1>5, <2>1 DEF Upload, history, overlaps
<1>6. CASE UploadFails(r)
  <2>1. Id(r) \in Ids
    BY <1>1, <1>3, <1>6 DEF UploadFails, Sane, PathFits, StagesOf, Op, None
  <2>2. \A part \in Missing(r) : Picture(r, part) \in Pictures
    BY <1>1, <2>1 DEF Missing, Picture, Pictures, Request, Form, In
  <2> QED BY <1>1, <1>6, <2>2 DEF UploadFails, overlaps
<1>7. CASE Undo(r) \/ Drop(r)
  BY <1>1, <1>2, <1>7 DEF Undo, Drop, Discard, overlaps
<1>8. CASE Reread(r)
  BY <1>1, <1>8 DEF Reread, history, overlaps
<1>9. CASE StatementFails(r)
  <2>1. req[r].at = "rereading" => Id(r) \in Ids
    BY <1>1, <1>3 DEF Sane, PathFits, StagesOf, Op, None
  <2> QED BY <1>1, <1>9, <2>1 DEF StatementFails, overlaps
<1>10. CASE Crash(r)
  BY <1>1, <1>2, <1>10 DEF Crash, overlaps
<1> QED BY <1>4, <1>5, <1>6, <1>7, <1>8, <1>9, <1>10, ServeEffect

\* And stays so.
LEMMA WholeStep == Whole /\ [Next]_cvars => Whole'
<1> SUFFICES ASSUME Whole, [Next]_cvars PROVE Whole' OBVIOUS
<1>1. ASSUME NEW r \in Requests, Serve(r), UNCHANGED ordered PROVE Whole'
  <2>1. /\ Shape' /\ rows' \in [Ids -> Row] /\ req' \in [Requests -> Request] BY <1>1, ShapeServe
  <2>2. \A i \in Ids : RowFit(i, rows'[i]) BY <2>1 DEF Shape
  <2>3. \A i \in Ids : rows'[i].live /\ rows'[i].res \in Pictured => rows'[i].cover # {}
    BY <2>2 DEF RowFit
  <2>4. /\ stored' \subseteq Pictures /\ leaked' \subseteq Pictures /\ contested' \subseteq Ids
        /\ crowded' \subseteq Pairs /\ blamed' \subseteq Ids
    BY <1>1, StoresTyped
  <2>5. ordered' \subseteq Ids BY <1>1 DEF Whole, TypeOK
  <2>6. TypeOK' BY <2>1, <2>3, <2>4, <2>5 DEF TypeOK, Pairs
  <2> QED BY <2>1, <2>6 DEF Whole
<1>2. ASSUME NEW i \in Ids, PlaceOrder(i) \/ Claim(i) PROVE Whole'
  <2>1. /\ rows' = rows /\ stored' = stored /\ req' = req /\ leaked' = leaked
        /\ contested' = contested /\ blamed' = blamed /\ ordered' = ordered \cup {i}
    BY <1>2 DEF PlaceOrder, Claim
  <2>2. crowded' \subseteq crowded \cup Pairs
    BY <1>2 DEF PlaceOrder, Claim, Pairs, Resources
  <2>3. TypeOK' BY <2>1, <2>2 DEF Whole, TypeOK, Pairs
  <2>4. Shape' BY <2>1 DEF Whole, Shape
  <2> QED BY <2>3, <2>4 DEF Whole
<1>3. CASE UNCHANGED cvars
  <2>1. TypeOK' BY <1>3 DEF Whole, TypeOK, cvars, vars, history, overlaps
  <2>2. Shape' BY <1>3 DEF Whole, Shape, cvars, vars, history, overlaps
  <2> QED BY <2>1, <2>2 DEF Whole
<1> QED BY <1>1, <1>2, <1>3 DEF Next

\* Every handler of the back office: the tables, the requests and the store keep
\* their types, and a row that is there and shows pictures has a cover.
THEOREM CatalogueTyped == Spec => []TypeOK
<1>1. Whole => TypeOK BY DEF Whole
<1> QED BY <1>1, InitWhole, WholeStep, PTL DEF Spec

\* The rows and the requests of the eight resources are in order in every
\* state: what each stage may assume about its form, its row and its pictures.
THEOREM AlwaysWhole == Spec => []Whole
BY InitWhole, WholeStep, PTL DEF Spec

(* Steps as names and children see them: who writes what is what matters. *)
Leaves(r, q) == (q.op = None \/ q.at = "dropping") /\ UNCHANGED <<rows, contested, crowded>>
Sends(r, q) ==
  /\ req[r].at = "uploading" /\ q.at \in {"uploading", "writing"} /\ Op(r) \in Saving
  /\ q = [req[r] EXCEPT !.at = q.at, !.new = q.new]
  /\ UNCHANGED <<rows, contested, crowded>>
Moves(r, q) ==
  \/ Arrives(r, q) \/ Proceeds(r, q) \/ Leaves(r, q) \/ Sends(r, q)
  \/ Writes(r, q) \/ Removes(r, q) \/ Sets(r, q)

\* Every step of a request is a move.
LEMMA ServeMoves ==
  ASSUME Whole, NEW r \in Requests, Serve(r)
  PROVE  \E q \in Request : Turn(r, q) /\ Sane(r, q) /\ Moves(r, q)
<1>1. /\ req[r] \in Request /\ \A p \in req[r].new : p[2] = r
  BY DEF Whole, Shape, Sane, NewFits
<1>2. CASE Effect(r)
  <2>1. PICK q \in Request :
          /\ Turn(r, q) /\ Sane(r, q)
          /\ \/ Arrives(r, q) \/ Proceeds(r, q) \/ Quits(r, q)
             \/ Writes(r, q) \/ Removes(r, q) \/ Sets(r, q)
    BY <1>2 DEF Effect
  <2>2. Quits(r, q) => Leaves(r, q)
    BY <1>1, Endings DEF Quits, Leaves, Calm
  <2> QED BY <2>1, <2>2 DEF Moves
<1>3. CASE Upload(r)
  <2>1. UNCHANGED <<rows, contested, crowded>> BY <1>3 DEF Upload, history, overlaps
  <2> QED BY <1>3, <2>1, UploadTurn DEF Moves, Sends, Sane
<1>4. CASE UploadFails(r) \/ Undo(r) \/ Drop(r) \/ Reread(r) \/ StatementFails(r) \/ Crash(r)
  <2>1. PICK q \in Request :
          /\ Turn(r, q) /\ Sane(r, q) /\ rows' = rows
          /\ q = Ending(r) \/ q = Answered(r) \/ q = [req[r] EXCEPT !.at = "dropping"]
    BY <1>4, CloseTurn
  <2>2. UNCHANGED <<rows, contested, crowded>>
    BY <1>4, <2>1 DEF UploadFails, Undo, Drop, Reread, StatementFails, Crash, history, overlaps
  <2>3. q.op = None \/ q.at = "dropping"
    BY <1>1, <2>1, Endings DEF Request
  <2> QED BY <2>1, <2>2, <2>3 DEF Moves, Leaves
<1> QED BY <1>2, <1>3, <1>4, ServeEffect

\* What the rows keep through a write, a delete and a change of status.
LEMMA WrittenRow ==
  ASSUME Whole, NEW r \in Requests, NEW q, Writes(r, q)
  PROVE  \E row \in Row :
           /\ Draft(r, row) /\ Id(r) \in Ids /\ req[r].res \in Resources
           /\ rows' \in [Ids -> Row] /\ rows'[Id(r)] = row
           /\ \A i \in Ids \ {Id(r)} : rows'[i] = rows[i]
           /\ q.at \in After /\ contested \subseteq contested' /\ UNCHANGED crowded
           /\ Op(r) = "edit" => rows[Id(r)].res = req[r].res /\ rows[Id(r)].live
           /\ Op(r) = "create" => rows[Id(r)] = NoRow /\ Id(r) = r
<1>1. rows \in [Ids -> Row] /\ Shape BY DEF Whole, TypeOK
<1>2. Id(r) \in Ids /\ req[r].res \in Resources
      /\ (Op(r) = "edit" => rows[Id(r)].res = req[r].res /\ rows[Id(r)].live)
      /\ (Op(r) = "create" => rows[Id(r)] = NoRow /\ Id(r) = r)
  BY <1>1, WriteReady DEF Writes
<1>3. PICK row \in Row : Draft(r, row) /\ rows' = [rows EXCEPT ![Id(r)] = row] BY DEF Writes
<1>4. q.at \in After /\ contested \subseteq contested' /\ UNCHANGED crowded
  <2>1. contested \subseteq contested' /\ UNCHANGED crowded BY DEF Writes, Contest
  <2>2. q.at \in After BY DEF Writes
  <2> QED BY <2>1, <2>2
<1> QED BY <1>1, <1>2, <1>3, <1>4

\* The same for a delete ...
LEMMA RemovedRow ==
  ASSUME Whole, NEW r \in Requests, NEW q, Removes(r, q)
  PROVE  \E row \in Row :
           /\ Remains(r, row) /\ Id(r) \in Existing(req[r].res) /\ Id(r) \in Ids
           /\ rows' \in [Ids -> Row] /\ rows'[Id(r)] = row
           /\ \A i \in Ids \ {Id(r)} : rows'[i] = rows[i]
           /\ q.at = "dropping" /\ contested \subseteq contested' /\ UNCHANGED crowded
<1>1. rows \in [Ids -> Row] /\ req[r] \in Request BY DEF Whole, TypeOK
<1>2. PICK row \in Row : Remains(r, row) /\ rows' = [rows EXCEPT ![Id(r)] = row] BY DEF Removes
<1>3. Id(r) \in Existing(req[r].res) /\ Id(r) \in Ids BY DEF Removes, Existing
<1>4. q.at = "dropping" BY <1>1 DEF Removes, Request
<1>5. contested \subseteq contested' /\ UNCHANGED crowded BY DEF Removes, Contest
<1> QED BY <1>1, <1>2, <1>3, <1>4, <1>5

\* ... and for a change of status.
LEMMA StatusRow ==
  ASSUME Whole, NEW r \in Requests, NEW q, Sets(r, q)
  PROVE  /\ rows' \in [Ids -> Row]
         /\ \A i \in Ids : /\ rows'[i].res = rows[i].res /\ rows'[i].live = rows[i].live
                           /\ rows'[i].name = rows[i].name /\ rows'[i].cover = rows[i].cover
                           /\ rows'[i].gallery = rows[i].gallery /\ rows'[i].refs = rows[i].refs
         /\ q.op = None /\ q.old = {} /\ q.new = {} /\ q.at = "answered"
         /\ UNCHANGED <<stored, leaked, contested, crowded, blamed>>
<1>1. rows \in [Ids -> Row] /\ req[r] \in Request /\ req[r].new = {}
  BY DEF Whole, TypeOK, Sets, Shape, Sane, NewFits, Early
<1>2. In(r).active \in BOOLEAN BY <1>1 DEF Request, Form, In
<1>3. rows' = [rows EXCEPT ![Id(r)].active = In(r).active] BY DEF Sets
<1>4. rows' \in [Ids -> Row] BY <1>1, <1>2, <1>3 DEF Row
<1>5. \A i \in Ids : /\ rows'[i].res = rows[i].res /\ rows'[i].live = rows[i].live
                     /\ rows'[i].name = rows[i].name /\ rows'[i].cover = rows[i].cover
                     /\ rows'[i].gallery = rows[i].gallery /\ rows'[i].refs = rows[i].refs
  BY <1>1, <1>3 DEF Row
<1>6. q.op = None /\ q.old = {} /\ q.new = {} /\ q.at = "answered"
  BY <1>1, Endings DEF Sets
<1> QED BY <1>4, <1>5, <1>6 DEF Sets, history, overlaps

-----------------------------------------------------------------------------
(* Partial edits and children                                              *)

\* A write replaces what the form carried.
LEMMA WritesPartially ==
  ASSUME Whole, NEW r \in Requests, NEW q \in Request, Writes(r, q)
  PROVE  Partial(r)
<1> SUFFICES ASSUME Op(r) = "edit"
             PROVE  /\ "cover" \notin In(r).pics => rows'[Id(r)].cover = rows[Id(r)].cover
                    /\ ~In(r).replace => rows[Id(r)].gallery \subseteq rows'[Id(r)].gallery
                    /\ \A l \in {"staff", "line"} \ In(r).lists :
                         {ref \in rows'[Id(r)].refs : ref[1] = l} = {ref \in rows[Id(r)].refs : ref[1] = l}
  BY DEF Partial, Op, Id
<1>1. PICK row \in Row : Draft(r, row) /\ rows'[Id(r)] = row /\ Id(r) \in Ids
                         /\ rows[Id(r)].res = req[r].res
  BY WrittenRow
<1>2. Shape /\ RowFit(Id(r), rows[Id(r)]) /\ FormFit(req[r].res, Op(r), In(r))
  <2>1. Sane(r, req[r]) /\ Pending(req[r])
    BY DEF Whole, Shape, Writes, Pending, After, Op
  <2> QED BY <1>1, <2>1 DEF Whole, Shape, Sane, FormFits, In, Op
<1>3. ASSUME NEW l \in {"staff", "line"} \ In(r).lists
      PROVE  {ref \in row.refs : ref[1] = l} = {ref \in rows[Id(r)].refs : ref[1] = l}
  <2>1. CASE req[r].res = "shop"
    BY <1>1, <1>2, <2>1 DEF Draft, NewRefs, FormFit
  <2>2. CASE req[r].res # "shop"
    BY <1>1, <1>2, <2>2 DEF Draft, NewRefs, FormFit, RowFit, RefsFit
  <2> QED BY <2>1, <2>2
<1> QED BY <1>1, <1>3 DEF Draft, NewCover, ProductGallery

\* Update of products, banners, shops and the others: an edit replaces the cover,
\* the gallery and the lists its form carried, and nothing else.
THEOREM EditsArePartial == Spec => PartialEdits
<1>1. Whole /\ [Next]_cvars => [\A r \in Requests : req'[r] # req[r] => Partial(r)]_cvars
  <2> SUFFICES ASSUME Whole, Next, NEW o \in Requests, req'[o] # req[o] PROVE Partial(o)
    OBVIOUS
  <2>1. req \in [Requests -> Request] BY DEF Whole, TypeOK
  <2>2. ASSUME NEW r \in Requests, Serve(r) PROVE Partial(o)
    <3>1. PICK q \in Request : Turn(r, q) /\ Moves(r, q) BY <2>2, ServeMoves
    <3>2. o = r BY <2>1, <3>1 DEF Turn
    <3>3. CASE Writes(r, q) BY <3>2, <3>3, WritesPartially
    <3>4. CASE Removes(r, q) BY <3>2, <3>4 DEF Removes, Partial, Op
    <3>5. CASE Sets(r, q) BY <3>2, <3>5 DEF Sets, Partial
    <3>6. CASE rows' = rows BY <3>6 DEF Partial
    <3> QED BY <3>1, <3>3, <3>4, <3>5, <3>6 DEF Moves, Arrives, Proceeds, Calm, Leaves, Sends
  <2>3. ASSUME NEW i \in Ids, PlaceOrder(i) \/ Claim(i) PROVE FALSE
    BY <2>3 DEF PlaceOrder, Claim
  <2> QED BY <2>2, <2>3 DEF Next
<1> QED BY <1>1, AlwaysWhole, PTL DEF Spec, PartialEdits

\* validate, insertChildren and normalize: an event has discounts or a bundle, a
\* voucher one of the two discounts, after any sequence of edits by anybody.
THEOREM ChildrenOfOneKind == Spec => []OneKindOfChildren
<1>1. Whole => OneKindOfChildren
  <2> SUFFICES ASSUME Whole, NEW i \in Existing("event") \cup Existing("voucher")
               PROVE  OneKind(rows[i].refs, rows[i].kind)
    BY DEF OneKindOfChildren, OneKind, KindOf
  <2>1. i \in Ids /\ rows[i].live /\ rows[i].res \in {"event", "voucher"} BY DEF Existing
  <2> QED BY <2>1 DEF Whole, Shape, RowFit
<1> QED BY <1>1, AlwaysWhole, PTL

-----------------------------------------------------------------------------
(* Names                                                                   *)

\* A name that a request has been promised: nobody has it, or two asked at once.
Promised(q) ==
  \A i \in Existing(q.res) \ {q.id} : rows[i].name = q.form.name => <<q.res, q.form.name>> \in crowded
Apart(p, q) == p.res = q.res /\ p.form.name = q.form.name => <<q.res, q.form.name>> \in crowded
NamesInv ==
  /\ NamesUnique
  /\ \A r \in Requests : Naming(req[r]) => Promised(req[r])
  /\ \A r, o \in Requests : r # o /\ Naming(req[r]) /\ Naming(req[o]) => Apart(req[r], req[o])

\* Two rows of the same name, told by what the table compares.
SameName(i, j) ==
  /\ rows[i].res \in Compared /\ rows[i].live /\ rows[j].live
  /\ rows[i].res = rows[j].res /\ rows[i].name = rows[j].name
Clash(i, j) == rows[i].res = "cashier" /\ rows[j].res = "cashier" /\ rows[i].name = rows[j].name

\* Names are unique row by row ...
LEMMA UniqueNames ==
  ASSUME rows \in [Ids -> Row]
  PROVE  NamesUnique <=>
           \A i, j \in Ids : i # j =>
             ~Clash(i, j) /\ (SameName(i, j) => <<rows[i].res, rows[i].name>> \in crowded)
<1>1. \A i \in Ids : rows[i].res \in Resources \cup {None} BY DEF Row
<1> QED BY <1>1 DEF NamesUnique, Clash, SameName, Compared, Resources, None

\* ... and after a step.
LEMMA NextUniqueNames ==
  ASSUME rows' \in [Ids -> Row],
         \A i, j \in Ids : i # j =>
           ~Clash(i, j)' /\ (SameName(i, j)' => <<rows'[i].res, rows'[i].name>> \in crowded')
  PROVE  NamesUnique'
<1>1. \A i \in Ids : rows'[i].res \in Resources \cup {None} BY DEF Row
<1> QED BY <1>1 DEF NamesUnique, Clash, SameName, Compared, Resources, None

\* What a request has been promised, after a step.
StillPromised(q) ==
  \A i \in Ids \ {q.id} :
    rows'[i].res = q.res /\ rows'[i].live /\ rows'[i].name = q.form.name
      => <<q.res, q.form.name>> \in crowded'

\* A step that leaves names, rows and promises as they are.
LEMMA NamesKept ==
  ASSUME Whole, NamesInv, rows' \in [Ids -> Row], crowded \subseteq crowded',
         \A i \in Ids : /\ rows'[i].res = rows[i].res /\ rows'[i].name = rows[i].name
                        /\ rows'[i].live => rows[i].live
  PROVE  /\ NamesUnique'
         /\ \A q : Promised(q) => StillPromised(q)
<1>1. rows \in [Ids -> Row] BY DEF Whole, TypeOK
<1>2. \A i, j \in Ids : i # j =>
        ~Clash(i, j)' /\ (SameName(i, j)' => <<rows'[i].res, rows'[i].name>> \in crowded')
  BY <1>1, UniqueNames DEF NamesInv, Clash, SameName
<1>3. NamesUnique' BY <1>2, NextUniqueNames
<1>4. \A q : Promised(q) => StillPromised(q) BY DEF Promised, StillPromised, Existing
<1> QED BY <1>3, <1>4

\* A write takes a name that its request was promised.
LEMMA NamesWritten ==
  ASSUME Whole, NamesInv, NEW r \in Requests, NEW q, Writes(r, q)
  PROVE  /\ NamesUnique'
         /\ \A o \in Requests \ {r} : Naming(req[o]) => StillPromised(req[o])
<1>1. rows \in [Ids -> Row] BY DEF Whole, TypeOK
<1>a. PICK n \in Ids : n = Id(r) BY WrittenRow
<1>b. req[r] \in Request BY DEF Whole, TypeOK
<1>c. PICK s \in Request : s = req[r] BY <1>b
<1>2. PICK row \in Row :
        /\ Draft(r, row) /\ s.res \in Resources
        /\ rows' \in [Ids -> Row] /\ rows'[n] = row
        /\ \A i \in Ids \ {n} : rows'[i] = rows[i]
        /\ crowded' = crowded
  BY <1>a, <1>c, WrittenRow
<1>3. row.res = s.res /\ row.name = s.form.name /\ row.live BY <1>2, <1>c DEF Draft, In
<1>4. s.res \in Compared => Naming(s) BY <1>c DEF Writes, Naming, Op
<1>5. s.res = "cashier" => \A i \in Ids \ {n} : rows[i].res = "cashier" => rows[i].name # s.form.name
  BY <1>a, <1>c DEF Writes, Indexed, In
<1>6. \A i \in Ids \ {n} : ~Clash(i, n)' /\ ~Clash(n, i)'
  BY <1>2, <1>3, <1>5 DEF Clash
<1>7. ASSUME NEW i \in Ids \ {n}, SameName(i, n)' \/ SameName(n, i)'
      PROVE  <<s.res, s.form.name>> \in crowded
  <2>1. rows[i].res = s.res /\ rows[i].live /\ rows[i].name = s.form.name /\ s.res \in Compared
    BY <1>2, <1>3, <1>7 DEF SameName
  <2>2. Promised(s) BY <1>4, <1>c, <2>1 DEF NamesInv
  <2> QED BY <1>a, <1>c, <2>1, <2>2 DEF Promised, Existing, Id
<1>8. \A i, j \in Ids \ {n} : (Clash(i, j)' <=> Clash(i, j)) /\ (SameName(i, j)' <=> SameName(i, j))
  BY <1>2 DEF Clash, SameName
<1>9. ASSUME NEW i \in Ids, NEW j \in Ids, i # j
      PROVE  ~Clash(i, j)' /\ (SameName(i, j)' => <<rows'[i].res, rows'[i].name>> \in crowded')
  <2>2. CASE i # n /\ j # n
    BY <1>1, <1>2, <1>8, <1>9, <2>2, UniqueNames DEF NamesInv
  <2>3. CASE i = n /\ j # n
    BY <1>2, <1>3, <1>6, <1>7, <2>3
  <2>4. CASE i # n /\ j = n
    <3>1. SameName(i, n)' => rows'[i].res = s.res /\ rows'[i].name = s.form.name
      BY <1>2, <1>3 DEF SameName
    <3> QED BY <1>2, <1>6, <1>7, <2>4, <3>1
  <2> QED BY <1>9, <2>2, <2>3, <2>4
<1>10. NamesUnique' BY <1>2, <1>9, NextUniqueNames
<1>11. ASSUME NEW o \in Requests \ {r}, Naming(req[o]), NEW i \in Ids \ {req[o].id},
              rows'[i].res = req[o].res, rows'[i].live, rows'[i].name = req[o].form.name
       PROVE  <<req[o].res, req[o].form.name>> \in crowded
  <2>1. CASE i # n
    BY <1>2, <1>11, <2>1 DEF NamesInv, Promised, Existing
  <2>2. CASE i = n
    <3>1. Naming(s) /\ s.res = req[o].res /\ s.form.name = req[o].form.name
      BY <1>2, <1>3, <1>4, <1>11, <2>2 DEF Naming
    <3> QED BY <1>c, <1>11, <3>1 DEF NamesInv, Apart
  <2> QED BY <2>1, <2>2
<1>12. \A o \in Requests \ {r} : Naming(req[o]) => StillPromised(req[o])
  BY <1>2, <1>11 DEF StillPromised
<1> QED BY <1>10, <1>12

\* What a step of r has to show for names.
LEMMA NamesFollow ==
  ASSUME Whole, NamesInv, NEW r \in Requests, NEW q \in Request, Turn(r, q),
         crowded \subseteq crowded', NamesUnique',
         \A o \in Requests \ {r} : Naming(req[o]) => StillPromised(req[o]),
         Naming(q) => StillPromised(q),
         \A o \in Requests \ {r} :
           Naming(q) /\ Naming(req[o]) /\ q.res = req[o].res /\ q.form.name = req[o].form.name
             => <<q.res, q.form.name>> \in crowded'
  PROVE  NamesInv'
<1>1. req \in [Requests -> Request] BY DEF Whole, TypeOK
<1>2. req'[r] = q /\ \A o \in Requests \ {r} : req'[o] = req[o] BY <1>1 DEF Turn
<1>3. \A o \in Requests : Naming(req'[o]) => StillPromised(req'[o]) BY <1>2
<1>4. \A o \in Requests : Naming(req'[o]) =>
        \A i \in Ids \ {req'[o].id} :
          rows'[i].res = req'[o].res /\ rows'[i].live /\ rows'[i].name = req'[o].form.name
            => <<req'[o].res, req'[o].form.name>> \in crowded'
  BY <1>3 DEF StillPromised
<1>5. \A p, o \in Requests : p # o /\ Naming(req'[p]) /\ Naming(req'[o]) =>
        (req'[p].res = req'[o].res /\ req'[p].form.name = req'[o].form.name
           => <<req'[p].res, req'[p].form.name>> \in crowded')
  BY <1>2 DEF NamesInv, Apart
<1>6. (\A o \in Requests : Naming(req[o]) => Promised(req[o]))'
  BY <1>4 DEF Promised, Existing, Naming
<1>7. (\A p, o \in Requests : p # o /\ Naming(req[p]) /\ Naming(req[o]) => Apart(req[p], req[o]))'
  BY <1>5 DEF Apart, Naming
<1> QED BY <1>6, <1>7 DEF NamesInv

\* Names and promises are kept by every step of a request.
LEMMA NamesServe ==
  ASSUME Whole, NamesInv, NEW r \in Requests, Serve(r)
  PROVE  NamesInv'
<1>1. rows \in [Ids -> Row] /\ req \in [Requests -> Request] /\ Shape BY DEF Whole, TypeOK
<1>2. PICK q \in Request : Turn(r, q) /\ Sane(r, q) /\ Moves(r, q) BY ServeMoves DEF Sane
<1>3. PICK s \in Request : s = req[r] BY <1>1
<1>4. CASE rows' = rows /\ crowded \subseteq crowded'
  <2>1. NamesUnique' /\ \A p : Promised(p) => StillPromised(p) BY <1>1, <1>4, NamesKept
  <2>2. \A o \in Requests \ {r} : Naming(req[o]) => StillPromised(req[o])
    BY <2>1 DEF NamesInv
  <2>3. CASE ~Naming(q) BY <1>2, <1>4, <2>1, <2>2, <2>3, NamesFollow
  <2>4. CASE Naming(s) /\ q.id = s.id /\ q.res = s.res /\ q.form = s.form
    <3>1. Promised(s) BY <1>3, <2>4 DEF NamesInv
    <3>2. StillPromised(q) BY <2>1, <2>4, <3>1 DEF StillPromised
    <3>3. \A o \in Requests \ {r} :
            Naming(req[o]) /\ q.res = req[o].res /\ q.form.name = req[o].form.name
              => <<q.res, q.form.name>> \in crowded'
      BY <1>3, <1>4, <2>4 DEF NamesInv, Apart
    <3> QED BY <1>2, <1>4, <2>1, <2>2, <3>2, <3>3, NamesFollow
  <2>5. CASE Naming(q) /\ ~Naming(s) /\ Proceeds(r, q)
    <3>1. /\ q.id = s.id /\ q.res = s.res /\ q.form = s.form /\ q.op = s.op
          /\ ~Taken(r)
          /\ (\E o \in Requests \ {r} : Named(o, q.res, q.form.name)) =>
               <<q.res, q.form.name>> \in crowded'
      BY <1>3, <2>5 DEF Proceeds, Looked, Request
    <3>2. \A i \in Ids \ {q.id} : rows[i].res = q.res /\ rows[i].live => rows[i].name # q.form.name
      BY <1>3, <3>1 DEF Taken, Existing, Id, In
    <3>3. StillPromised(q) BY <1>4, <3>2 DEF StillPromised
    <3>4. \A o \in Requests \ {r} :
            Naming(req[o]) /\ q.res = req[o].res /\ q.form.name = req[o].form.name
              => <<q.res, q.form.name>> \in crowded'
      BY <3>1 DEF Named, Naming, In
    <3> QED BY <1>2, <1>4, <2>1, <2>2, <3>3, <3>4, NamesFollow
  <2>6. CASE Naming(q) /\ Arrives(r, q)
    BY <2>6 DEF Arrives, Start, MayStart, Naming, Saving, Compared
  <2>7. CASE Naming(q) /\ (Leaves(r, q) \/ Writes(r, q) \/ Removes(r, q) \/ Sets(r, q))
    <3>1. q.at \in {"rereading", "dropping"} \/ q.op = None
      BY <1>1, <2>7, StatusRow, WrittenRow, RemovedRow DEF Leaves, After
    <3> QED BY <2>7, <3>1 DEF Naming, Saving, None
  <2>8. CASE Naming(q) /\ Sends(r, q)
    <3>1. q.id = s.id /\ q.res = s.res /\ q.form = s.form /\ q.op = s.op /\ s.at = "uploading"
      BY <1>3, <2>8 DEF Sends, Request
    <3> QED BY <2>4, <2>8, <3>1 DEF Naming
  <2>9. CASE Naming(q) /\ Naming(s) /\ Proceeds(r, q)
    <3>1. q.id = s.id /\ q.res = s.res /\ q.form = s.form
      BY <1>3, <2>9 DEF Proceeds, Request
    <3> QED BY <2>4, <2>9, <3>1
  <2> QED BY <1>2, <2>3, <2>5, <2>6, <2>7, <2>8, <2>9 DEF Moves
<1>5. CASE Writes(r, q)
  <2>1. NamesUnique' /\ \A o \in Requests \ {r} : Naming(req[o]) => StillPromised(req[o])
    BY <1>5, NamesWritten
  <2>2. ~Naming(q) /\ crowded' = crowded
    BY <1>5 DEF Writes, Naming, After
  <2> QED BY <1>2, <2>1, <2>2, NamesFollow
<1>6. CASE Removes(r, q)
  <2>1. PICK row \in Row :
        /\ Remains(r, row) /\ Id(r) \in Ids
        /\ rows' \in [Ids -> Row] /\ rows'[Id(r)] = row
        /\ \A i \in Ids \ {Id(r)} : rows'[i] = rows[i]
        /\ q.at = "dropping" /\ UNCHANGED crowded
        /\ rows[Id(r)].res = req[r].res
    BY <1>6, RemovedRow DEF Existing
  <2>2. \A i \in Ids : /\ rows'[i].res = rows[i].res /\ rows'[i].name = rows[i].name
                       /\ rows'[i].live => rows[i].live
    BY <2>1 DEF Remains
  <2>3. NamesUnique' /\ \A p : Promised(p) => StillPromised(p) BY <2>1, <2>2, NamesKept
  <2>4. \A o \in Requests \ {r} : Naming(req[o]) => StillPromised(req[o])
    BY <2>3 DEF NamesInv
  <2>5. ~Naming(q) BY <2>1 DEF Naming
  <2> QED BY <1>2, <2>1, <2>3, <2>4, <2>5, NamesFollow
<1>7. CASE Sets(r, q)
  <2>1. /\ rows' \in [Ids -> Row] /\ crowded' = crowded /\ q.op = None
        /\ \A i \in Ids : rows'[i].res = rows[i].res /\ rows'[i].live = rows[i].live
                          /\ rows'[i].name = rows[i].name
    BY <1>7, StatusRow
  <2>3. NamesUnique' /\ \A p : Promised(p) => StillPromised(p) BY <2>1, NamesKept
  <2>4. \A o \in Requests \ {r} : Naming(req[o]) => StillPromised(req[o])
    BY <2>3 DEF NamesInv
  <2>5. ~Naming(q) BY <2>1 DEF Naming, Saving, None
  <2> QED BY <1>2, <2>1, <2>3, <2>4, <2>5, NamesFollow
<1> QED BY <1>2, <1>4, <1>5, <1>6, <1>7
        DEF Moves, Arrives, Proceeds, Calm, Leaves, Sends

\* At the start there is one row of each resource, and no promise.
LEMMA NamesStart == Init => NamesInv
<1> SUFFICES ASSUME Init PROVE NamesInv OBVIOUS
<1>1. \A r \in Requests : ~Naming(req[r])
  BY DEF Init, NoRequest, Naming, Saving, None
<1>2. rows \in [Ids -> Row] BY InitWhole DEF Whole, TypeOK
<1>3. \A i, j \in Ids : rows[i].res = rows[j].res /\ rows[i].res # None => i = j
  <2>1. PICK shown \in SUBSET Resources :
          rows = [i \in Ids |-> IF i \in shown THEN FirstRow(i) ELSE NoRow]
    <3>1. PICK used \in BOOLEAN :
            rows = [i \in Ids |-> IF i \in Resources \ (IF used THEN {} ELSE {"product", "event", "shop", "review"})
                             THEN FirstRow(i) ELSE NoRow]
      BY DEF Init
    <3> QED BY <3>1
  <2>2. \A i \in Resources : FirstRow(i).res = i BY DEF FirstRow, NoRow
  <2>3. NoRow.res = None BY DEF NoRow
  <2> QED BY <2>1, <2>2, <2>3
<1>4. \A i, j \in Ids : i # j => ~Clash(i, j) /\ ~SameName(i, j)
  BY <1>3 DEF Clash, SameName, Compared, None
<1>5. NamesUnique BY <1>2, <1>4, UniqueNames
<1> QED BY <1>1, <1>5 DEF NamesInv

\* Names and promises are kept.
LEMMA NamesStep == Whole /\ NamesInv /\ [Next]_cvars => NamesInv'
<1> SUFFICES ASSUME Whole, NamesInv, [Next]_cvars PROVE NamesInv' OBVIOUS
<1>1. ASSUME NEW r \in Requests, Serve(r) PROVE NamesInv' BY <1>1, NamesServe
<1>2. CASE (\E i \in Ids : PlaceOrder(i) \/ Claim(i)) \/ UNCHANGED cvars
  <2>1. rows' = rows /\ req' = req /\ crowded \subseteq crowded'
    BY <1>2 DEF PlaceOrder, Claim, cvars, vars, history, overlaps
  <2>2. rows' \in [Ids -> Row] BY <2>1 DEF Whole, TypeOK
  <2>3. NamesUnique' /\ \A p : Promised(p) => StillPromised(p) BY <2>1, <2>2, NamesKept
  <2>4. \A r \in Requests : Naming(req[r]) => StillPromised(req[r]) BY <2>3 DEF NamesInv
  <2>5. (\A r \in Requests : Naming(req[r]) => Promised(req[r]))'
    BY <2>1, <2>4 DEF Promised, StillPromised, Existing, Naming
  <2>6. (\A p, o \in Requests : p # o /\ Naming(req[p]) /\ Naming(req[o]) => Apart(req[p], req[o]))'
    BY <2>1 DEF NamesInv, Apart, Naming
  <2> QED BY <2>3, <2>5, <2>6 DEF NamesInv
<1> QED BY <1>1, <1>2 DEF Next

\* checkName, and the index on the names of accounts: two live rows of a resource
\* share a name only if both were checked before either was written, and two
\* accounts never do.
THEOREM NamesStayUnique == Spec => []NamesUnique
<1>1. NamesInv => NamesUnique BY DEF NamesInv
<1> QED BY <1>1, NamesStart, NamesStep, AlwaysWhole, PTL DEF Spec

-----------------------------------------------------------------------------
(* What others need                                                        *)

Type == "type"
TypeCrowded == <<Type, Type>> \in crowded
Adopts(q) == q.res = "product" /\ q.op \in Saving /\ q.at \in {"uploading", "writing"}
Retires(q) == q.res = Type /\ q.op = "delete" /\ q.at \in {"finding", "writing"} /\ q.id = Type
\* A delete of a shop or a voucher that has already found nobody who needs it.
Closing(q) ==
  /\ q.op = "delete"
  /\ \/ q.res = "shop" /\ q.at \in {"finding", "writing"}
     \/ q.res = "voucher" /\ q.at = "writing"

TypeNeeded ==
  \/ TypeCrowded
  \/ /\ InUse(Type) => Type \in Existing(Type)
     /\ \A r \in Requests : Adopts(req[r]) => Type \in Existing(Type)
     /\ \A r \in Requests : Retires(req[r]) =>
          ~InUse(Type) /\ \A o \in Requests : ~Adopts(req[o])
OrderNeeded ==
  /\ \A i \in ordered : rows[i].res \in {"shop", "voucher"}
  /\ \A i \in ordered : rows[i].live \/ <<rows[i].res, i>> \in crowded
  /\ \A r \in Requests : Closing(req[r]) /\ req[r].id \in ordered =>
       <<req[r].res, req[r].id>> \in crowded
NeededInv == TypeNeeded /\ OrderNeeded

\* What is kept for types and orders is what was asked.
LEMMA NeededSuffices == Whole /\ NeededInv => NeededStays
<1> SUFFICES ASSUME Whole, NeededInv PROVE NeededStays OBVIOUS
<1>1. ASSUME NEW p \in Existing("product"), NEW ref \in rows[p].refs
      PROVE  ref[2] \in Existing("type") \/ ref \in crowded
  <2>1. rows[p].refs = TypeRef BY DEF Existing, Whole, Shape, RowFit, RefsFit
  <2>2. InUse(Type) BY <2>1 DEF InUse, TypeRef, Type
  <2>3. ref = <<Type, Type>> /\ ref[2] = Type BY <1>1, <2>1 DEF TypeRef, Type
  <2> QED BY <2>2, <2>3 DEF NeededInv, TypeNeeded, TypeCrowded, Type
<1> QED BY <1>1 DEF NeededStays, NeededInv, OrderNeeded

\* What one step may do to a row: nobody takes it over, and only a delete
\* takes it away.
LEMMA RowsMove ==
  ASSUME Whole, NEW r \in Requests, NEW q \in Request, Moves(r, q)
  PROVE  /\ \A i \in Ids : rows[i].res # None => rows'[i].res = rows[i].res
         /\ \A i \in Ids : rows[i].live /\ ~rows'[i].live => Removes(r, q) /\ i = Id(r)
         /\ \A i \in Ids : rows'[i].live =>
              rows'[i] = rows[i] \/ Sets(r, q) \/ (Writes(r, q) /\ i = Id(r))
         /\ crowded \subseteq crowded'
<1>0. crowded \subseteq crowded'
  BY StatusRow, RemovedRow, WrittenRow
  DEF Moves, Arrives, Proceeds, Leaves, Sends
<1>1. CASE rows' = rows
  BY <1>0, <1>1
<1>2. CASE Writes(r, q)
  <2>1. PICK row \in Row :
          /\ row.res = req[r].res /\ row.live /\ rows'[Id(r)] = row
          /\ \A i \in Ids \ {Id(r)} : rows'[i] = rows[i]
          /\ Op(r) = "edit" => rows[Id(r)].res = req[r].res
          /\ Op(r) = "create" => rows[Id(r)] = NoRow
    BY <1>2, WrittenRow DEF Draft
  <2>2. Op(r) \in {"create", "edit"} BY <1>2 DEF Writes, Saving
  <2>3. NoRow.res = None BY DEF NoRow
  <2>4. \A i \in Ids : rows[i].res # None => rows'[i].res = rows[i].res
    BY <2>1, <2>2, <2>3
  <2>5. \A i \in Ids : rows[i].live /\ ~rows'[i].live => FALSE
    BY <2>1
  <2>6. \A i \in Ids : rows'[i] = rows[i] \/ i = Id(r) BY <2>1
  <2> QED BY <1>0, <1>2, <2>4, <2>5, <2>6
<1>3. CASE Removes(r, q)
  <2>1. PICK row \in Row :
          /\ row.res = req[r].res /\ ~row.live /\ rows'[Id(r)] = row
          /\ \A i \in Ids \ {Id(r)} : rows'[i] = rows[i]
          /\ rows[Id(r)].res = req[r].res
    BY <1>3, RemovedRow DEF Remains, Existing
  <2> QED BY <1>0, <1>3, <2>1
<1>4. CASE Sets(r, q)
  BY <1>0, <1>4, StatusRow
<1> QED BY <1>1, <1>2, <1>3, <1>4 DEF Moves, Arrives, Proceeds, Calm, Leaves, Sends

\* Before a product is saved its type is looked at, and before a type goes its products.
LEMMA AdoptsOrRetires ==
  ASSUME Whole, NEW r \in Requests, NEW q \in Request, Moves(r, q), Sane(r, q)
  PROVE  /\ Adopts(q) => \/ Adopts(req[r])
                         \/ /\ Type \in Existing(Type) /\ rows' = rows
                            /\ (\E o \in Requests : Retires(req[o])) => TypeCrowded'
         /\ Retires(q) => \/ Retires(req[r])
                          \/ /\ ~InUse(Type) /\ rows' = rows
                             /\ (\E o \in Requests : Adopts(req[o])) => TypeCrowded'
         /\ Closing(q) => \/ Closing(req[r]) /\ req[r].id = q.id /\ req[r].res = q.res
                          \/ q.id \notin ordered
<1>1. req[r] \in Request /\ Shape BY DEF Whole, TypeOK
<1>a. PICK s \in Request : s = req[r] BY <1>1
<1>2. CASE Arrives(r, q)
  BY <1>2 DEF Arrives, Start, MayStart, Adopts, Retires, Closing, Saving, Type
<1>3. CASE Proceeds(r, q)
  <2>1. /\ q.res = s.res /\ q.op = s.op /\ q.id = s.id
        /\ q.at \in {"finding", "checking", "referring", "clearing", "uploading", "writing"}
        /\ s.at \in Early
        /\ Looked(r, q) /\ rows' = rows
    BY <1>a, <1>3 DEF Proceeds, Request, Calm
  <2>2. \A o \in Requests : Retires(req[o]) => Retiring(o, "type")
    BY DEF Retires, Retiring, At, Op, Id, Type
  <2>3. \A o \in Requests : Adopts(req[o]) => Adopting(o, "type")
    <3>1. TAKE o \in Requests
    <3>2. HAVE Adopts(req[o])
    <3>3. Pending(req[o]) /\ Sane(o, req[o])
      BY <1>1, <3>2 DEF Shape, Adopts, Pending, After
    <3>4. In(o).refs = TypeRef
      BY <3>2, <3>3 DEF Sane, FormFits, FormFit, RefsFit, Adopts, In
    <3> QED BY <3>2, <3>4 DEF Adopts, Adopting, At, TypeRef
  <2>4. Adopts(q) => /\ Type \in Existing(Type) /\ rows' = rows
                     /\ (\E o \in Requests : Retires(req[o])) => TypeCrowded'
    BY <2>1, <2>2 DEF Looked, Adopts, TypeCrowded, Type
  <2>5. ASSUME Retires(q), ~Retires(s)
        PROVE  ~InUse(Type) /\ ((\E o \in Requests : Adopts(req[o])) => TypeCrowded')
    <3>1. s.at = "guarding" BY <2>1, <2>5, <1>a DEF Looked, Retires, Type
    <3> QED BY <1>a, <2>1, <2>3, <2>5, <3>1 DEF Looked, Retires, TypeCrowded, Type
  <2>6. ASSUME Closing(q), ~Closing(s) PROVE q.id \notin ordered
    <3>1. s.at = "guarding" BY <2>1, <2>6, <1>a DEF Looked, Closing
    <3> QED BY <1>a, <2>1, <2>6, <3>1 DEF Looked, Closing
  <2> QED BY <1>a, <2>1, <2>4, <2>5, <2>6
<1>4. CASE Sends(r, q)
  <2>1. q.res = s.res /\ q.op = s.op /\ q.id = s.id /\ s.at = "uploading" /\ s.op \in Saving
    BY <1>a, <1>4 DEF Sends, Request, Op
  <2> QED BY <1>a, <2>1 DEF Adopts, Retires, Closing, Saving
<1>5. CASE Leaves(r, q) \/ Writes(r, q) \/ Removes(r, q) \/ Sets(r, q)
  <2>1. q.at \in {"rereading", "dropping"} \/ q.op = None
    BY <1>5, StatusRow, WrittenRow, RemovedRow DEF Leaves, After
  <2> QED BY <2>1 DEF Adopts, Retires, Closing, Saving, None
<1> QED BY <1>2, <1>3, <1>4, <1>5 DEF Moves

\* A type that products need is kept by every step of a request.
LEMMA TypeServe ==
  ASSUME Whole, TypeNeeded, NEW r \in Requests, NEW q \in Request,
         Turn(r, q), Moves(r, q), Sane(r, q)
  PROVE  TypeNeeded'
<1>1. req \in [Requests -> Request] /\ rows \in [Ids -> Row] BY DEF Whole, TypeOK
<1>2. req'[r] = q /\ \A o \in Requests \ {r} : req'[o] = req[o] BY <1>1 DEF Turn
<1>3. /\ \A i \in Ids : rows[i].res # None => rows'[i].res = rows[i].res
      /\ \A i \in Ids : rows[i].live /\ ~rows'[i].live => Removes(r, q) /\ i = Id(r)
      /\ \A i \in Ids : rows'[i].live =>
           rows'[i] = rows[i] \/ Sets(r, q) \/ (Writes(r, q) /\ i = Id(r))
      /\ crowded \subseteq crowded'
  BY RowsMove
<1> SUFFICES ASSUME ~TypeCrowded', ~TypeCrowded PROVE TypeNeeded'
  BY <1>3 DEF TypeNeeded, TypeCrowded
<1>4. /\ InUse(Type) => Type \in Existing(Type)
      /\ \A o \in Requests : Adopts(req[o]) => Type \in Existing(Type)
      /\ \A o \in Requests : Retires(req[o]) =>
           ~InUse(Type) /\ \A p \in Requests : ~Adopts(req[p])
  BY DEF TypeNeeded
<1>5. Type \in Existing(Type) => Type \in Existing(Type)' \/ (Removes(r, q) /\ Retires(req[r]))
  <2>1. SUFFICES ASSUME Type \in Existing(Type), ~(Type \in Existing(Type)')
                 PROVE  Removes(r, q) /\ Retires(req[r])
    OBVIOUS
  <2>2. Type \in Ids /\ rows[Type].res = Type /\ rows[Type].live BY <2>1 DEF Existing
  <2>3. rows'[Type].res = Type BY <1>3, <2>2 DEF Type, None
  <2>4. ~rows'[Type].live BY <2>1, <2>2, <2>3 DEF Existing
  <2>5. Removes(r, q) /\ Type = Id(r) BY <1>3, <2>2, <2>4
  <2>6. req[r].res = Type BY <2>2, <2>5 DEF Removes, Existing
  <2> QED BY <2>5, <2>6 DEF Removes, Retires, Op, Id
<1>6. InUse(Type)' => InUse(Type) \/ (Writes(r, q) /\ Adopts(req[r]))
  <2>1. SUFFICES ASSUME InUse(Type)' PROVE InUse(Type) \/ (Writes(r, q) /\ Adopts(req[r]))
    OBVIOUS
  <2>2. PICK p \in Ids : rows'[p].res = "product" /\ rows'[p].live /\ <<"type", Type>> \in rows'[p].refs
    BY <2>1 DEF InUse, Existing
  <2>3. CASE rows'[p] = rows[p] BY <2>2, <2>3 DEF InUse, Existing
  <2>4. CASE Sets(r, q)
    <3>1. rows[p].res = "product" /\ rows[p].live /\ <<"type", Type>> \in rows[p].refs
      BY <2>2, <2>4, StatusRow
    <3> QED BY <3>1 DEF InUse, Existing
  <2>5. CASE Writes(r, q) /\ p = Id(r)
    <3>1. req[r].res = "product" BY <2>2, <2>5, WrittenRow DEF Draft
    <3> QED BY <2>5, <3>1 DEF Writes, Adopts, Op
  <2> QED BY <1>3, <2>2, <2>3, <2>4, <2>5
<1>7. /\ Adopts(q) => \/ Adopts(req[r])
                      \/ /\ Type \in Existing(Type) /\ rows' = rows
                         /\ ~\E o \in Requests : Retires(req[o])
      /\ Retires(q) => \/ Retires(req[r])
                       \/ /\ ~InUse(Type) /\ rows' = rows
                          /\ ~\E o \in Requests : Adopts(req[o])
  BY AdoptsOrRetires
<1>8. CASE rows' = rows
  <2>1. (InUse(Type)' <=> InUse(Type)) /\ (Type \in Existing(Type)' <=> Type \in Existing(Type))
    BY <1>8 DEF InUse, Existing
  <2>2. \A o \in Requests : Adopts(req'[o]) => Type \in Existing(Type)
    BY <1>2, <1>4, <1>7
  <2>3. \A o \in Requests : Retires(req'[o]) =>
          ~InUse(Type) /\ \A p \in Requests : ~Adopts(req'[p])
    <3>1. TAKE o \in Requests
    <3>2. HAVE Retires(req'[o])
    <3>3. ~InUse(Type) /\ \A p \in Requests : ~Adopts(req[p])
      BY <1>2, <1>4, <1>7, <3>2
    <3>4. ~Adopts(q)
      <4>1. CASE o = r
        BY <1>2, <3>2, <4>1 DEF Retires, Adopts, Type
      <4>2. CASE o # r
        BY <1>2, <1>7, <3>2, <3>3, <4>2
      <4> QED BY <4>1, <4>2
    <3> QED BY <1>2, <3>3, <3>4
  <2>4. (\A o \in Requests : Adopts(req[o]) => Type \in Existing(Type))'
    BY <2>1, <2>2 DEF Adopts
  <2>5. (\A o \in Requests : Retires(req[o]) => ~InUse(Type) /\ \A p \in Requests : ~Adopts(req[p]))'
    BY <2>1, <2>3 DEF Adopts, Retires
  <2> QED BY <1>4, <2>1, <2>4, <2>5 DEF TypeNeeded
<1>9. CASE rows' # rows
  <2>1. Writes(r, q) \/ Removes(r, q) \/ Sets(r, q)
    BY <1>9 DEF Moves, Arrives, Proceeds, Calm, Leaves, Sends
  <2>2. ~Adopts(q) /\ ~Retires(q) BY <1>7, <1>9, <2>1, StatusRow, WrittenRow, RemovedRow
    DEF Adopts, Retires, After, Saving, None
  <2>3. \A o \in Requests : /\ Adopts(req'[o]) => Adopts(req[o])
                            /\ Retires(req'[o]) => Retires(req[o])
    BY <1>2, <2>2
  <2>4. CASE Type \in Existing(Type) /\ ~(Type \in Existing(Type)')
    <3>1. Retires(req[r]) /\ Removes(r, q) BY <1>5, <2>4
    <3>2. ~InUse(Type) /\ \A o \in Requests : ~Adopts(req[o]) BY <1>4, <3>1
    <3>3. ~InUse(Type)' BY <1>6, <3>2
    <3>4. (\A o \in Requests : ~Adopts(req[o]))' BY <2>3, <3>2
    <3> QED BY <3>3, <3>4 DEF TypeNeeded
  <2>5. CASE Type \in Existing(Type) => Type \in Existing(Type)'
    <3>1. InUse(Type)' => Type \in Existing(Type)' BY <1>4, <1>6, <2>5
    <3>2. (\A o \in Requests : Adopts(req[o]) => Type \in Existing(Type))'
      BY <1>4, <2>3, <2>5 DEF Adopts
    <3>3. (\A o \in Requests : Retires(req[o]) => ~InUse(Type) /\ \A p \in Requests : ~Adopts(req[p]))'
      <4>1. ASSUME NEW o \in Requests, Retires(req'[o])
            PROVE  ~InUse(Type)' /\ \A p \in Requests : ~Adopts(req'[p])
        BY <1>4, <1>6, <2>3, <4>1
      <4> QED BY <4>1 DEF Adopts, Retires
    <3> QED BY <3>1, <3>2, <3>3 DEF TypeNeeded
  <2> QED BY <2>4, <2>5
<1> QED BY <1>8, <1>9

\* So is what orders and wallets need.
LEMMA OrderServe ==
  ASSUME Whole, OrderNeeded, NEW r \in Requests, NEW q \in Request,
         Turn(r, q), Moves(r, q), Sane(r, q), ordered' = ordered
  PROVE  OrderNeeded'
<1>1. req \in [Requests -> Request] /\ rows \in [Ids -> Row] /\ ordered \subseteq Ids
  BY DEF Whole, TypeOK
<1>2. req'[r] = q /\ \A o \in Requests \ {r} : req'[o] = req[o] BY <1>1 DEF Turn
<1>3. /\ \A i \in Ids : rows[i].res # None => rows'[i].res = rows[i].res
      /\ \A i \in Ids : rows[i].live /\ ~rows'[i].live => Removes(r, q) /\ i = Id(r)
      /\ crowded \subseteq crowded'
  BY RowsMove
<1>4. \A i \in ordered : rows'[i].res = rows[i].res /\ rows[i].res \in {"shop", "voucher"}
  BY <1>1, <1>3 DEF OrderNeeded, None
<1>5. ASSUME NEW i \in ordered, ~rows'[i].live PROVE <<rows[i].res, i>> \in crowded'
  <2>1. CASE ~rows[i].live BY <1>3, <2>1 DEF OrderNeeded
  <2>2. CASE rows[i].live
    <3>1. Removes(r, q) /\ i = Id(r) BY <1>1, <1>3, <1>5, <2>2
    <3>2. req[r].res = rows[i].res BY <3>1 DEF Removes, Existing
    <3>3. Closing(req[r]) /\ req[r].id = i
      BY <1>4, <3>1, <3>2 DEF Removes, Closing, Op, Id
    <3> QED BY <1>3, <3>2, <3>3 DEF OrderNeeded
  <2> QED BY <2>1, <2>2
<1>6. Closing(q) => \/ Closing(req[r]) /\ req[r].id = q.id /\ req[r].res = q.res
                    \/ q.id \notin ordered
  BY AdoptsOrRetires
<1>7. \A o \in Requests : Closing(req'[o]) /\ req'[o].id \in ordered =>
        <<req'[o].res, req'[o].id>> \in crowded'
  BY <1>2, <1>3, <1>6 DEF OrderNeeded
<1>8. (\A o \in Requests : Closing(req[o]) /\ req[o].id \in ordered =>
        <<req[o].res, req[o].id>> \in crowded)'
  BY <1>7 DEF Closing
<1> QED BY <1>4, <1>5, <1>8 DEF OrderNeeded

\* At the start the type is there and nobody has ordered.
LEMMA NeededStart == Init => NeededInv
<1> SUFFICES ASSUME Init PROVE NeededInv OBVIOUS
<1>1. ordered = {} /\ \A r \in Requests : req[r].op = None
  BY DEF Init, NoRequest
<1>2. \A r \in Requests : ~Adopts(req[r]) /\ ~Retires(req[r]) /\ ~Closing(req[r])
  BY <1>1 DEF Adopts, Retires, Closing, Saving, None
<1>3. Type \in Existing(Type)
  <2>1. rows[Type] = FirstRow(Type)
    BY DEF Init, Ids, Resources, Type
  <2>2. FirstRow(Type).res = Type /\ FirstRow(Type).live BY DEF FirstRow, NoRow
  <2> QED BY <2>1, <2>2 DEF Existing, Ids, Resources, Type
<1> QED BY <1>1, <1>2, <1>3 DEF NeededInv, TypeNeeded, OrderNeeded

\* A customer comes: what is needed from now on is there, and a delete that has
\* looked already is told.
LEMMA CustomerStep ==
  ASSUME Whole, NeededInv, NEW i \in Ids, PlaceOrder(i) \/ Claim(i)
  PROVE  NeededInv'
<1>1. /\ rows' = rows /\ req' = req /\ crowded \subseteq crowded' /\ ordered' = ordered \cup {i}
      /\ i \in Existing("shop") \/ i \in Existing("voucher")
  BY DEF PlaceOrder, Claim
<1>2. ASSUME NEW r \in Requests, Closing(req[r]), req[r].id = i
      PROVE  <<req[r].res, i>> \in crowded'
  <2>1. req[r].res = rows[i].res
    BY <1>2 DEF Whole, Shape, Fits, Closing
  <2>2. CASE PlaceOrder(i)
    <3>1. req[r].res = "shop" BY <2>1, <2>2 DEF PlaceOrder, Existing
    <3>2. At(r, "shop", "finding") \/ At(r, "shop", "writing") BY <1>2, <3>1 DEF Closing, At
    <3> QED BY <1>2, <2>2, <3>1, <3>2 DEF PlaceOrder, Closing, Op, Id
  <2>3. CASE Claim(i)
    <3>1. req[r].res = "voucher" BY <2>1, <2>3 DEF Claim, Existing
    <3>2. At(r, "voucher", "writing") BY <1>2, <3>1 DEF Closing, At
    <3> QED BY <1>2, <2>3, <3>1, <3>2 DEF Claim, Closing, Op, Id
  <2> QED BY <2>2, <2>3
<1>3. OrderNeeded'
  BY <1>1, <1>2 DEF NeededInv, OrderNeeded, Existing, Closing
<1>4. TypeNeeded'
  BY <1>1 DEF NeededInv, TypeNeeded, TypeCrowded, InUse, Existing, Adopts, Retires
<1> QED BY <1>3, <1>4 DEF NeededInv

\* What is needed is kept.
LEMMA NeededStep == Whole /\ NeededInv /\ [Next]_cvars => NeededInv'
<1> SUFFICES ASSUME Whole, NeededInv, [Next]_cvars PROVE NeededInv' OBVIOUS
<1>1. ASSUME NEW r \in Requests, Serve(r), ordered' = ordered PROVE NeededInv'
  <2>1. PICK q \in Request : Turn(r, q) /\ Sane(r, q) /\ Moves(r, q)
    BY <1>1, ServeMoves
  <2> QED BY <1>1, <2>1, TypeServe, OrderServe DEF NeededInv
<1>2. ASSUME NEW i \in Ids, PlaceOrder(i) \/ Claim(i) PROVE NeededInv'
  BY <1>2, CustomerStep
<1>3. CASE UNCHANGED cvars
  BY <1>3 DEF cvars, vars, history, overlaps, NeededInv, TypeNeeded, OrderNeeded, TypeCrowded,
              InUse, Existing, Adopts, Retires, Closing
<1> QED BY <1>1, <1>2, <1>3 DEF Next

\* InUse, HasOrders and Claimed: the type of a product, the shop of an order and
\* the voucher in a wallet stay, unless who needs them came after the delete had looked.
THEOREM NeededIsKept == Spec => []NeededStays
<1> QED BY NeededSuffices, NeededStart, NeededStep, AlwaysWhole, PTL DEF Spec

-----------------------------------------------------------------------------
(* What a delete leaves                                                    *)

Bare(row) == row.gallery = {} /\ (row.refs = {} \/ row.res = "product")
\* A delete about to write has seen all there is to clear.
Cleared(q) ==
  q.op = "delete" /\ q.at = "writing" /\ q.id \notin contested =>
    /\ q.res = "product" => rows[q.id].gallery \subseteq q.saw
    /\ q.res = "event" => rows[q.id].refs \subseteq q.saw
OutlivesInv ==
  /\ \A i \in Ids : ~rows[i].live /\ rows[i].res \in {"product", "event", "shop"} =>
       Bare(rows[i]) \/ i \in contested
  /\ \A r \in Requests : Cleared(req[r])

\* Only a shop assigns staff, and a deleted one has none.
LEMMA OutlivesSuffices == Whole /\ OutlivesInv => NothingOutlives
<1> SUFFICES ASSUME Whole, OutlivesInv PROVE NothingOutlives OBVIOUS
<1>1. ASSUME NEW i \in Ids, NEW staff \in Ids, AssignedShopProducts(staff, i) # {}
      PROVE  i \in Existing("shop")
  <2>1. <<"staff", staff>> \in rows[i].refs BY <1>1 DEF AssignedShopProducts
  <2>2. RowFit(i, rows[i]) BY DEF Whole, Shape
  <2>3. rows[i].res = "shop"
    <3>1. <<"staff", staff>>[1] = "staff" OBVIOUS
    <3> QED BY <2>1, <2>2, <3>1 DEF RowFit, RefsFit
  <2>4. rows[i].live
    <3>1. rows[i].live \in BOOLEAN BY <2>2 DEF RowFit, Row
    <3> QED BY <2>1, <2>2, <2>3, <3>1 DEF RowFit
  <2> QED BY <2>3, <2>4 DEF Existing
<1>2. Existing("review") \subseteq ReviewsListed(None)
  BY DEF Existing, ReviewsListed
<1> QED BY <1>1, <1>2 DEF NothingOutlives, OutlivesInv, Bare

\* Whoever writes a row that another request is about to write says so.
LEMMA Contested ==
  ASSUME Whole, NEW r \in Requests, NEW q, Writes(r, q) \/ Removes(r, q),
         NEW o \in Requests, o # r, req[o].at \in Writers, req[o].id = Id(r)
  PROVE  Id(r) \in contested'
<1>1. Contest(r) BY DEF Writes, Removes
<1> QED BY <1>1 DEF Contest, Id

\* A row once contested stays so.
LEMMA ContestedGrows ==
  ASSUME Whole, NEW r \in Requests, NEW q \in Request, Moves(r, q)
  PROVE  contested \subseteq contested'
BY StatusRow, RemovedRow, WrittenRow DEF Moves, Arrives, Proceeds, Calm, Leaves, Sends

\* A delete clears what it saw, and it saw everything unless it was contested.
LEMMA OutlivesServe ==
  ASSUME Whole, OutlivesInv, NEW r \in Requests, NEW q \in Request,
         Turn(r, q), Moves(r, q), Sane(r, q)
  PROVE  OutlivesInv'
<1>1. req \in [Requests -> Request] /\ rows \in [Ids -> Row] /\ Shape BY DEF Whole, TypeOK
<1>2. req'[r] = q /\ \A o \in Requests \ {r} : req'[o] = req[o] BY <1>1 DEF Turn
<1>3. contested \subseteq contested' BY ContestedGrows
<1>4. ASSUME NEW i \in Ids, ~rows'[i].live, rows'[i].res \in {"product", "event", "shop"},
             i \notin contested'
      PROVE  Bare(rows'[i])
  <2>1. CASE rows'[i] = rows[i] BY <1>3, <1>4, <2>1 DEF OutlivesInv
  <2>2. CASE Sets(r, q)
    <3>1. /\ rows'[i].res = rows[i].res /\ rows'[i].live = rows[i].live
          /\ rows'[i].gallery = rows[i].gallery /\ rows'[i].refs = rows[i].refs
      BY <2>2, StatusRow
    <3> QED BY <1>3, <1>4, <3>1 DEF OutlivesInv, Bare
  <2>3. CASE Writes(r, q) /\ i = Id(r)
    BY <1>4, <2>3, WrittenRow DEF Draft
  <2>4. CASE Removes(r, q) /\ i = Id(r)
    <3>1. PICK row \in Row : Remains(r, row) /\ rows'[i] = row /\ rows[i].res = req[r].res
      BY <2>4, RemovedRow DEF Existing
    <3>2. Cleared(req[r]) /\ RowFit(i, rows[i]) BY <1>1, <1>4 DEF OutlivesInv, Shape
    <3>3. /\ row.res = "product" => row.gallery = {}
          /\ row.res = "event" => row.refs = {} /\ row.gallery = {}
          /\ row.res = "shop" => row.refs = {} /\ row.gallery = {}
      <4>1. /\ req[r].res = "product" => rows[i].gallery \subseteq req[r].saw
            /\ req[r].res = "event" => rows[i].refs \subseteq req[r].saw
        BY <1>3, <1>4, <2>4, <3>2 DEF Cleared, Removes, Op, Id
      <4>2. req[r].res = "event" => rows[i].gallery = {}
        BY <3>1, <3>2 DEF RowFit, Galleried
      <4> QED BY <2>4, <3>1, <4>1, <4>2 DEF Remains
    <3> QED BY <1>4, <3>1, <3>3 DEF Bare
  <2>5. rows'[i] = rows[i] \/ Sets(r, q) \/ (Writes(r, q) /\ i = Id(r)) \/ (Removes(r, q) /\ i = Id(r))
    <3>1. CASE rows' = rows BY <3>1
    <3>2. CASE Writes(r, q) BY <3>2, WrittenRow
    <3>3. CASE Removes(r, q) BY <3>3, RemovedRow
    <3> QED BY <3>1, <3>2, <3>3 DEF Moves, Arrives, Proceeds, Calm, Leaves, Sends
  <2> QED BY <2>1, <2>2, <2>3, <2>4, <2>5
<1>5. ASSUME NEW o \in Requests, req'[o].op = "delete", req'[o].at = "writing",
             req'[o].id \notin contested'
      PROVE  /\ req'[o].res = "product" => rows'[req'[o].id].gallery \subseteq req'[o].saw
             /\ req'[o].res = "event" => rows'[req'[o].id].refs \subseteq req'[o].saw
  <2>1. CASE o # r
    <3>1. req'[o] = req[o] /\ Cleared(req[o]) BY <1>2, <2>1 DEF OutlivesInv
    <3>2. req[o].id \in Ids BY <1>1, <1>5, <3>1 DEF Shape, Sane, PathFits, None
    <3>3. ~(Writes(r, q) /\ req[o].id = Id(r)) /\ ~(Removes(r, q) /\ req[o].id = Id(r))
      BY <1>5, <2>1, <3>1, Contested DEF Writers
    <3>4. /\ rows'[req[o].id].gallery = rows[req[o].id].gallery
          /\ rows'[req[o].id].refs = rows[req[o].id].refs
      <4>1. CASE rows' = rows BY <4>1
      <4>2. CASE Writes(r, q) BY <3>2, <3>3, <4>2, WrittenRow
      <4>3. CASE Removes(r, q) BY <3>2, <3>3, <4>3, RemovedRow
      <4>4. CASE Sets(r, q) BY <3>2, <4>4, StatusRow
      <4> QED BY <4>1, <4>2, <4>3, <4>4 DEF Moves, Arrives, Proceeds, Calm, Leaves, Sends
    <3> QED BY <1>3, <1>5, <3>1, <3>4 DEF Cleared
  <2>2. CASE o = r
    <3>1. q.op = "delete" /\ q.at = "writing" /\ q.op # None BY <1>2, <1>5, <2>2 DEF None
    <3>2. ~Writes(r, q) /\ ~Removes(r, q) /\ ~Sets(r, q) /\ ~Leaves(r, q)
      BY <3>1, WrittenRow, RemovedRow, StatusRow DEF After, Leaves
    <3>3. ~Sends(r, q)
      <4>1. req[r] \in Request BY <1>1
      <4> QED BY <3>1, <4>1 DEF Sends, Saving, Op, Request
    <3>4. CASE Proceeds(r, q)
      <4>1. /\ q.res = "product" => q.saw = rows[q.id].gallery
            /\ q.res = "event" => q.saw = rows[q.id].refs
            /\ rows' = rows
        BY <3>1, <3>4 DEF Proceeds, Looked, Calm
      <4> QED BY <1>2, <2>2, <4>1
    <3>5. CASE Arrives(r, q)
      <4>1. q.res = "review" BY <3>1, <3>5 DEF Arrives, Start, MayStart
      <4> QED BY <1>2, <2>2, <4>1
    <3> QED BY <3>2, <3>3, <3>4, <3>5 DEF Moves
  <2> QED BY <2>1, <2>2
<1>6. (\A o \in Requests : Cleared(req[o]))' BY <1>5 DEF Cleared
<1>7. (\A i \in Ids : ~rows[i].live /\ rows[i].res \in {"product", "event", "shop"} =>
         Bare(rows[i]) \/ i \in contested)'
  BY <1>4 DEF Bare
<1> QED BY <1>6, <1>7 DEF OutlivesInv

\* Delete of products, events and shops: galleries, children and staff go with
\* the row, unless an edit of it committed while the delete was writing.
THEOREM NothingIsOutlived == Spec => []NothingOutlives
<1>1. Init => OutlivesInv
  <2> SUFFICES ASSUME Init PROVE OutlivesInv OBVIOUS
  <2>1. \A r \in Requests : req[r].op = None BY DEF Init, NoRequest
  <2>2. ASSUME NEW i \in Ids, ~rows[i].live PROVE rows[i].res = None
    <3>1. rows[i] = FirstRow(i) \/ rows[i] = NoRow BY DEF Init
    <3>2. FirstRow(i).live /\ NoRow.res = None BY DEF FirstRow, NoRow
    <3> QED BY <2>2, <3>1, <3>2
  <2> QED BY <2>1, <2>2 DEF OutlivesInv, Cleared, None
<1>2. Whole /\ OutlivesInv /\ [Next]_cvars => OutlivesInv'
  <2> SUFFICES ASSUME Whole, OutlivesInv, [Next]_cvars PROVE OutlivesInv' OBVIOUS
  <2>1. ASSUME NEW r \in Requests, Serve(r) PROVE OutlivesInv'
    <3>1. PICK q \in Request : Turn(r, q) /\ Sane(r, q) /\ Moves(r, q)
      BY <2>1, ServeMoves
    <3> QED BY <3>1, OutlivesServe
  <2>2. CASE (\E i \in Ids : PlaceOrder(i) \/ Claim(i)) \/ UNCHANGED cvars
    <3>1. rows' = rows /\ req' = req /\ contested' = contested
      BY <2>2 DEF PlaceOrder, Claim, cvars, vars, history, overlaps
    <3> QED BY <3>1 DEF OutlivesInv, Bare, Cleared
  <2> QED BY <2>1, <2>2 DEF Next
<1> QED BY <1>1, <1>2, OutlivesSuffices, AlwaysWhole, PTL DEF Spec

-----------------------------------------------------------------------------
(* Pictures: what a step does to those that are stored                     *)

Stores(r, q) ==
  /\ req[r].at = "uploading" /\ q.at \in {"uploading", "writing"} /\ Op(r) \in Saving
  /\ q = [req[r] EXCEPT !.at = q.at, !.new = q.new]
  /\ \E p \in Pictures : q.new = req[r].new \cup {p} /\ stored' = stored \cup {p}
  /\ UNCHANGED <<rows, leaked, contested, blamed>>

\* A request gives up, whatever the reason; the provider may have kept what it
\* was sent last.
Fails(r, q) ==
  /\ q = Ending(r)
  /\ UNCHANGED <<rows, contested>>
  /\ \E lost \in SUBSET Pictures : stored' = stored \cup lost /\ leaked' = leaked \cup lost
  /\ \/ req[r].at \in Before /\ blamed' = blamed
     \/ req[r].at \in Before \cup {"rereading"} /\ blamed \subseteq blamed'
        /\ (req[r].at = "rereading" => Id(r) \in blamed')
     \/ req[r].at = "rereading" /\ blamed' = blamed /\ Id(r) \notin Existing(req[r].res)

\* The answer was read.
Answers(r, q) ==
  /\ req[r].at = "rereading" /\ Id(r) \in Existing(req[r].res)
  /\ \/ q = Answered(r) /\ req[r].old = {}
     \/ q = [req[r] EXCEPT !.at = "dropping"]
  /\ UNCHANGED <<rows, stored, leaked, contested, blamed>>

\* What a request still had to remove is removed, or left behind.
Clears(r, q) ==
  /\ q = Answered(r)
  /\ UNCHANGED <<rows, contested, blamed>>
  /\ \/ req[r].at = "undoing" /\ Discard(req[r].new)
     \/ req[r].at = "dropping" /\ Discard(req[r].old)
     \/ /\ req[r].at \notin {"idle", "answered"}
        /\ leaked' = leaked \cup req[r].new \cup (IF req[r].at \in After THEN req[r].old ELSE {})
        /\ stored' = stored

Deals(r, q) ==
  \/ Arrives(r, q) \/ Proceeds(r, q) \/ Stores(r, q) \/ Writes(r, q) \/ Removes(r, q)
  \/ Sets(r, q) \/ Fails(r, q) \/ Answers(r, q) \/ Clears(r, q)

\* What is still to be uploaded are pictures.
LEMMA MissingPictures ==
  ASSUME Whole, NEW r \in Requests, req[r].at = "uploading"
  PROVE  \A part \in Missing(r) : Picture(r, part) \in Pictures
<1>1. req[r] \in Request /\ Sane(r, req[r]) BY DEF Whole, Shape, Sane
<1>2. req[r].op # None BY <1>1 DEF Sane, PathFits, StagesOf, None
<1>3. Id(r) \in Ids BY <1>1, <1>2 DEF Sane, PathFits, Id
<1>4. Missing(r) \subseteq Parts BY <1>1 DEF Missing, In, Request, Form
<1> QED BY <1>3, <1>4 DEF Picture, Pictures

\* Three ways to give up.
LEMMA FailsToo ==
  ASSUME Whole, NEW r \in Requests, NEW q \in Request, q = Ending(r),
         UploadFails(r) \/ StatementFails(r) \/ Quits(r, q)
  PROVE  Fails(r, q)
<1>1. CASE UploadFails(r)
  <2>1. PICK lost \in SUBSET {Picture(r, part) : part \in Missing(r)} :
          stored' = stored \cup lost /\ leaked' = leaked \cup lost
    BY <1>1 DEF UploadFails
  <2>2. lost \subseteq Pictures BY <1>1, MissingPictures DEF UploadFails
  <2> QED BY <1>1, <2>1, <2>2 DEF UploadFails, Fails, overlaps, Before
<1>2. CASE StatementFails(r)
  <2>1. stored' = stored \cup {} /\ leaked' = leaked \cup {} BY <1>2 DEF StatementFails
  <2>2. req[r].at \in Before \cup {"rereading"}
    <3>1. req[r].at \in Stage BY DEF Whole, TypeOK, Request
    <3> QED BY <1>2, <3>1 DEF StatementFails, Stage, Before, Early
  <2>3. /\ UNCHANGED <<rows, contested>> /\ blamed \subseteq blamed'
        /\ req[r].at = "rereading" => Id(r) \in blamed'
    BY <1>2 DEF StatementFails, overlaps
  <2> QED BY <2>1, <2>2, <2>3 DEF Fails
<1>3. CASE Quits(r, q)
  <2>1. stored' = stored \cup {} /\ leaked' = leaked \cup {} BY <1>3 DEF Quits, Calm
  <2> QED BY <1>3, <2>1 DEF Quits, Calm, Fails
<1> QED BY <1>1, <1>2, <1>3

\* Every step of a request deals with pictures in one of these ways.
LEMMA ServeDeals ==
  ASSUME Whole, NEW r \in Requests, Serve(r)
  PROVE  \E q \in Request : Turn(r, q) /\ Sane(r, q) /\ Deals(r, q)
<1>1. /\ req[r] \in Request /\ Sane(r, req[r]) /\ \A p \in req[r].new : p[2] = r
  BY DEF Whole, Shape, Sane, NewFits
<1>2. CASE Effect(r)
  <2>1. PICK q \in Request :
          /\ Turn(r, q) /\ Sane(r, q)
          /\ \/ Arrives(r, q) \/ Proceeds(r, q) \/ Quits(r, q)
             \/ Writes(r, q) \/ Removes(r, q) \/ Sets(r, q)
    BY <1>2 DEF Effect
  <2>2. Quits(r, q) => Fails(r, q) BY FailsToo DEF Quits
  <2> QED BY <2>1, <2>2 DEF Deals
<1>3. CASE Upload(r)
  <2>1. UNCHANGED <<rows, leaked, contested, blamed>> BY <1>3 DEF Upload, history, overlaps
  <2> QED BY <1>3, <2>1, UploadTurn DEF Deals, Stores
<1>4. CASE UploadFails(r) \/ StatementFails(r)
  <2>1. Abort(r) BY <1>4 DEF UploadFails, StatementFails
  <2>2. Turn(r, Ending(r)) /\ Sane(r, Ending(r)) /\ Ending(r) \in Request BY <1>1, <2>1, Endings
  <2>3. Fails(r, Ending(r)) BY <1>4, <2>2, FailsToo
  <2> QED BY <2>2, <2>3 DEF Deals
<1>5. CASE Undo(r) \/ Drop(r) \/ Crash(r)
  <2>1. Done(r) BY <1>5 DEF Undo, Drop, Crash
  <2>2. Turn(r, Answered(r)) /\ Sane(r, Answered(r)) /\ Answered(r) \in Request BY <1>1, <2>1, Endings
  <2>3. Clears(r, Answered(r)) BY <1>5 DEF Undo, Drop, Crash, Clears, overlaps, After
  <2> QED BY <2>2, <2>3 DEF Deals
<1>6. CASE Reread(r)
  <2>1. UNCHANGED <<rows, stored, leaked, contested, blamed>> /\ req[r].at = "rereading"
    BY <1>6 DEF Reread, history, overlaps
  <2>2. CASE Id(r) \notin Existing(req[r].res)
    <3>1. Abort(r) BY <1>6, <2>2 DEF Reread
    <3>2. Turn(r, Ending(r)) /\ Sane(r, Ending(r)) /\ Ending(r) \in Request BY <1>1, <3>1, Endings
    <3>3. stored' = stored \cup {} /\ leaked' = leaked \cup {} BY <2>1
    <3>4. Fails(r, Ending(r)) BY <2>1, <2>2, <3>3 DEF Fails
    <3> QED BY <3>2, <3>4 DEF Deals
  <2>3. CASE Id(r) \in Existing(req[r].res) /\ req[r].old = {}
    <3>1. Done(r) BY <1>6, <2>3 DEF Reread
    <3>2. Turn(r, Answered(r)) /\ Sane(r, Answered(r)) /\ Answered(r) \in Request BY <1>1, <3>1, Endings
    <3> QED BY <2>1, <2>3, <3>2 DEF Deals, Answers
  <2>4. CASE Id(r) \in Existing(req[r].res) /\ req[r].old # {}
    <3>1. Goto(r, "dropping") BY <1>6, <2>4 DEF Reread
    <3>2. PICK q \in Request :
            /\ Turn(r, q) /\ Sane(r, q)
            /\ q = Ending(r) \/ q = Answered(r) \/ q = [req[r] EXCEPT !.at = "dropping"]
      BY <1>6, CloseTurn
    <3>3. req' = [req EXCEPT ![r] = [req[r] EXCEPT !.at = "dropping"]] BY <3>1 DEF Goto
    <3>4. req'[r] = q /\ req'[r] = [req[r] EXCEPT !.at = "dropping"]
      BY <3>2, <3>3 DEF Turn, Whole, TypeOK
    <3> QED BY <2>1, <2>4, <3>2, <3>4 DEF Deals, Answers
  <2> QED BY <2>2, <2>3, <2>4
<1> QED BY <1>2, <1>3, <1>4, <1>5, <1>6, ServeEffect

-----------------------------------------------------------------------------
(* Pictures: which of them rows keep                                       *)

Kept(p) == \E i \in Ids : rows[i].live /\ p \in Held(rows[i])
Hung(p) == \E i \in Ids : p \in Held(rows[i])

\* A picture tells the row it is for, and its place there ...
LEMMA Places ==
  ASSUME Shape, NEW i \in Ids, NEW p \in Held(rows[i])
  PROVE  /\ p[1] = i
         /\ p[3] = "cover" => p \in rows[i].cover
         /\ p[3] = "gallery" => p \in rows[i].gallery
         /\ p[3] \in Parts
<1>1. RowFit(i, rows[i]) BY DEF Shape
<1> QED BY <1>1 DEF RowFit, Held, Parts

\* ... after a step too.
LEMMA NextPlaces ==
  ASSUME Shape', NEW i \in Ids, NEW p \in Held(rows'[i])
  PROVE  /\ p[1] = i
         /\ p[3] = "cover" => p \in rows'[i].cover
         /\ p[3] = "gallery" => p \in rows'[i].gallery
<1>1. RowFit(i, rows'[i]) BY DEF Shape, RowFit, Row
<1> QED BY <1>1 DEF RowFit, Held

\* Screens show what rows keep.
LEMMA ShownIsKept == ASSUME Shape PROVE \A p : p \in Shown <=> Kept(p)
<1> TAKE p
<1>1. ASSUME p \in Shown PROVE Kept(p)
  BY <1>1 DEF Shown, Kept, ProductShown, TypeShown, BannerShown, EventShown, ShopShown, CashierShown,
              Existing, Held
<1>2. ASSUME NEW i \in Ids, rows[i].live, p \in Held(rows[i]) PROVE p \in Shown
  <2>1. RowFit(i, rows[i]) BY DEF Shape
  <2>2. rows[i].res \in {"product", "type", "banner", "event", "shop", "cashier"}
    <3>1. rows[i].res \in Resources \cup {None} BY <2>1 DEF RowFit, Row
    <3>2. rows[i].res # None BY <1>2, <2>1 DEF RowFit, NoRow
    <3>3. rows[i].res \notin {"voucher", "review"}
      BY <1>2, <2>1 DEF RowFit, Held, Galleried
    <3> QED BY <3>1, <3>2, <3>3 DEF Resources
  <2>3. rows[i].res \notin {"product", "shop"} => p \in rows[i].cover
    BY <1>2, <2>1 DEF RowFit, Held, Galleried
  <2>4. i \in Existing(rows[i].res) BY <1>2 DEF Existing
  <2>5. CASE rows[i].res = "product" BY <1>2, <2>4, <2>5 DEF Shown, ProductShown
  <2>6. CASE rows[i].res = "shop" BY <1>2, <2>4, <2>6 DEF Shown, ShopShown
  <2>7. CASE rows[i].res = "type" BY <2>3, <2>4, <2>7 DEF Shown, TypeShown
  <2>8. CASE rows[i].res = "banner" BY <2>3, <2>4, <2>8 DEF Shown, BannerShown
  <2>9. CASE rows[i].res = "event" BY <2>3, <2>4, <2>9 DEF Shown, EventShown
  <2>10. CASE rows[i].res = "cashier" BY <2>3, <2>4, <2>10 DEF Shown, CashierShown
  <2> QED BY <2>2, <2>5, <2>6, <2>7, <2>8, <2>9, <2>10
<1> QED BY <1>1, <1>2 DEF Kept

-----------------------------------------------------------------------------
(* Pictures that are shown                                                 *)

\* No row shows, and nobody is about to remove, what r will upload.
Fresh(r) ==
  /\ \A p : Hung(p) => p[2] # r
  /\ \A o \in Requests : \A p \in req[o].old : p[2] # r
Waiting == Before \cup {"idle"}

PicturesInv ==
  /\ \A p : Kept(p) => p \in stored \/ p[1] \in blamed
  /\ \A r \in Requests :
       /\ req[r].at \in {"uploading", "writing"} => req[r].new \subseteq stored
       /\ req[r].at \in Waiting => Fresh(r)
       /\ req[r].at = "undoing" => \A p \in req[r].new : Kept(p) => p[1] \in blamed
       /\ req[r].at \in After => \A p \in req[r].old : ~Kept(p)

\* The row a write leaves shows what it showed, and what was uploaded for it.
LEMMA WrittenPictures ==
  ASSUME Whole, NEW r \in Requests, NEW q, Writes(r, q)
  PROVE  /\ \A p : Hung(p)' => Hung(p) \/ p \in req[r].new
         /\ \A p : Kept(p)' => Kept(p) \/ p \in req[r].new
         /\ \A p \in req[r].new : Kept(p)'
         /\ \A p \in req[r].new : p[1] = Id(r) /\ p[2] = r
<1>1. rows \in [Ids -> Row] /\ Shape /\ req[r] \in Request /\ Sane(r, req[r])
  BY DEF Whole, TypeOK, Shape, Sane
<1>2. PICK row \in Row :
        /\ Draft(r, row) /\ Id(r) \in Ids /\ req[r].res \in Resources
        /\ rows' \in [Ids -> Row] /\ rows'[Id(r)] = row
        /\ \A i \in Ids \ {Id(r)} : rows'[i] = rows[i]
        /\ Op(r) = "edit" => rows[Id(r)].res = req[r].res /\ rows[Id(r)].live
        /\ Op(r) = "create" => rows[Id(r)] = NoRow
  BY WrittenRow
<1>3. Pending(req[r]) /\ req[r].at = "writing" /\ Op(r) \in {"create", "edit"}
  BY DEF Writes, Pending, Op, After, Saving
<1>4. req[r].new = {<<Id(r), r, part>> : part \in In(r).pics}
  BY <1>1, <1>3 DEF Sane, NewFits, Uploads, Id, In
<1>5. In(r).pics \subseteq Parts BY <1>1 DEF Request, Form, In
<1>6. \A p \in req[r].new : p[1] = Id(r) /\ p[2] = r BY <1>4
<1>7. /\ "cover" \in In(r).pics => Picture(r, "cover") \in req[r].new
      /\ "gallery" \in In(r).pics => Picture(r, "gallery") \in req[r].new
  BY <1>4 DEF Picture
<1>8. Held(row) \subseteq Held(rows[Id(r)]) \cup req[r].new
  BY <1>2, <1>7 DEF Draft, Held, NewCover, ProductGallery, Added
<1>9. \A p \in Held(rows[Id(r)]) : Op(r) = "edit"
  BY <1>2, <1>3 DEF NoRow, Held
<1>10. \A p : Hung(p)' => Hung(p) \/ p \in req[r].new
  BY <1>2, <1>8 DEF Hung
<1>11. \A p : Kept(p)' => Kept(p) \/ p \in req[r].new
  <2>1. ASSUME NEW p, NEW i \in Ids, rows'[i].live, p \in Held(rows'[i]), p \notin req[r].new
        PROVE  rows[i].live /\ p \in Held(rows[i])
    <3>1. CASE i = Id(r) BY <1>2, <1>8, <1>9, <2>1, <3>1
    <3>2. CASE i # Id(r) BY <1>2, <2>1, <3>2
    <3> QED BY <3>1, <3>2
  <2> QED BY <2>1 DEF Kept
<1>12. \A p \in req[r].new : Kept(p)'
  <2>1. ASSUME NEW p \in req[r].new PROVE p \in Held(row)
    <3>1. PICK part \in In(r).pics : p = Picture(r, part) BY <1>4 DEF Picture
    <3>2. CASE part = "cover" BY <1>2, <3>1, <3>2 DEF Draft, NewCover, Held
    <3>3. CASE part = "gallery" BY <1>2, <3>1, <3>3 DEF Draft, ProductGallery, Added, Held
    <3> QED BY <1>5, <3>2, <3>3 DEF Parts
  <2> QED BY <1>2, <2>1 DEF Kept, Draft
<1> QED BY <1>6, <1>10, <1>11, <1>12

\* Of what hangs, a step only takes; a write is the exception.
LEMMA HungMoves ==
  ASSUME Whole, NEW r \in Requests, NEW q \in Request, Deals(r, q)
  PROVE  \A p : /\ Hung(p)' => Hung(p) \/ (Writes(r, q) /\ p \in req[r].new)
                /\ Kept(p)' => Kept(p) \/ (Writes(r, q) /\ p \in req[r].new)
<1>1. CASE rows' = rows BY <1>1 DEF Hung, Kept
<1>2. CASE Writes(r, q) BY <1>2, WrittenPictures
<1>3. CASE Removes(r, q)
  <2>1. PICK row \in Row :
          /\ row.cover = rows[Id(r)].cover /\ row.gallery \subseteq rows[Id(r)].gallery /\ ~row.live
          /\ rows'[Id(r)] = row /\ \A i \in Ids \ {Id(r)} : rows'[i] = rows[i]
    BY <1>3, RemovedRow DEF Remains
  <2> QED BY <2>1 DEF Hung, Kept, Held
<1>4. CASE Sets(r, q) BY <1>4, StatusRow DEF Hung, Kept, Held
<1> QED BY <1>1, <1>2, <1>3, <1>4
        DEF Deals, Arrives, Proceeds, Calm, Stores, Fails, Answers, Clears

\* What a step of r has to show for pictures.
LEMMA PicturesFollow ==
  ASSUME Whole, PicturesInv, NEW r \in Requests, NEW q \in Request, Turn(r, q), Deals(r, q),
         \A p \in stored : p \notin stored' =>
           \/ p \in req[r].new /\ req[r].at = "undoing"
           \/ p \in req[r].old /\ req[r].at = "dropping",
         blamed \subseteq blamed',
         \A p \in q.old : p \in req[r].old \/ Hung(p),
         q.at \in {"uploading", "writing"} => q.new \subseteq stored',
         q.at \in Waiting => req[r].at \in Waiting /\ ~Writes(r, q),
         q.at = "undoing" => \A p \in q.new : Kept(p)' => p[1] \in blamed',
         q.at \in After => \A p \in q.old : ~Kept(p)'
  PROVE  PicturesInv'
<1>1. req \in [Requests -> Request] /\ Shape BY DEF Whole, TypeOK
<1>2. req'[r] = q /\ \A o \in Requests \ {r} : req'[o] = req[o] BY <1>1 DEF Turn
<1>3. \A o \in Requests : \A p \in req[o].new : p[2] = o
  BY <1>1 DEF Shape, Sane, NewFits
<1>4. \A p : /\ Hung(p)' => Hung(p) \/ (Writes(r, q) /\ p \in req[r].new)
             /\ Kept(p)' => Kept(p) \/ (Writes(r, q) /\ p \in req[r].new)
  BY HungMoves
<1>5. Writes(r, q) => req[r].at = "writing" /\ req[r].at \in Waiting
  BY DEF Writes, Waiting, Before
<1>6. ASSUME NEW p, Kept(p)' PROVE p \in stored' \/ p[1] \in blamed'
  <2>1. CASE Writes(r, q) /\ p \in req[r].new BY <1>5, <2>1 DEF PicturesInv
  <2>2. CASE Kept(p)
    <3>1. p \in stored \/ p[1] \in blamed BY <2>2 DEF PicturesInv
    <3>2. p \in stored /\ p \notin stored' => p[1] \in blamed
      BY <2>2 DEF PicturesInv, After
    <3> QED BY <3>1, <3>2
  <2> QED BY <1>4, <1>6, <2>1, <2>2
<1>7. ASSUME NEW o \in Requests, req'[o].at \in {"uploading", "writing"}
      PROVE  req'[o].new \subseteq stored'
  <2>1. CASE o = r BY <1>2, <1>7, <2>1
  <2>2. CASE o # r
    <3>1. req[o].new \subseteq stored /\ Fresh(o)
      BY <1>2, <1>7, <2>2 DEF PicturesInv, Waiting, Before
    <3>2. \A p \in req[o].new : p \notin req[r].new /\ p \notin req[r].old
      BY <1>3, <2>2, <3>1 DEF Fresh
    <3> QED BY <1>2, <2>2, <3>1, <3>2
  <2> QED BY <2>1, <2>2
<1>8. ASSUME NEW o \in Requests, req'[o].at \in Waiting
      PROVE  /\ \A p : Hung(p)' => p[2] # o
             /\ \A x \in Requests : \A p \in req'[x].old : p[2] # o
  <2>1. Fresh(o) BY <1>2, <1>8 DEF PicturesInv
  <2>2. \A p : Writes(r, q) /\ p \in req[r].new => p[2] # o BY <1>2, <1>3, <1>8
  <2>3. \A p : Hung(p)' => p[2] # o BY <1>4, <2>1, <2>2 DEF Fresh
  <2>4. \A x \in Requests : \A p \in req'[x].old : p[2] # o BY <1>2, <2>1 DEF Fresh
  <2> QED BY <2>3, <2>4
<1>9. ASSUME NEW o \in Requests, req'[o].at = "undoing", NEW p \in req'[o].new, Kept(p)'
      PROVE  p[1] \in blamed'
  <2>1. CASE o = r BY <1>2, <1>9, <2>1
  <2>2. CASE o # r
    <3>1. p \in req[o].new /\ p \notin req[r].new BY <1>2, <1>3, <1>9, <2>2
    <3> QED BY <1>2, <1>4, <1>9, <2>2, <3>1 DEF PicturesInv
  <2> QED BY <2>1, <2>2
<1>10. ASSUME NEW o \in Requests, req'[o].at \in After, NEW p \in req'[o].old, Kept(p)'
       PROVE  FALSE
  <2>1. CASE o = r BY <1>2, <1>10, <2>1
  <2>2. CASE o # r
    <3>1. p \in req[o].old /\ ~Kept(p) BY <1>2, <1>10, <2>2 DEF PicturesInv
    <3>2. Writes(r, q) /\ p \in req[r].new BY <1>4, <1>10, <3>1
    <3>3. p[2] = r /\ Fresh(r) BY <1>3, <1>5, <3>2 DEF PicturesInv
    <3> QED BY <3>1, <3>3 DEF Fresh
  <2> QED BY <2>1, <2>2
<1>11. (\A p : Kept(p) => p \in stored \/ p[1] \in blamed)' BY <1>6
<1>12. \A o \in Requests :
         (/\ req[o].at \in {"uploading", "writing"} => req[o].new \subseteq stored
          /\ req[o].at \in Waiting => Fresh(o)
          /\ req[o].at = "undoing" => \A p \in req[o].new : Kept(p) => p[1] \in blamed
          /\ req[o].at \in After => \A p \in req[o].old : ~Kept(p))'
  BY <1>7, <1>8, <1>9, <1>10 DEF Fresh
<1> QED BY <1>11, <1>12 DEF PicturesInv

\* What a write replaced is not shown any more.
LEMMA ReplacedIsGone ==
  ASSUME Whole, Shape', NEW r \in Requests, NEW q, Writes(r, q), Fresh(r)
  PROVE  \A p \in Replaced(r) : ~Kept(p)'
<1>1. req[r] \in Request /\ Sane(r, req[r]) BY DEF Whole, Shape, Sane
<1>2. PICK row \in Row : Draft(r, row) /\ Id(r) \in Ids /\ rows'[Id(r)] = row
  BY WrittenRow
<1>3. PICK n \in Ids : n = Id(r) BY <1>2
<1>4. SUFFICES ASSUME NEW p \in Replaced(r), NEW i \in Ids, p \in Held(rows'[i]) PROVE FALSE
  BY DEF Kept
<1>5. req[r].op # None BY DEF Writes, Op, Saving, None
<1>6. p \in req[r].old /\ p[1] = n BY <1>1, <1>3, <1>5 DEF Replaced, Sane, OldFits, Id
<1>7. p[2] # r BY <1>6 DEF Fresh
<1>8. /\ p[1] = i
      /\ p[3] = "cover" => p \in rows'[i].cover
      /\ p[3] = "gallery" => p \in rows'[i].gallery
  BY <1>4, NextPlaces
<1>9. rows'[i] = row BY <1>2, <1>3, <1>6, <1>8
<1>10. CASE p[3] = "cover" /\ "cover" \in In(r).pics
  <2>1. p = Picture(r, "cover") BY <1>2, <1>8, <1>9, <1>10 DEF Draft, NewCover
  <2> QED BY <1>7, <2>1 DEF Picture
<1>11. CASE p[3] = "gallery" /\ In(r).replace
  <2>1. p = Picture(r, "gallery") BY <1>2, <1>8, <1>9, <1>11 DEF Draft, ProductGallery, Added
  <2> QED BY <1>7, <2>1 DEF Picture
<1> QED BY <1>10, <1>11 DEF Replaced

\* The pictures that rows show are kept by every step of a request.
LEMMA PicturesServe ==
  ASSUME Whole, Whole', PicturesInv, NEW r \in Requests, NEW q \in Request,
         Turn(r, q), Sane(r, q), Deals(r, q)
  PROVE  PicturesInv'
<1>1. req \in [Requests -> Request] /\ rows \in [Ids -> Row] /\ Shape /\ Shape'
  BY DEF Whole, TypeOK
<1>2. PICK s \in Request : s = req[r] BY <1>1
<1>3. Sane(r, s) /\ Fits(r, s, rows) BY <1>1, <1>2 DEF Shape
<1>4. \A p \in s.new : p[2] = r BY <1>3 DEF Sane, NewFits
<1>5. /\ s.at \in {"uploading", "writing"} => s.new \subseteq stored
      /\ s.at \in Waiting => Fresh(r)
      /\ s.at = "undoing" => \A p \in s.new : Kept(p) => p[1] \in blamed
      /\ s.at \in After => \A p \in s.old : ~Kept(p)
  BY <1>2 DEF PicturesInv
<1>6. CASE Arrives(r, q)
  <2>1. /\ q.new = {} /\ q.old = {} /\ s.at = "idle" /\ stored' = stored /\ blamed' = blamed
        /\ q.at \in {"guarding", "finding", "setting", "checking", "referring", "writing"}
    BY <1>2, <1>6 DEF Arrives, Start, MayStart, Calm, Idle
  <2>2. q.at # "undoing" /\ q.at \notin After /\ s.at \in Waiting /\ ~Writes(r, q)
    BY <1>2, <2>1 DEF After, Waiting, Writes
  <2> QED BY <1>2, <1>6, <2>1, <2>2, PicturesFollow DEF Deals
<1>7. CASE Proceeds(r, q)
  <2>0. /\ s.at \in Early /\ stored' = stored /\ blamed' = blamed /\ Looked(r, q)
        /\ q.at \in {"finding", "checking", "referring", "clearing", "uploading", "writing"}
        /\ q = [s EXCEPT !.at = q.at, !.old = q.old, !.saw = q.saw]
    BY <1>2, <1>7 DEF Proceeds, Calm
  <2>1. /\ q.new = s.new /\ s.at \in Early /\ stored' = stored /\ blamed' = blamed
        /\ q.old = s.old \/ (q.old = Held(rows[s.id]) /\ s.at = "finding")
        /\ q.at \in {"finding", "checking", "referring", "clearing", "uploading", "writing"}
    <3>1. q.new = s.new /\ q.id = s.id BY <2>0 DEF Request
    <3>2. q.old = IF s.at = "finding" THEN Held(rows[q.id]) ELSE s.old
      BY <1>2, <2>0 DEF Looked
    <3> QED BY <2>0, <3>1, <3>2
  <2>2. q.new = {} BY <1>3, <2>1 DEF Sane, NewFits
  <2>3. q.at # "undoing" /\ q.at \notin After /\ s.at \in Waiting /\ ~Writes(r, q)
    BY <1>2, <2>1 DEF After, Waiting, Writes, Early, Before
  <2>4. \A p \in q.old : p \in s.old \/ Hung(p)
    <3>1. s.at = "finding" => s.id \in Ids
      BY <1>3 DEF Sane, PathFits, StagesOf, None
    <3> QED BY <2>1, <3>1 DEF Hung
  <2> QED BY <1>2, <1>7, <2>1, <2>2, <2>3, <2>4, PicturesFollow DEF Deals
<1>8. CASE Stores(r, q)
  <2>1. PICK p \in Pictures : q.new = s.new \cup {p} /\ stored' = stored \cup {p}
    BY <1>2, <1>8 DEF Stores
  <2>2. /\ q.old = s.old /\ blamed' = blamed
        /\ s.at = "uploading" /\ q.at \in {"uploading", "writing"}
    BY <1>2, <1>8 DEF Stores, Request
  <2>3. q.at # "undoing" /\ q.at \notin After /\ s.at \in Waiting /\ ~Writes(r, q)
    BY <1>2, <2>2 DEF After, Waiting, Writes, Before
  <2> QED BY <1>2, <1>5, <1>8, <2>1, <2>2, <2>3, PicturesFollow DEF Deals
<1>9. CASE Writes(r, q)
  <2>1. /\ stored' = stored /\ blamed' = blamed /\ s.at = "writing"
        /\ q.at \in After /\ q.old = Replaced(r)
    BY <1>2, <1>9 DEF Writes, Request
  <2>2. q.at # "undoing" /\ q.at \notin Waiting /\ q.at \notin {"uploading", "writing"}
        /\ s.at \in Waiting
    BY <2>1 DEF After, Waiting, Before, Early
  <2>3. \A p \in q.old : ~Kept(p)' BY <1>1, <1>5, <1>9, <2>1, <2>2, ReplacedIsGone
  <2>4. \A p \in q.old : p \in s.old BY <1>2, <2>1 DEF Replaced
  <2> QED BY <1>2, <1>9, <2>1, <2>2, <2>3, <2>4, PicturesFollow DEF Deals
<1>10. CASE Removes(r, q)
  <2>1. /\ stored' = stored /\ blamed' = blamed /\ s.at = "writing"
        /\ q.at = "dropping" /\ q.old = s.old /\ s.op = "delete"
    BY <1>2, <1>10 DEF Removes, Request, Op
  <2>2. q.at # "undoing" /\ q.at \notin Waiting /\ q.at \notin {"uploading", "writing"}
    BY <2>1 DEF Waiting, Before, Early
  <2>3. PICK row \in Row : Remains(r, row) /\ rows'[s.id] = row
    BY <1>2, <1>10, RemovedRow DEF Id
  <2>4. \A p \in q.old : ~Kept(p)'
    <3>1. SUFFICES ASSUME NEW p \in q.old, NEW i \in Ids, rows'[i].live, p \in Held(rows'[i])
                   PROVE FALSE
      BY DEF Kept
    <3>2. p[1] = s.id BY <1>3, <2>1, <3>1 DEF Sane, OldFits, None
    <3>3. p[1] = i BY <1>1, <3>1, NextPlaces
    <3> QED BY <2>3, <3>1, <3>2, <3>3 DEF Remains
  <2> QED BY <1>2, <1>10, <2>1, <2>2, <2>4, PicturesFollow DEF Deals
<1>11. CASE Sets(r, q)
  <2>1. /\ stored' = stored /\ blamed' = blamed /\ q.at = "answered" /\ q.old = {}
    BY <1>11, StatusRow
  <2>2. q.at \notin Waiting /\ q.at \notin After BY <2>1 DEF Waiting, Before, Early, After
  <2> QED BY <1>2, <1>11, <2>1, <2>2, PicturesFollow DEF Deals
<1>12. CASE Fails(r, q)
  <2>1. /\ q.new = s.new /\ q.old = {} /\ q.at \in {"answered", "undoing"}
        /\ rows' = rows /\ blamed \subseteq blamed' /\ stored \subseteq stored'
    <3>1. q.new = s.new /\ q.old = {} /\ q.at \in {"answered", "undoing"}
      BY <1>2, <1>4, <1>12, Endings DEF Fails
    <3> QED BY <1>12, <3>1 DEF Fails
  <2>2. q.at \notin Waiting /\ q.at \notin After /\ q.at \notin {"uploading", "writing"}
    BY <2>1 DEF Waiting, Before, Early, After
  <2>3. ASSUME NEW p \in q.new, Kept(p)' PROVE p[1] \in blamed'
    <3>1. Kept(p) BY <2>1, <2>3 DEF Kept
    <3>2. PICK i \in Ids : rows[i].live /\ p \in Held(rows[i]) BY <3>1 DEF Kept
    <3>3. p[1] = i BY <1>1, <3>2, Places
    <3>4. CASE s.at \in Before
      BY <1>4, <1>5, <2>1, <2>3, <3>2, <3>4 DEF Waiting, Fresh, Hung
    <3>5. CASE s.at = "rereading"
      <4>1. p[1] = s.id BY <1>3, <2>1, <2>3, <3>5 DEF Sane, NewFits, PathFits, StagesOf, None
      <4>2. rows[s.id].res = s.res BY <1>3, <3>5 DEF Fits, After
      <4>3. s.id \in Existing(s.res) BY <3>2, <3>3, <4>1, <4>2 DEF Existing
      <4>4. s.id \in blamed' BY <1>2, <1>12, <3>5, <4>3 DEF Fails, Id, Before, Early
      <4> QED BY <4>1, <4>4
    <3> QED BY <1>2, <1>12, <3>4, <3>5 DEF Fails
  <2> QED BY <1>2, <1>12, <2>1, <2>2, <2>3, PicturesFollow DEF Deals
<1>13. CASE Answers(r, q)
  <2>1. /\ stored' = stored /\ blamed' = blamed /\ rows' = rows /\ s.at = "rereading"
    BY <1>2, <1>13 DEF Answers
  <2>2. /\ q.at \in {"answered", "dropping"} /\ q.old \subseteq s.old
    <3>1. CASE q = Answered(r) BY <1>2, <1>4, <3>1, Endings
    <3>2. CASE q = [req[r] EXCEPT !.at = "dropping"] BY <1>2, <3>2 DEF Request
    <3> QED BY <1>13, <3>1, <3>2 DEF Answers
  <2>3. q.at \notin Waiting /\ q.at # "undoing" /\ q.at \notin {"uploading", "writing"}
    BY <2>2 DEF Waiting, Before, Early
  <2>4. \A p \in q.old : ~Kept(p)' BY <1>5, <2>1, <2>2 DEF After, Kept
  <2> QED BY <1>2, <1>13, <2>1, <2>2, <2>3, <2>4, PicturesFollow DEF Deals
<1>14. CASE Clears(r, q)
  <2>1. /\ q.at = "answered" /\ q.old = {} /\ blamed' = blamed
    BY <1>2, <1>4, <1>14, Endings DEF Clears
  <2>2. q.at \notin Waiting /\ q.at \notin After BY <2>1 DEF Waiting, Before, Early, After
  <2>3. \A p \in stored : p \notin stored' =>
           \/ p \in req[r].new /\ req[r].at = "undoing"
           \/ p \in req[r].old /\ req[r].at = "dropping"
    BY <1>14 DEF Clears, Discard
  <2> QED BY <1>14, <2>1, <2>2, <2>3, PicturesFollow DEF Deals
<1> QED BY <1>6, <1>7, <1>8, <1>9, <1>10, <1>11, <1>12, <1>13, <1>14 DEF Deals

\* Create, Update and Delete of everything with a picture: whatever fails or
\* crashes in between, no screen shows a picture that the provider does not
\* keep, but for rows whose read after the write failed.
THEOREM PicturesStay == Spec => []PicturesExist
<1>1. Init => PicturesInv
  <2> SUFFICES ASSUME Init PROVE PicturesInv OBVIOUS
  <2>1. \A r \in Requests : req[r].at = "idle" /\ req[r].old = {} BY DEF Init, NoRequest
  <2>2. ASSUME NEW p, NEW i \in Ids, p \in Held(rows[i]) PROVE p[2] = First /\ p \in stored
    <3>1. p \in stored BY <2>2 DEF Init
    <3>2. rows[i] = FirstRow(i) \/ rows[i] = NoRow BY DEF Init
    <3>3. rows[i] # NoRow BY <2>2 DEF Held, NoRow
    <3>4. FirstRow(i).cover \subseteq {<<i, First, "cover">>}
          /\ FirstRow(i).gallery \subseteq {<<i, First, "gallery">>}
      BY DEF FirstRow, NoRow
    <3>5. p = <<i, First, "cover">> \/ p = <<i, First, "gallery">>
      BY <2>2, <3>2, <3>3, <3>4 DEF Held
    <3> QED BY <3>1, <3>5
  <2>3. First \notin Requests BY AssetsConfig
  <2> QED BY <2>1, <2>2, <2>3 DEF PicturesInv, Fresh, Hung, Kept, After, Waiting
<1>2. Whole /\ Whole' /\ PicturesInv /\ [Next]_cvars => PicturesInv'
  <2> SUFFICES ASSUME Whole, Whole', PicturesInv, [Next]_cvars PROVE PicturesInv' OBVIOUS
  <2>1. ASSUME NEW r \in Requests, Serve(r) PROVE PicturesInv'
    <3>1. PICK q \in Request : Turn(r, q) /\ Sane(r, q) /\ Deals(r, q)
      BY <2>1, ServeDeals
    <3> QED BY <3>1, PicturesServe
  <2>2. CASE (\E i \in Ids : PlaceOrder(i) \/ Claim(i)) \/ UNCHANGED cvars
    <3>1. rows' = rows /\ req' = req /\ stored' = stored /\ blamed' = blamed
      BY <2>2 DEF PlaceOrder, Claim, cvars, vars, history, overlaps
    <3> QED BY <3>1 DEF PicturesInv, Fresh, Hung, Kept
  <2> QED BY <2>1, <2>2 DEF Next
<1>3. Whole /\ PicturesInv => PicturesExist
  BY ShownIsKept DEF Whole, PicturesInv, PicturesExist
<1> QED BY <1>1, <1>2, <1>3, AlwaysWhole, PTL DEF Spec

-----------------------------------------------------------------------------
(* Pictures that nobody shows                                              *)

Reading == {"checking", "referring", "uploading", "clearing", "writing"}
\* What a request read of its row, and that its row is there, still holds
\* unless another request has written it since.
Current(q) ==
  q.id \notin contested =>
    /\ q.at \in Reading => Held(rows[q.id]) = q.old
    /\ q.at = "rereading" => rows[q.id].live
\* A request will show or remove this picture.
Owes(q, p) ==
  \/ p \in q.new /\ q.at \in {"uploading", "writing", "undoing"}
  \/ p \in q.old /\ q.at \in After
Handled(p) ==
  Kept(p) \/ (\E r \in Requests : Owes(req[r], p)) \/ p[1] \in contested \cup blamed
StrandedInv ==
  /\ \A r \in Requests : Current(req[r])
  /\ \A p \in stored \ leaked : Handled(p)

\* What was contested, blamed or left behind stays so.
LEMMA DealsGrow ==
  ASSUME Whole, NEW r \in Requests, NEW q \in Request, Deals(r, q)
  PROVE  contested \subseteq contested' /\ blamed \subseteq blamed' /\ leaked \subseteq leaked'
<1>1. CASE Writes(r, q) BY <1>1, WrittenRow DEF Writes
<1>2. CASE Removes(r, q) BY <1>2, RemovedRow DEF Removes
<1>3. CASE Sets(r, q) BY <1>3, StatusRow
<1>4. CASE Arrives(r, q) \/ Proceeds(r, q) \/ Stores(r, q) \/ Answers(r, q)
  BY <1>4 DEF Arrives, Proceeds, Calm, Stores, Answers
<1>5. CASE Fails(r, q) BY <1>5 DEF Fails
<1>6. CASE Clears(r, q) BY <1>6 DEF Clears, Discard
<1> QED BY <1>1, <1>2, <1>3, <1>4, <1>5, <1>6 DEF Deals

\* A row that a request has read, or has written, stays as it is for the request.
LEMMA OthersCurrent ==
  ASSUME Whole, StrandedInv, NEW r \in Requests, NEW q \in Request, Deals(r, q),
         NEW o \in Requests, o # r, req[o].id \notin contested'
  PROVE  /\ req[o].at \in Reading => Held(rows'[req[o].id]) = req[o].old
         /\ req[o].at = "rereading" => rows'[req[o].id].live
<1>1. SUFFICES ASSUME req[o].at \in Reading \cup {"rereading"}
               PROVE  /\ Held(rows'[req[o].id]) = Held(rows[req[o].id])
                      /\ rows'[req[o].id].live = rows[req[o].id].live
  <2>1. Current(req[o]) /\ req[o].id \notin contested BY DealsGrow DEF StrandedInv
  <2> QED BY <1>1, <2>1 DEF Current
<1>2. req[o].id \in Ids
  BY <1>1 DEF Whole, Shape, Sane, PathFits, StagesOf, Reading, None
<1>3. req[o].at \in Writers BY <1>1 DEF Writers, Reading
<1>4. CASE Writes(r, q) \/ Removes(r, q)
  <2>1. req[o].id # Id(r) BY <1>3, <1>4, Contested
  <2> QED BY <1>2, <1>4, <2>1, WrittenRow, RemovedRow
<1>5. CASE Sets(r, q) BY <1>2, <1>5, StatusRow DEF Held
<1>6. CASE rows' = rows BY <1>6
<1> QED BY <1>4, <1>5, <1>6
        DEF Deals, Arrives, Proceeds, Calm, Stores, Fails, Answers, Clears

\* The request itself reads anew, or goes on with what it read.
LEMMA ItselfCurrent ==
  ASSUME Whole, StrandedInv, NEW r \in Requests, NEW q \in Request, Turn(r, q), Sane(r, q),
         Deals(r, q), q.id \notin contested'
  PROVE  /\ q.at \in Reading => Held(rows'[q.id]) = q.old
         /\ q.at = "rereading" => rows'[q.id].live
<1>1. req \in [Requests -> Request] /\ rows \in [Ids -> Row] /\ Shape
  BY DEF Whole, TypeOK
<1>2. PICK s \in Request : s = req[r] BY <1>1
<1>3. Sane(r, s) /\ Fits(r, s, rows) /\ Current(s) BY <1>1, <1>2 DEF Shape, StrandedInv
<1>4. contested \subseteq contested' BY DealsGrow
<1>5. \A p \in s.new : p[2] = r BY <1>3 DEF Sane, NewFits
<1>6. NoRow.cover = {} /\ NoRow.gallery = {} BY DEF NoRow
<1>7. CASE Arrives(r, q)
  <2>1. /\ q.old = {} /\ rows' = rows /\ Fits(r, q, rows) /\ MayStart(q.res, q.op, q.at)
    BY <1>7 DEF Arrives, Start, Calm
  <2>2. SUFFICES ASSUME q.at \in Reading PROVE Held(rows[q.id]) = {}
    BY <2>1 DEF MayStart
  <2>3. CASE q.op = "create"
    <3>1. q.id = r /\ rows[r] = NoRow
      BY <2>1, <2>2, <2>3 DEF Sane, PathFits, Fits, MayStart, Before, Early
    <3> QED BY <1>6, <3>1 DEF Held
  <2>4. CASE q.op = "delete" /\ q.res = "review"
    <3>1. q.id \in Ids /\ rows[q.id].res = "review"
      BY <2>1, <2>4 DEF Sane, PathFits, Fits, None
    <3>2. RowFit(q.id, rows[q.id]) BY <1>1, <3>1 DEF Shape
    <3> QED BY <3>1, <3>2 DEF RowFit, Galleried, Held
  <2> QED BY <2>1, <2>2, <2>3, <2>4 DEF MayStart, Reading
<1>8. CASE Proceeds(r, q)
  <2>0. /\ s.at \in Early \ {"setting"} /\ rows' = rows /\ Looked(r, q)
        /\ q.at \in {"finding", "checking", "referring", "clearing", "uploading", "writing"}
        /\ q = [s EXCEPT !.at = q.at, !.old = q.old, !.saw = q.saw]
    BY <1>2, <1>8 DEF Proceeds, Calm
  <2>1. q.id = s.id /\ q.op = s.op /\ q.res = s.res BY <2>0 DEF Request
  <2>2. q.old = IF s.at = "finding" THEN Held(rows[q.id]) ELSE s.old
    BY <1>2, <2>0 DEF Looked
  <2>3. SUFFICES ASSUME s.at # "finding", q.at \in Reading PROVE Held(rows[s.id]) = s.old
    BY <2>0, <2>1, <2>2
  <2>4. CASE s.at \in Reading BY <1>3, <1>4, <2>1, <2>4 DEF Current
  <2>5. CASE s.at = "guarding"
    <3>1. s.res = "voucher" BY <1>2, <2>0, <2>1, <2>3, <2>5 DEF Looked, Reading
    <3>2. s.op = "delete" BY <1>3, <2>5 DEF Sane, PathFits, StagesOf
    <3>3. s.id \in Ids /\ rows[s.id].res = s.res /\ s.old = {}
      BY <1>3, <2>5, <3>2 DEF Sane, PathFits, Fits, OldFits, None
    <3>4. RowFit(s.id, rows[s.id]) BY <1>1, <3>3 DEF Shape
    <3> QED BY <3>1, <3>3, <3>4 DEF RowFit, Galleried, Held
  <2>6. s.at \in Reading \cup {"guarding"} BY <2>0, <2>3 DEF Early, Reading
  <2> QED BY <2>4, <2>5, <2>6
<1>9. CASE Stores(r, q)
  <2>1. /\ s.at = "uploading" /\ rows' = rows /\ q.old = s.old /\ q.id = s.id
        /\ q.at \in {"uploading", "writing"}
    BY <1>2, <1>9 DEF Stores, Request
  <2> QED BY <1>3, <1>4, <2>1 DEF Current, Reading
<1>10. CASE Writes(r, q)
  <2>1. q.id = Id(r) /\ q.at \in After BY <1>2, <1>10 DEF Writes, Request, Id
  <2>2. rows'[Id(r)].live BY <1>10, WrittenRow DEF Draft
  <2> QED BY <2>1, <2>2 DEF After, Reading
<1>11. CASE Removes(r, q) \/ Sets(r, q)
  BY <1>11, RemovedRow, StatusRow DEF Reading
<1>12. CASE Fails(r, q)
  <2>1. q.at \in {"answered", "undoing"} BY <1>2, <1>5, <1>12, Endings DEF Fails
  <2> QED BY <2>1 DEF Reading
<1>13. CASE Answers(r, q)
  <2>1. CASE q = Answered(r) BY <1>2, <1>5, <2>1, Endings DEF Reading
  <2>2. CASE q = [req[r] EXCEPT !.at = "dropping"] BY <1>2, <2>2 DEF Request, Reading
  <2> QED BY <1>13, <2>1, <2>2 DEF Answers
<1>14. CASE Clears(r, q)
  <2>1. q.at = "answered" BY <1>2, <1>5, <1>14, Endings DEF Clears
  <2> QED BY <2>1 DEF Reading
<1> QED BY <1>7, <1>8, <1>9, <1>10, <1>11, <1>12, <1>13, <1>14 DEF Deals

\* A picture that a row stops showing is for the request that wrote it to remove.
LEMMA TakenDown ==
  ASSUME Whole, Shape', StrandedInv, NEW r \in Requests, NEW q \in Request, Sane(r, q), Deals(r, q),
         NEW p, Kept(p), ~Kept(p)', p[1] \notin contested'
  PROVE  Owes(q, p)
<1>1. Shape /\ Sane(r, req[r]) /\ req[r] \in Request /\ Current(req[r])
  BY DEF Whole, TypeOK, StrandedInv, Shape, Sane
<1>2. PICK i \in Ids : rows[i].live /\ p \in Held(rows[i]) BY DEF Kept
<1>3. /\ p[1] = i /\ p[3] \in Parts
      /\ p[3] = "cover" => p \in rows[i].cover
      /\ p[3] = "gallery" => p \in rows[i].gallery
  BY <1>1, <1>2, Places
<1>4. Writes(r, q) \/ Removes(r, q)
  <2>1. rows' # rows /\ ~Sets(r, q) BY StatusRow DEF Kept, Held
  <2> QED BY <2>1 DEF Deals, Arrives, Proceeds, Calm, Stores, Fails, Answers, Clears
<1>5. i = Id(r)
  <2>1. rows'[i] # rows[i] BY <1>2 DEF Kept
  <2> QED BY <1>2, <1>4, <2>1, WrittenRow, RemovedRow
<1>6. p \in req[r].old
  <2>1. Id(r) \notin contested BY <1>3, <1>5, DealsGrow
  <2> QED BY <1>1, <1>2, <1>4, <1>5, <2>1 DEF Current, Reading, Writes, Removes, Id
<1>7. CASE Removes(r, q)
  <2>1. q.old = req[r].old /\ q.at = "dropping" BY <1>1, <1>7 DEF Removes, Request
  <2> QED BY <1>6, <2>1 DEF Owes, After
<1>8. CASE Writes(r, q)
  <2>1. PICK row \in Row : Draft(r, row) /\ rows'[i] = row BY <1>5, <1>8, WrittenRow
  <2>2. p \notin row.cover /\ p \notin row.gallery BY <1>2, <2>1 DEF Kept, Held, Draft
  <2>3. p[3] = "cover" => "cover" \in In(r).pics
    BY <1>3, <1>5, <2>1, <2>2 DEF Draft, NewCover
  <2>4. p[3] = "gallery" => In(r).replace
    BY <1>3, <1>5, <2>1, <2>2 DEF Draft, ProductGallery
  <2>5. p \in Replaced(r) BY <1>3, <1>6, <2>3, <2>4 DEF Replaced, Parts
  <2>6. q.old = Replaced(r) /\ q.at \in After BY <1>1, <1>8 DEF Writes, Request
  <2> QED BY <2>5, <2>6 DEF Owes
<1> QED BY <1>4, <1>7, <1>8

\* What a request owed it still owes, has hung, has removed, or has left behind.
LEMMA OwedOn ==
  ASSUME Whole, StrandedInv, NEW r \in Requests, NEW q \in Request, Sane(r, q), Deals(r, q),
         NEW p, Owes(req[r], p), p \in stored', p \notin leaked', p[1] \notin contested' \cup blamed'
  PROVE  Owes(q, p) \/ Kept(p)'
<1>1. PICK s \in Request : s = req[r] BY DEF Whole, TypeOK
<1>2. Sane(r, s) /\ Fits(r, s, rows) /\ Current(s) /\ \A x \in s.new : x[2] = r
  BY <1>1 DEF Whole, Shape, Sane, NewFits, StrandedInv
<1>3. \/ p \in s.new /\ s.at \in {"uploading", "writing", "undoing"}
      \/ p \in s.old /\ s.at \in After
  BY <1>1 DEF Owes
<1>4. CASE Arrives(r, q) \/ Proceeds(r, q) \/ Sets(r, q)
  BY <1>1, <1>3, <1>4 DEF Arrives, Idle, Proceeds, Early, Sets, After
<1>5. CASE Stores(r, q)
  <2>1. s.new \subseteq q.new /\ s.at = "uploading" /\ q.at \in {"uploading", "writing"}
    BY <1>1, <1>5 DEF Stores
  <2> QED BY <1>3, <2>1 DEF Owes, After
<1>6. CASE Writes(r, q)
  <2>1. p \in req[r].new BY <1>1, <1>3, <1>6 DEF Writes, After
  <2> QED BY <1>6, <2>1, WrittenPictures
<1>7. CASE Removes(r, q)
  <2>1. s.new = {} /\ s.at = "writing"
    BY <1>1, <1>2, <1>7 DEF Removes, Op, Sane, NewFits
  <2> QED BY <1>3, <2>1 DEF After
<1>8. CASE Fails(r, q)
  <2>1. q.new = s.new /\ (s.new # {} => q.at = "undoing")
    BY <1>1, <1>2, <1>8, Endings DEF Fails
  <2>2. CASE p \in s.new BY <2>1, <2>2 DEF Owes
  <2>3. CASE p \in s.old /\ s.at \in After
    <3>1. s.at = "rereading" /\ (s.id \in blamed' \/ s.id \notin Existing(s.res))
      BY <1>1, <1>8, <2>3 DEF Fails, After, Before, Early, Id
    <3>2. s.op # None BY <1>2, <3>1 DEF Sane, PathFits, StagesOf, None
    <3>3. p[1] = s.id /\ s.id \in Ids /\ rows[s.id].res = s.res
      BY <1>2, <2>3, <3>2 DEF Sane, OldFits, PathFits, Fits
    <3>4. s.id \notin contested BY <3>3, DealsGrow
    <3>5. rows[s.id].live BY <1>2, <3>1, <3>4 DEF Current
    <3> QED BY <3>1, <3>3, <3>5 DEF Existing
  <2> QED BY <1>3, <2>2, <2>3
<1>9. CASE Answers(r, q)
  <2>1. s.at = "rereading" BY <1>1, <1>9 DEF Answers
  <2>2. p \in s.old BY <1>3, <2>1
  <2>3. q = [s EXCEPT !.at = "dropping"] BY <1>1, <1>9, <2>2 DEF Answers
  <2>4. q.old = s.old /\ q.at = "dropping" BY <2>3 DEF Request
  <2> QED BY <2>2, <2>4 DEF Owes, After
<1>10. CASE Clears(r, q)
  <2>1. CASE s.at = "undoing" /\ Discard(s.new) BY <1>3, <2>1 DEF Discard, After
  <2>2. CASE s.at = "dropping" /\ Discard(s.old) BY <1>3, <2>2 DEF Discard
  <2>3. CASE leaked' = leaked \cup s.new \cup (IF s.at \in After THEN s.old ELSE {})
    BY <1>3, <2>3
  <2> QED BY <1>1, <1>10, <2>1, <2>2, <2>3 DEF Clears
<1> QED BY <1>4, <1>5, <1>6, <1>7, <1>8, <1>9, <1>10 DEF Deals

\* What is stored now was before, was left behind, or is what r just sent.
LEMMA StoredBefore ==
  ASSUME Whole, NEW r \in Requests, NEW q \in Request, Deals(r, q), NEW p, p \in stored' \ leaked'
  PROVE  p \in stored \ leaked \/ Owes(q, p)
<1>1. leaked \subseteq leaked' BY DealsGrow
<1>2. CASE Stores(r, q) BY <1>1, <1>2 DEF Stores, Owes
<1>3. CASE Fails(r, q) BY <1>1, <1>3 DEF Fails
<1>4. CASE Clears(r, q) BY <1>1, <1>4 DEF Clears, Discard
<1>5. CASE Arrives(r, q) \/ Proceeds(r, q) \/ Writes(r, q) \/ Removes(r, q) \/ Sets(r, q) \/ Answers(r, q)
  BY <1>1, <1>5 DEF Arrives, Proceeds, Calm, Writes, Removes, Sets, Answers
<1> QED BY <1>2, <1>3, <1>4, <1>5 DEF Deals

\* Every stored picture is still handled after every step of a request.
LEMMA StrandedServe ==
  ASSUME Whole, Whole', StrandedInv, NEW r \in Requests, NEW q \in Request,
         Turn(r, q), Sane(r, q), Deals(r, q)
  PROVE  StrandedInv'
<1>1. req \in [Requests -> Request] /\ Shape' BY DEF Whole, TypeOK
<1>2. req'[r] = q /\ \A o \in Requests \ {r} : req'[o] = req[o] BY <1>1 DEF Turn
<1>3. ASSUME NEW o \in Requests, req'[o].id \notin contested'
      PROVE  /\ req'[o].at \in Reading => Held(rows'[req'[o].id]) = req'[o].old
             /\ req'[o].at = "rereading" => rows'[req'[o].id].live
  BY <1>2, <1>3, OthersCurrent, ItselfCurrent
<1>4. (\A o \in Requests : Current(req[o]))' BY <1>3 DEF Current
<1>5. ASSUME NEW p \in stored' \ leaked', p[1] \notin contested' \cup blamed'
      PROVE  Kept(p)' \/ \E o \in Requests : Owes(req'[o], p)
  <2>1. CASE Owes(q, p) BY <1>2, <2>1
  <2>2. CASE p \in stored \ leaked /\ ~Owes(q, p)
    <3>1. p[1] \notin contested \cup blamed BY <1>5, DealsGrow
    <3>2. Kept(p) \/ \E o \in Requests : Owes(req[o], p)
      BY <2>2, <3>1 DEF StrandedInv, Handled
    <3>3. CASE Kept(p) BY <1>1, <1>5, <2>2, <3>3, TakenDown
    <3>4. CASE Owes(req[r], p) BY <1>5, <2>2, <3>4, OwedOn
    <3>5. CASE \E o \in Requests \ {r} : Owes(req[o], p) BY <1>2, <3>5
    <3> QED BY <3>2, <3>3, <3>4, <3>5
  <2> QED BY <1>5, <2>1, <2>2, StoredBefore
<1>6. (\A p \in stored \ leaked : Handled(p))' BY <1>5 DEF Handled, Owes
<1> QED BY <1>4, <1>6 DEF StrandedInv

\* discard and the removal of what was replaced: a stored picture is on a screen,
\* or some request will deal with it, or a crash or a failed removal left it, or
\* its row was written by two at once or its read after the write failed.
THEOREM NoPictureStranded == Spec => []NothingStranded
<1>1. Init => StrandedInv
  <2> SUFFICES ASSUME Init PROVE StrandedInv OBVIOUS
  <2>1. \A r \in Requests : Current(req[r]) BY DEF Init, NoRequest, Current, Reading
  <2>2. ASSUME NEW p \in stored PROVE Kept(p)
    <3>1. PICK i \in Ids : p \in Held(rows[i]) BY <2>2 DEF Init
    <3>2. rows[i] = FirstRow(i) \/ rows[i] = NoRow BY DEF Init
    <3>3. FirstRow(i).live /\ (rows[i] # NoRow) BY <3>1 DEF FirstRow, NoRow, Held
    <3> QED BY <3>1, <3>2, <3>3 DEF Kept
  <2> QED BY <2>1, <2>2 DEF StrandedInv, Handled
<1>2. Whole /\ Whole' /\ StrandedInv /\ [Next]_cvars => StrandedInv'
  <2> SUFFICES ASSUME Whole, Whole', StrandedInv, [Next]_cvars PROVE StrandedInv' OBVIOUS
  <2>1. ASSUME NEW r \in Requests, Serve(r) PROVE StrandedInv'
    <3>1. PICK q \in Request : Turn(r, q) /\ Sane(r, q) /\ Deals(r, q)
      BY <2>1, ServeDeals
    <3> QED BY <3>1, StrandedServe
  <2>2. CASE (\E i \in Ids : PlaceOrder(i) \/ Claim(i)) \/ UNCHANGED cvars
    <3>1. UNCHANGED <<rows, req, stored, leaked, contested, blamed>>
      BY <2>2 DEF PlaceOrder, Claim, cvars, vars, history, overlaps
    <3> QED BY <3>1 DEF StrandedInv, Current, Handled, Kept, Owes
  <2> QED BY <2>1, <2>2 DEF Next
<1>3. Whole /\ StrandedInv => NothingStranded
  <2> SUFFICES ASSUME Whole, StrandedInv, NEW p \in stored \ (Shown \cup leaked)
               PROVE  (\E r \in Requests : p \in req[r].new \cup req[r].old) \/ p[1] \in contested \cup blamed
    BY DEF NothingStranded
  <2>1. ~Kept(p) BY ShownIsKept DEF Whole
  <2> QED BY <2>1 DEF StrandedInv, Handled, Owes
<1> QED BY <1>1, <1>2, <1>3, AlwaysWhole, PTL DEF Spec
=============================================================================
