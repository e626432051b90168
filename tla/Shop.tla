-------------------------------- MODULE Shop --------------------------------
(* Shops: a cover and a gallery, the staff that works there and the        *)
(* products it stocks.  An edit replaces each list only when the form      *)
(* carries it.  A shop with orders is not deleted.                         *)
EXTENDS Assets

ShopRefs == [staff |-> <<"staff", "cashier">>, line |-> <<"line", "product">>]
Listed(lists) == {ShopRefs[l] : l \in lists}

\* A create writes both lists; an edit those the form carries, which may be
\* empty, and the gallery when it says so.
ShopForms(op) ==
  IF op = "create"
  THEN {[NoForm EXCEPT !.lists = {"staff", "line"}, !.pics = Parts,
                       !.refs = Listed({"staff", "line"})]}
  ELSE {f \in [name: {None}, pics: {Parts, {"gallery"}}, replace: BOOLEAN,
               lists: {{"staff"}, {"staff", "line"}}, refs: {{}, Listed({"staff"})},
               kind: {None}, active: {TRUE}] :
          f.replace = ("cover" \notin f.pics)}

ShopArrives(r) ==
  /\ Idle(r)
  /\ \/ \E f \in ShopForms("create") : Receive(r, "shop", "create", r, f, "referring")
     \/ \E i \in Existing("shop") :
          \/ \E f \in ShopForms("edit") : Receive(r, "shop", "edit", i, f, "finding")
          \/ Receive(r, "shop", "delete", i, NoForm, "guarding")
          \/ Receive(r, "shop", "status", i, [NoForm EXCEPT !.active = FALSE], "setting")

\* Mutant of HasOrders: only orders of open shops count.
HasOrders_OfOpen(i) == i \in ordered /\ rows[i].active

HasOrders(i) == i \in ordered

GuardShop(r) ==
  /\ At(r, "shop", "guarding")
  /\ IF HasOrders(Id(r)) THEN Done(r) ELSE Goto(r, "finding")
  /\ UNCHANGED <<rows, stored, history>>

ShopFind(r) ==
  /\ At(r, "shop", "finding")
  /\ Find(r, IF Op(r) = "edit" THEN "referring" ELSE "writing")

\* verifyCashiers and resolveProducts: accounts that may run a till, products
\* that exist.
Resolve(r) ==
  /\ At(r, "shop", "referring")
  /\ IF \A ref \in In(r).refs : ref[2] \in Existing("cashier") \cup Existing("product")
     THEN Goto(r, Storing(r)) ELSE Done(r)
  /\ UNCHANGED <<rows, stored, history>>

\* Mutant of WriteAssignments: a list the form does not carry is cleared too.
WriteAssignments_All(r, old) == [old EXCEPT !.gallery = Added(r), !.refs = In(r).refs]

\* What one transaction makes of the gallery and the two lists.
WriteAssignments(r, old) ==
  [old EXCEPT !.gallery = Added(r) \cup IF In(r).replace THEN {} ELSE @,
              !.refs = In(r).refs \cup {ref \in @ : ref[1] \notin In(r).lists}]

ShopInsert(r) ==
  /\ At(r, "shop", "writing") /\ Op(r) = "create"
  /\ Commit(r, WriteAssignments(r, [NoRow EXCEPT !.res = "shop", !.live = TRUE,
                                       !.active = In(r).active, !.cover = {Picture(r, "cover")}]),
            "rereading")

\* The UPDATE of the row comes first, so its lock orders two edits.
ShopUpdate(r) ==
  /\ At(r, "shop", "writing") /\ Op(r) = "edit"
  /\ Edit(r, WriteAssignments(r, [rows[Id(r)] EXCEPT !.cover = NewCover(r)]))

\* Here too the row goes first, and what describes it after.
ShopDelete(r) ==
  /\ At(r, "shop", "writing") /\ Op(r) = "delete"
  /\ Remove(r, [rows[Id(r)] EXCEPT !.gallery = {}, !.refs = {}])

ShopStatus(r) == At(r, "shop", "setting") /\ SetStatus(r)

\* A customer orders at a shop that is open, wherever its delete stands.
PlaceOrder(i) ==
  /\ i \in Existing("shop") \ ordered
  /\ rows[i].active
  /\ ordered' = ordered \cup {i}
  /\ crowded' = IF \E r \in Requests : /\ At(r, "shop", "finding") \/ At(r, "shop", "writing")
                                       /\ Op(r) = "delete" /\ Id(r) = i
                THEN crowded \cup {<<"shop", i>>} ELSE crowded
  /\ UNCHANGED <<rows, stored, req, leaked, contested, blamed>>

ShopShown(i) == Held(rows[i])

\* The till's query for what a shop stocks: it joins the assignments and does
\* not look at the shop itself.
AssignedShopProducts(staff, i) ==
  IF <<"staff", staff>> \notin rows[i].refs THEN {}
  ELSE {ref[2] : ref \in {l \in rows[i].refs : l[1] = "line"}}

ShopStep(r) ==
  \/ ShopArrives(r) \/ GuardShop(r) \/ ShopFind(r) \/ Resolve(r) \/ ShopInsert(r)
  \/ ShopUpdate(r) \/ ShopDelete(r) \/ ShopStatus(r)
=============================================================================
