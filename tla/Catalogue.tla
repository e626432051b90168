----------------------------- MODULE Catalogue ------------------------------
(***************************************************************************)
(* The back office at work: requests for products, types, banners, events, *)
(* shops, cashiers, vouchers and reviews, interleaved, with the image      *)
(* provider and with customers.  Each statement is a step; so is each call of the  *)
(* provider.                                                               *)
(***************************************************************************)
EXTENDS Product, TypeProduct, Banner, Event, Shop, Cashier, Voucher, Review

CONSTANT Together  \* bound: the sets of resources that are worked on at once

ASSUME CatalogueConfig == Together \subseteq SUBSET Resources /\ Names # {}

cvars == <<vars, ordered>>

Pictured == Resources \ {"voucher", "review"}

FirstRow(res) ==
  [NoRow EXCEPT !.res = res, !.live = TRUE, !.active = TRUE,
                !.cover = IF res \in Pictured THEN {<<res, First, "cover">>} ELSE {},
                !.name = IF res \in {"shop", "review"} THEN None ELSE CHOOSE n \in Names : TRUE,
                !.gallery = IF res \in {"product", "shop"} THEN {<<res, First, "gallery">>} ELSE {},
                !.refs = CASE res = "product" -> {<<"type", "type">>}
                           [] res = "event" -> {<<"discount", "product">>}
                           [] res = "shop" -> {<<"line", "product">>}
                           [] res = "voucher" -> {<<"amount", "voucher">>}
                           [] res = "review" -> {<<"line", "product">>} [] OTHER -> {},
                !.kind = CASE res = "event" -> "DISKON" [] res = "voucher" -> "amount"
                           [] OTHER -> None]

\* One row of each resource, with its pictures; the type may still be without
\* products.
Init ==
  /\ \E used \in BOOLEAN :
       rows = [i \in Ids |-> IF i \in Resources \ (IF used THEN {} ELSE {"product", "event", "shop", "review"})
                             THEN FirstRow(i) ELSE NoRow]
  /\ stored = UNION {Held(rows[i]) : i \in Ids}
  /\ req = [r \in Requests |-> NoRequest]
  /\ leaked = {} /\ contested = {} /\ crowded = {} /\ blamed = {}
  /\ ordered = {}

Serve(r) ==
  \/ ProductStep(r) \/ TypeStep(r) \/ BannerStep(r) \/ EventStep(r) \/ ShopStep(r)
  \/ CashierStep(r) \/ VoucherStep(r) \/ ReviewStep(r) \/ Upload(r) \/ UploadFails(r) \/ Reread(r)
  \/ Undo(r) \/ Drop(r) \/ StatementFails(r) \/ Crash(r)

\* What requests and customers are about is one of the sets of the bound.
InBounds ==
  \E scene \in Together :
    /\ \A r \in Requests : req'[r].res # None => req'[r].res \in scene
    /\ \A i \in ordered' : rows[i].res \in scene

Next ==
  \/ \E r \in Requests : Serve(r) /\ UNCHANGED ordered /\ InBounds
  \/ \E i \in Ids : (PlaceOrder(i) \/ Claim(i)) /\ InBounds

Spec == Init /\ [][Next]_cvars

-----------------------------------------------------------------------------
(* Types of everything; a row that is there has a cover.                   *)
TypeOK ==
  /\ rows \in [Ids -> Row]
  /\ \A i \in Ids : rows[i].live /\ rows[i].res \in Pictured => rows[i].cover # {}
  /\ stored \subseteq Pictures
  /\ req \in [Requests -> Request]
  /\ leaked \subseteq Pictures
  /\ contested \subseteq Ids
  /\ crowded \subseteq (Resources \X (Names \cup Ids))
  /\ blamed \subseteq Ids
  /\ ordered \subseteq Ids

Shown ==
  UNION ({ProductShown(i) : i \in Existing("product")} \cup {TypeShown(i) : i \in Existing("type")}
    \cup {BannerShown(i) : i \in Existing("banner")} \cup {EventShown(i) : i \in Existing("event")}
    \cup {ShopShown(i) : i \in Existing("shop")} \cup {CashierShown(i) : i \in Existing("cashier")})

\* Create and Update of all six: a screen never shows a picture that is not
\* there, unless the read after the write failed.
PicturesExist == \A p \in Shown : p \in stored \/ p[1] \in blamed

\* A picture nobody shows is being dealt with, or a crash or a failed discard
\* left it, or its row was written by two requests at once.
NothingStranded ==
  \A p \in stored \ (Shown \cup leaked) :
    \/ \E r \in Requests : p \in req[r].new \cup req[r].old
    \/ p[1] \in contested \cup blamed

\* checkName of products, types, banners, events and vouchers: two rows share a
\* name only if both were checked before either was written.  Two accounts never do, not
\* even with a deleted one.
NamesUnique ==
  \A i, j \in Ids : i # j /\ rows[i].res = rows[j].res /\ rows[i].name = rows[j].name =>
    CASE rows[i].res \in {None, "shop", "review"} -> TRUE
      [] rows[i].res = "cashier" -> FALSE
      [] OTHER -> ~rows[i].live \/ ~rows[j].live \/ <<rows[i].res, rows[i].name>> \in crowded

\* InUse, HasOrders and Claimed: what products, orders or wallets refer to is not
\* deleted, unless they came while the delete had already looked.
NeededStays ==
  /\ \A p \in Existing("product") : \A ref \in rows[p].refs :
       ref[2] \in Existing("type") \/ ref \in crowded
  /\ \A i \in ordered : rows[i].live \/ <<rows[i].res, i>> \in crowded

\* validate, deleteChildren, insertChildren and normalize: an event never carries
\* rows of both kinds, nor a voucher both discounts, whatever it was before and
\* whoever edits it.
OneKindOfChildren ==
  \A i \in Existing("event") \cup Existing("voucher") :
    {ref[1] : ref \in rows[i].refs} =
      CASE rows[i].kind = "DISKON" -> {"discount"} [] rows[i].kind = "BUNDLE" -> {"buy", "reward"}
        [] OTHER -> {rows[i].kind}

\* Delete of products, events and shops: what describes a row goes with it,
\* unless an edit committed in between; a till, which never looks at the shop's
\* own row, does not see a shop that is gone; and a review outlives what it is
\* about, within reach of the moderators.
NothingOutlives ==
  /\ \A i \in Ids : ~rows[i].live /\ rows[i].res \in {"product", "event", "shop"} =>
       \/ rows[i].gallery = {} /\ (rows[i].refs = {} \/ rows[i].res = "product")
       \/ i \in contested
  /\ \A i \in Ids, staff \in Ids :
       AssignedShopProducts(staff, i) # {} => i \in Existing("shop")
  /\ Existing("review") \subseteq ReviewsListed(None)

\* Every request replaces only what its form carried; a shop's lists, the
\* gallery and the cover stay otherwise.
Partial(r) ==
  LET i == req[r].id  was == rows[i]  now == rows'[i] IN
    req[r].op = "edit" /\ req[r].at = "writing" /\ was # now =>
      /\ "cover" \notin In(r).pics => now.cover = was.cover
      /\ ~In(r).replace => was.gallery \subseteq now.gallery
      /\ \A l \in {"staff", "line"} \ In(r).lists :
           {ref \in now.refs : ref[1] = l} = {ref \in was.refs : ref[1] = l}
PartialEdits == [][\A r \in Requests : req'[r] # req[r] => Partial(r)]_cvars
=============================================================================
