------------------------------- MODULE Banner -------------------------------
(* Banners: one picture and a name; nothing refers to a banner.           *)
EXTENDS Assets

BannerForms(op) ==
  [name: Names, pics: IF op = "create" THEN {{"cover"}} ELSE {{}, {"cover"}}, replace: {FALSE},
   lists: {{}}, refs: {{}}, kind: {None}, active: {TRUE}]

BannerArrives(r) ==
  /\ Idle(r)
  /\ \/ \E f \in BannerForms("create") : Receive(r, "banner", "create", r, f, "checking")
     \/ \E i \in Existing("banner") :
          \/ \E f \in BannerForms("edit") : Receive(r, "banner", "edit", i, f, "finding")
          \/ Receive(r, "banner", "delete", i, NoForm, "finding")
          \/ Receive(r, "banner", "status", i, [NoForm EXCEPT !.active = FALSE], "setting")

BannerFind(r) ==
  /\ At(r, "banner", "finding")
  /\ Find(r, IF Op(r) = "edit" THEN "checking" ELSE "writing")

BannerCheckName(r) == At(r, "banner", "checking") /\ CheckName(r, Storing(r))

BannerInsert(r) ==
  /\ At(r, "banner", "writing") /\ Op(r) = "create"
  /\ Commit(r, [NoRow EXCEPT !.res = "banner", !.live = TRUE, !.name = In(r).name,
                             !.active = In(r).active, !.cover = {Picture(r, "cover")}], "dropping")

BannerUpdate(r) ==
  /\ At(r, "banner", "writing") /\ Op(r) = "edit"
  /\ Edit(r, [rows[Id(r)] EXCEPT !.name = In(r).name, !.cover = NewCover(r)])

BannerDelete(r) ==
  /\ At(r, "banner", "writing") /\ Op(r) = "delete"
  /\ Remove(r, rows[Id(r)])

BannerStatus(r) == At(r, "banner", "setting") /\ SetStatus(r)

BannerShown(i) == rows[i].cover

BannerStep(r) ==
  \/ BannerArrives(r) \/ BannerFind(r) \/ BannerCheckName(r) \/ BannerInsert(r)
  \/ BannerUpdate(r) \/ BannerDelete(r) \/ BannerStatus(r)
=============================================================================
