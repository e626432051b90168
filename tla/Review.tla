-------------------------------- MODULE Review ------------------------------
(* Reviews: customers write them; moderators list, hide and remove them.   *)
EXTENDS Assets

\* The list and the page of one review.  The joins are outer: a review stays
\* when its product or its author is gone.
ReviewsListed(query) ==
  {i \in Existing("review") : query # None => rows[i].active = (query = "visible")}

\* Moderators act on what they see in one of the lists.
ReviewArrives(r) ==
  /\ Idle(r)
  /\ \E query \in {None, "visible", "hidden"} : \E i \in ReviewsListed(query) :
       \/ Receive(r, "review", "delete", i, NoForm, "writing")
       \/ \E a \in BOOLEAN :
            Receive(r, "review", "status", i, [NoForm EXCEPT !.active = a], "setting")

ReviewDelete(r) == At(r, "review", "writing") /\ Remove(r, rows[Id(r)])

ReviewStatus(r) == At(r, "review", "setting") /\ SetStatus(r)

ReviewStep(r) == ReviewArrives(r) \/ ReviewDelete(r) \/ ReviewStatus(r)
=============================================================================
