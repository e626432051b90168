---------------------------- MODULE MCCatalogue -----------------------------
(* Small instances of Catalogue for TLC.                                   *)
EXTENDS Catalogue, TLC

CONSTANTS r1, r2, n1, n2

\* Each resource against itself, and against those it refers to.
Scenes == {{"product", "type"}, {"product", "event"}, {"product", "shop"}, {"shop", "cashier"},
           {"banner"}, {"voucher"}, {"product", "review"}}

Slots == Permutations({r1, r2})
=============================================================================
