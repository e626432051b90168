--------------------------- MODULE MCPointLedger ---------------------------
(* Small instances of PointLedger for TLC.                                 *)
EXTENDS PointLedger, TLC

CONSTANTS r1, r2

\* The slots are interchangeable.
Slots == Permutations({r1, r2})

\* A negative amount, nothing, a legal one and one beyond the cap.
Amounts == {-1, 0, 2, 3}
=============================================================================
