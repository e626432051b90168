------------------------- MODULE MCCustomerAddress -------------------------
(* Small instances of CustomerAddress for TLC.                             *)
EXTENDS CustomerAddress, TLC

CONSTANTS r1, r2, u1, u2

OneField == {{"label"}}

All == {"create", "delete", "default", "edit"}

Interchangeable == Permutations({r1, r2}) \cup Permutations({u1, u2})
=============================================================================
