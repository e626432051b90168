------------------------------ MODULE MCSignIn ------------------------------
(* Small instances of SignIn for TLC.                                      *)
EXTENDS SignIn, TLC

CONSTANTS r1, r2, r3, p1, e1, s1, s2, s3

\* s1's address is verified, s2 reports the same one unverified, s3 hides it.
Addresses == (s1 :> e1) @@ (s2 :> e1) @@ (s3 :> None)

Slots == Permutations({r1, r2})
=============================================================================
