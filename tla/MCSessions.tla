----------------------------- MODULE MCSessions -----------------------------
(* Small instances of Sessions for TLC.                                    *)
EXTENDS Sessions, TLC

CONSTANTS r1, r2, t1, t2, t3

Devices == {"signin", "refresh", "logout"}
Operator == {"signin", "refresh", "status"}
Ending == {"signin", "refresh", "password", "status"}

\* Slots and tokens are interchangeable.
Interchangeable == Permutations({r1, r2}) \cup Permutations({t1, t2, t3})
=============================================================================
