---------------------------- MODULE MCBroadcast ----------------------------
(* Small instances of Broadcast for TLC.                                   *)
EXTENDS Broadcast

CONSTANTS u1, u2, u3, t1, t2, t3, b1

\* One device of u1, which is restless, and two of u2.
TwoPhones == [t \in Devices |-> IF t = t1 THEN u1 ELSE u2]
=============================================================================
