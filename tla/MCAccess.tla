------------------------------ MODULE MCAccess ------------------------------
(* Small instances of Access for TLC.                                      *)
EXTENDS Access, TLC

CONSTANTS p1, p2, r1, r2, a1, a2

\* A fresh file, an edited one, and a release with the catalogue.
Embedded == {<<"init">>, <<"init", "catalogue">>, <<"edited", "catalogue">>}

Spellings == {"superadmin", "Superadmin", "admin", "Admin"}
ToLower == [n \in Spellings |-> CASE n = "Superadmin" -> "superadmin" [] n = "Admin" -> "admin"
                                    [] OTHER -> n]
InOrder == <<"superadmin", "admin">>
Staff == [a \in {a1, a2} |-> IF a = a1 THEN "superadmin" ELSE "admin"]
Matrices == {{}, {"read"}, {"write"}, {"read", "write"}, {"typo"}}

\* Two commands, or one beside two requests.
Scenes == {{p1, p2}, {p1, r1, r2}}
=============================================================================
