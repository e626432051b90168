--------------------------- MODULE SignInAbstract ---------------------------
(***************************************************************************)
(* What sign-in promises: a key (a number, a provider's subject, an        *)
(* address with a password) belongs to one account, to the first that gets *)
(* it and for ever, and whoever proves the key enters that account and no  *)
(* other.  Codes, tokens, tables and races are in SignIn.                  *)
(***************************************************************************)
CONSTANTS Keys, Accounts, None

VARIABLES
  owner,     \* the account a key opens
  entered    \* the sign-ins that succeeded, as <<key, account>>

avars == <<owner, entered>>

AInit ==
  /\ owner \in [Keys -> Accounts \cup {None}]
  /\ entered = {}

Claim(k, a) ==
  /\ owner[k] = None
  /\ owner' = [owner EXCEPT ![k] = a]
  /\ UNCHANGED entered

Enter(k) ==
  /\ owner[k] # None
  /\ entered' = entered \cup {<<k, owner[k]>>}
  /\ UNCHANGED owner

ANext == \E k \in Keys : Enter(k) \/ \E a \in Accounts : Claim(k, a)

ASpec == AInit /\ [][ANext]_avars
=============================================================================
