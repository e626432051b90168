------------------------------- MODULE SignIn -------------------------------
(***************************************************************************)
(* How a person becomes an account: by a code sent to a phone, by a Google *)
(* or Apple token, by password, or by being registered.  Every Redis       *)
(* command (or MULTI) and every SQL statement is a step; a request that    *)
(* stands between two of them has read what may no longer be true.         *)
(*                                                                         *)
(*   start     cooling -> storing -> sending                               *)
(*   verify    reading -> counting -> judging | burning -> identity ...    *)
(*   social    identity ...                                                *)
(*   register  checking -> creating -> linking                             *)
(*   login     allowing -> finding -> resetting -> entering                *)
(*   identity -> loading -> entering                                       *)
(*   identity -> contact -> [creating] -> linking -> [marking] -> entering *)
(***************************************************************************)
EXTENDS Integers, FiniteSets

CONSTANTS
  Requests,    \* bound: each slot serves one request
  Kinds,       \* the operations that are asked for
  Phones, Emails,
  Subjects,    \* accounts at Google or Apple
  Email,       \* Email[s]: the address the provider reports for s, or None
  Vouched,     \* the subjects whose address the provider says is verified
  MaxAttempts, \* guesses of a code
  MaxLogins    \* password attempts in a window

VARIABLES
  users,       \* the users table, soft-deleted rows included
  identities,  \* user_identities: (provider, subject) -> account
  otp,         \* otp:code:<phone>
  cooldown,    \* otp:cooldown:<phone> exists
  failures,    \* login:<email>
  req,
  entered,     \* sign-ins that succeeded (history variable)
  spends,      \* how often a code was accepted (history variable)
  guesses,     \* comparisons counted on the code's own counter (history variable)
  crowded,     \* codes two requests checked at once (history variable)
  proven       \* the accounts a request itself created (history variable)

accounts == <<users, identities>>
redis    == <<otp, cooldown, failures>>
history  == <<entered, spends, guesses, crowded, proven>>
vars     == <<accounts, redis, req, history>>

None == "none"
\* The account and the code a request creates are named after it; Office and
\* the code a number was sent before, named after the number, were there.
Office == "office"
Accounts == Requests \cup {Office}
Codes    == Requests \cup Phones

AllKinds == {"start", "verify", "social", "register", "login"}

ASSUME SignInConfig ==
  /\ MaxAttempts \in Nat \ {0}
  /\ MaxLogins \in Nat \ {0}
  /\ Kinds \subseteq AllKinds
  /\ Email \in [Subjects -> Emails \cup {None}]
  /\ Vouched \subseteq Subjects
  /\ {None, Office} \cap Requests = {}
  /\ None \notin Phones /\ Phones \cap Requests = {}
  /\ None \notin Emails

Keys == ({"phone"} \X Phones) \cup ({"social"} \X Subjects) \cup ({"password"} \X Emails)

Row == [phone: Phones \cup {None}, email: Emails \cup {None}, password: BOOLEAN,
        verified: BOOLEAN, active: BOOLEAN, deleted: BOOLEAN]
NoRow == [phone |-> None, email |-> None, password |-> FALSE, verified |-> FALSE,
          active |-> FALSE, deleted |-> TRUE]

Pending == [code: Codes \cup {None}, attempts: Nat, expires: BOOLEAN]
NoCode == [code |-> None, attempts |-> 0, expires |-> TRUE]

Stage == {"idle", "cooling", "storing", "sending", "reading", "counting", "judging",
          "burning", "identity", "loading", "contact", "checking", "creating", "linking",
          "marking", "allowing", "finding", "resetting", "entering", "answered"}
Request == [at: Stage, kind: AllKinds \cup {None}, key: Keys \cup {<<None, None>>},
            guess: Codes \cup {"right", None}, seen: Codes \cup {None},
            acct: Accounts \cup {None}, active: BOOLEAN, answer: {None, "ok", "refused", "failed"}]
NoRequest == [at |-> "idle", kind |-> None, key |-> <<None, None>>, guess |-> None,
              seen |-> None, acct |-> None, active |-> FALSE, answer |-> None]

At(r, stage) == req[r].at = stage
Kind(r) == req[r].kind
Of(r) == req[r].key[2]
Goto(r, stage) == req' = [req EXCEPT ![r].at = stage]
Reply(r, a) ==
  req' = [req EXCEPT ![r] = [at |-> "answered", kind |-> None, key |-> <<None, None>>,
                             guess |-> None, seen |-> None, acct |-> None, active |-> FALSE,
                             answer |-> a]]

\* An account as a query returns it: its id and whether it was active then.
Holding(r, a, stage) ==
  req' = [req EXCEPT ![r].at = stage, ![r].acct = a, ![r].active = users[a].active]

Exists(a) == users[a] # NoRow
Live(a) == Exists(a) /\ ~users[a].deleted

Start(kind) == CASE kind = "start" -> "cooling" [] kind = "verify" -> "reading"
                 [] kind = "social" -> "identity" [] kind = "register" -> "checking"
                 [] kind = "login" -> "allowing"

Proofs(kind) == CASE kind = "verify" -> Codes
                  [] kind = "login" -> {"right", None}
                  [] OTHER -> {None}

Via(kind) == CASE kind \in {"start", "verify"} -> {"phone"} \X Phones
               [] kind = "social" -> {"social"} \X Subjects
               [] OTHER -> {"password"} \X Emails

\* Accounts the back office registered before there were identities: with a
\* number, or with an address and a password; and a code sent a moment ago.
Init ==
  /\ \E phone \in Phones \cup {None}, email \in Emails \cup {None} :
       users = [a \in Accounts |->
                  IF a = Office /\ <<phone, email>> # <<None, None>>
                  THEN [phone |-> phone, email |-> email, password |-> email # None,
                        verified |-> FALSE, active |-> TRUE, deleted |-> FALSE]
                  ELSE NoRow]
  /\ identities = [k \in Keys |-> None]
  /\ \E sent \in BOOLEAN :
       /\ otp = [p \in Phones |-> IF sent THEN [code |-> p, attempts |-> 0, expires |-> TRUE]
                                         ELSE NoCode]
       /\ cooldown = [p \in Phones |-> sent]
  /\ failures = [e \in Emails |-> 0]
  /\ req = [r \in Requests |-> NoRequest]
  /\ entered = {}
  /\ spends = [c \in Codes |-> 0]
  /\ guesses = [c \in Codes |-> 0]
  /\ crowded = {}
  /\ proven = {}

\* A request arrives.  For a social one the provider's token has been verified;
\* an invalid one ends before it reaches any state.
Arrive(r) ==
  /\ At(r, "idle")
  /\ \E kind \in Kinds : \E key \in Via(kind), guess \in Proofs(kind) :
       req' = [req EXCEPT ![r] = [at |-> Start(kind), kind |-> kind, key |-> key, guess |-> guess,
                                  seen |-> None, acct |-> None, active |-> FALSE, answer |-> None]]
  /\ UNCHANGED <<accounts, redis, history>>

-----------------------------------------------------------------------------
(* Phone: asking for a code                                                *)

CheckCooldown(r) ==
  /\ At(r, "cooling")
  /\ IF cooldown[Of(r)] THEN Reply(r, "refused") ELSE Goto(r, "storing")
  /\ UNCHANGED <<accounts, redis, history>>

\* Mutant of Issued: the EXPIRE of the MULTI is missing.
Issued_Immortal(r) == [code |-> r, attempts |-> 0, expires |-> FALSE]

\* DEL, HSET and EXPIRE leave exactly this.
Issued(r) == [code |-> r, attempts |-> 0, expires |-> TRUE]

\* One MULTI: the code replaces whatever was there, and the cooldown starts.
StoreCode(r) ==
  /\ At(r, "storing")
  /\ otp' = [otp EXCEPT ![Of(r)] = Issued(r)]
  /\ cooldown' = [cooldown EXCEPT ![Of(r)] = TRUE]
  /\ Goto(r, "sending")
  /\ UNCHANGED <<accounts, failures, history>>

\* The SMS goes out; if it does not, Fail answers and the cooldown stays.
SendCode(r) ==
  /\ At(r, "sending")
  /\ Reply(r, "ok")
  /\ UNCHANGED <<accounts, redis, history>>

-----------------------------------------------------------------------------
(* Phone: presenting one                                                   *)

Checking(r, c) == req[r].at \in {"counting", "judging"} /\ req[r].seen = c

\* HGETALL: the hash the guess will be compared with is this one.
ReadCode(r) ==
  /\ At(r, "reading")
  /\ LET p == Of(r) IN
       IF otp[p] = NoCode
       THEN /\ Reply(r, "refused")
            /\ UNCHANGED crowded
       ELSE /\ req' = [req EXCEPT ![r].at = "counting", ![r].seen = otp[p].code]
            /\ crowded' = IF \E o \in Requests : Checking(o, otp[p].code)
                          THEN crowded \cup {otp[p].code} ELSE crowded
  /\ UNCHANGED <<accounts, redis, entered, spends, guesses, proven>>

\* HINCRBY: on a key that has gone meanwhile it creates one, with a counter,
\* no hash and no expiry.
Counted(p) ==
  IF otp[p] = NoCode THEN [code |-> None, attempts |-> 1, expires |-> FALSE]
                     ELSE [otp[p] EXCEPT !.attempts = @ + 1]

\* Mutant of Permitted: judged on the number of attempts before this one.
Permitted_Before(n) == n - 1 <= MaxAttempts

\* The code is burnt by the first attempt above the limit.
Permitted(n) == n <= MaxAttempts

CountAttempt(r) ==
  /\ At(r, "counting")
  /\ LET p == Of(r)
         now == Counted(p)
         allowed == Permitted(now.attempts)
         c == req[r].seen IN
       /\ otp' = [otp EXCEPT ![p] = now]
       /\ Goto(r, IF allowed THEN "judging" ELSE "burning")
       /\ guesses' = IF allowed /\ c # None /\ now.code = c
                     THEN [guesses EXCEPT ![c] = @ + 1] ELSE guesses
  /\ UNCHANGED <<accounts, cooldown, failures, entered, spends, crowded, proven>>

Burn(r) ==
  /\ At(r, "burning")
  /\ otp' = [otp EXCEPT ![Of(r)] = NoCode]
  /\ Reply(r, "refused")
  /\ UNCHANGED <<accounts, cooldown, failures, history>>

Mismatch(r) ==
  /\ At(r, "judging")
  /\ req[r].guess # req[r].seen
  /\ Reply(r, "refused")
  /\ UNCHANGED <<accounts, redis, history>>

\* Mutant of Spent: an accepted code stays in Redis until it expires.
Spent_Kept(p) == otp[p]

\* DEL of an accepted code; how many keys it deleted is not looked at.
Spent(p) == NoCode

Consume(r) ==
  /\ At(r, "judging")
  /\ req[r].guess = req[r].seen
  /\ otp' = [otp EXCEPT ![Of(r)] = Spent(Of(r))]
  /\ spends' = [spends EXCEPT ![req[r].seen] = @ + 1]
  /\ Goto(r, "identity")
  /\ UNCHANGED <<accounts, cooldown, failures, entered, guesses, crowded, proven>>

-----------------------------------------------------------------------------
(* Whose account is it                                                     *)

FindIdentity(r) ==
  /\ At(r, "identity")
  /\ LET a == identities[req[r].key] IN
       IF a = None THEN Goto(r, "contact")
       ELSE req' = [req EXCEPT ![r].at = "loading", ![r].acct = a]
  /\ UNCHANGED <<accounts, redis, history>>

\* FindByID does not see a soft-deleted account.
LoadAccount(r) ==
  /\ At(r, "loading")
  /\ IF Live(req[r].acct) THEN Holding(r, req[r].acct, "entering") ELSE Reply(r, "failed")
  /\ UNCHANGED <<accounts, redis, history>>

HasPhone(p) == {a \in Accounts : Live(a) /\ users[a].phone = p}
HasEmail(e) == {a \in Accounts : Live(a) /\ users[a].email = e}

\* The number of a verified code may be on an account that has no identity
\* yet; that account is adopted.
FindByPhone(r) ==
  /\ At(r, "contact")
  /\ Kind(r) = "verify"
  /\ IF HasPhone(Of(r)) = {} THEN Goto(r, "creating")
     ELSE \E a \in HasPhone(Of(r)) : Holding(r, a, "linking")
  /\ UNCHANGED <<accounts, redis, history>>

\* Mutant of MayLink: any address the provider reports is believed.
MayLink_Always(s) == s \in Subjects

\* Linking is only safe when the provider says the address is verified.
MayLink(s) == s \in Vouched

FindByEmail(r) ==
  /\ At(r, "contact")
  /\ Kind(r) = "social"
  /\ LET s == Of(r)
         found == IF Email[s] = None THEN {} ELSE HasEmail(Email[s]) IN
       \/ found = {} /\ Goto(r, "creating")
       \/ found # {} /\ ~MayLink(s) /\ Reply(r, "refused")
       \/ MayLink(s) /\ \E a \in found : Holding(r, a, "linking")
  /\ UNCHANGED <<accounts, redis, history>>

\* The row a request would insert: what the phone, the provider or the back
\* office vouches for.
NewRow(r) ==
  LET k == req[r].key IN
  [phone    |-> IF k[1] = "phone" THEN k[2] ELSE None,
   email    |-> CASE k[1] = "social" -> Email[k[2]] [] k[1] = "password" -> k[2] [] OTHER -> None,
   password |-> k[1] = "password",
   verified |-> k[1] = "social" /\ k[2] \in Vouched,
   active   |-> TRUE, deleted |-> FALSE]

\* The unique indexes cover soft-deleted rows too, and leave NULLs alone.
Unique(row) ==
  \A a \in Accounts : Exists(a) =>
    /\ row.phone # None => users[a].phone # row.phone
    /\ row.email # None => users[a].email # row.email

CreateAccount(r) ==
  /\ At(r, "creating")
  /\ IF Unique(NewRow(r))
     THEN /\ users' = [users EXCEPT ![r] = NewRow(r)]
          /\ proven' = proven \cup {r}
          /\ req' = [req EXCEPT ![r].at = "linking", ![r].acct = r, ![r].active = TRUE]
     ELSE /\ Reply(r, "failed")
          /\ UNCHANGED <<users, proven>>
  /\ UNCHANGED <<identities, redis, entered, spends, guesses, crowded>>

\* Mutant of Linkable: (provider, subject) is not unique and the last one wins.
Linkable_Overwrites(k) == k \in Keys

\* idx_identity_provider_subject.
Linkable(k) == identities[k] = None

\* What follows a link: a back-office registration is over, a provider may
\* have vouched for an address that was not verified yet, the others enter.
AfterLink(r) ==
  CASE Kind(r) = "register" -> "answered"
    [] Kind(r) = "social" /\ ~users[req[r].acct].verified /\ Of(r) \in Vouched -> "marking"
    [] OTHER -> "entering"

Link(r) ==
  /\ At(r, "linking")
  /\ IF Linkable(req[r].key)
     THEN /\ identities' = [identities EXCEPT ![req[r].key] = req[r].acct]
          /\ IF AfterLink(r) = "answered" THEN Reply(r, "ok") ELSE Goto(r, AfterLink(r))
     ELSE /\ Reply(r, "failed")
          /\ UNCHANGED identities
  /\ UNCHANGED <<users, redis, history>>

\* Best effort: the update may fail and the sign-in goes on.
MarkEmailVerified(r) ==
  /\ At(r, "marking")
  /\ \/ users' = [users EXCEPT ![req[r].acct].verified = TRUE]
     \/ UNCHANGED users
  /\ Goto(r, "entering")
  /\ UNCHANGED <<identities, redis, history>>

\* The status is the one that was loaded with the account.
IssueSession(r) ==
  /\ At(r, "entering")
  /\ IF req[r].active
     THEN Reply(r, "ok") /\ entered' = entered \cup {<<req[r].key, req[r].acct>>}
     ELSE Reply(r, "refused") /\ UNCHANGED entered
  /\ UNCHANGED <<accounts, redis, spends, guesses, crowded, proven>>

-----------------------------------------------------------------------------
(* Password                                                                *)

\* SELECT EXISTS over the accounts that are not deleted.
CheckAvailable(r) ==
  /\ At(r, "checking")
  /\ IF HasEmail(Of(r)) = {} THEN Goto(r, "creating") ELSE Reply(r, "refused")
  /\ UNCHANGED <<accounts, redis, history>>

\* INCR, with an expiry if there is none: every attempt counts, good or not.
AllowLogin(r) ==
  /\ At(r, "allowing")
  /\ failures' = [failures EXCEPT ![Of(r)] = @ + 1]
  /\ IF failures[Of(r)] + 1 <= MaxLogins THEN Goto(r, "finding") ELSE Reply(r, "refused")
  /\ UNCHANGED <<accounts, otp, cooldown, history>>

FindLogin(r) ==
  /\ At(r, "finding")
  /\ LET found == {a \in HasEmail(Of(r)) : users[a].password} IN
       \/ found # {} /\ req[r].guess = "right"
          /\ \E a \in found : IF users[a].active THEN Holding(r, a, "resetting")
                                                 ELSE Reply(r, "refused")
       \/ (found = {} \/ req[r].guess # "right") /\ Reply(r, "refused")
  /\ UNCHANGED <<accounts, redis, history>>

\* Only a successful login clears the counter.
ResetLogins(r) ==
  /\ At(r, "resetting")
  /\ failures' = [failures EXCEPT ![Of(r)] = 0]
  /\ Goto(r, "entering")
  /\ UNCHANGED <<accounts, otp, cooldown, history>>

-----------------------------------------------------------------------------
(* Everything else that happens                                            *)

\* A statement fails, the provider of SMS does, or the process dies.
Fail(r) ==
  /\ req[r].at \notin {"idle", "answered"}
  /\ Reply(r, "failed")
  /\ UNCHANGED <<accounts, redis, history>>

ExpireCode(p) ==
  /\ otp[p] # NoCode
  /\ otp[p].expires
  /\ otp' = [otp EXCEPT ![p] = NoCode]
  /\ UNCHANGED <<accounts, cooldown, failures, req, history>>

ExpireCooldown(p) ==
  /\ cooldown[p]
  /\ cooldown' = [cooldown EXCEPT ![p] = FALSE]
  /\ UNCHANGED <<accounts, otp, failures, req, history>>

ExpireLogins(e) ==
  /\ failures[e] > 0
  /\ failures' = [failures EXCEPT ![e] = 0]
  /\ UNCHANGED <<accounts, otp, cooldown, req, history>>

\* The back office blocks an account, or deletes it softly.
Suspend(a) ==
  /\ Live(a)
  /\ \/ users[a].active /\ users' = [users EXCEPT ![a].active = FALSE]
     \/ users' = [users EXCEPT ![a].deleted = TRUE]
  /\ UNCHANGED <<identities, redis, req, history>>

Handle(r) ==
  \/ Arrive(r) \/ CheckCooldown(r) \/ StoreCode(r) \/ SendCode(r)
  \/ ReadCode(r) \/ CountAttempt(r) \/ Burn(r) \/ Mismatch(r) \/ Consume(r)
  \/ FindIdentity(r) \/ LoadAccount(r) \/ FindByPhone(r) \/ FindByEmail(r)
  \/ CreateAccount(r) \/ Link(r) \/ MarkEmailVerified(r) \/ IssueSession(r)
  \/ CheckAvailable(r) \/ AllowLogin(r) \/ FindLogin(r) \/ ResetLogins(r) \/ Fail(r)

Next ==
  \/ \E r \in Requests : Handle(r)
  \/ \E p \in Phones : ExpireCode(p) \/ ExpireCooldown(p)
  \/ \E e \in Emails : ExpireLogins(e)
  \/ \E a \in Accounts : Suspend(a)

Spec == Init /\ [][Next]_vars

-----------------------------------------------------------------------------
(* Types of everything, and what a stage says about the request in it.     *)
TypeOK ==
  /\ users \in [Accounts -> Row \cup {NoRow}]
  /\ identities \in [Keys -> Accounts \cup {None}]
  /\ otp \in [Phones -> Pending]
  /\ cooldown \in [Phones -> BOOLEAN]
  /\ failures \in [Emails -> Nat]
  /\ req \in [Requests -> Request]
  /\ entered \subseteq Keys \X Accounts
  /\ spends \in [Codes -> Nat]
  /\ guesses \in [Codes -> Nat]
  /\ crowded \subseteq Codes \cup {None}
  /\ proven \subseteq Requests

\* Store.Verify deletes an accepted code: as long as no two requests check it
\* at the same time it opens one session at most.  "So it cannot be replayed"
\* does not hold for two that do: neither looks at what its DEL deleted.
CodeSpentOnce == \A c \in Codes \ crowded : spends[c] <= 1

\* However many requests guess at once, a code is compared with no more guesses
\* than the limit allows.
GuessesBounded == \A c \in Codes : guesses[c] <= MaxAttempts

\* A counter that outlived its code, which Redis keeps for ever, holds nothing
\* that could be accepted.
NoImmortalCode == \A p \in Phones : otp[p].expires \/ otp[p].code = None

\* An address the provider does not vouch for never opens an account that
\* somebody else made, whenever that account appeared.
LinkingNeedsProof ==
  \A s \in Subjects \ Vouched :
    LET a == identities[<<"social", s>>] IN
    a # None => a \in proven /\ ~users[a].password /\ users[a].phone = None

\* A key belongs to the account that got it first, and nobody ever enters
\* another one with it.  Passwords are kept on the account itself.
Owner == [k \in Keys |->
  IF k[1] # "password" THEN identities[k]
  ELSE LET held == {a \in Accounts : users[a].password /\ users[a].email = k[2]} IN
       IF held = {} THEN None ELSE CHOOSE a \in held : TRUE]

Abs == INSTANCE SignInAbstract WITH
  Keys     <- Keys,
  Accounts <- Accounts,
  None     <- None,
  owner    <- Owner,
  entered  <- entered

OneAccountPerKey == Abs!ASpec
=============================================================================
