------------------------------ MODULE Sessions ------------------------------
(***************************************************************************)
(* Sessions in Redis and the requests that open and end them: sign-in,     *)
(* refresh, logout, change of password, and an operator blocking or        *)
(* unblocking the account.  Every command sent to Redis or PostgreSQL is a *)
(* step of its own; a MULTI/EXEC pipeline is one step.                     *)
(*                                                                         *)
(*   sign-in   checking -account read-> minting -Create-> answered         *)
(*   refresh   getting -> deleting -> retiring -> minting -> answered      *)
(*   logout    revoking -> finding -> dropping -> answered                 *)
(*   password  comparing -> storing -> listing -> reading -> wiping        *)
(*             -> retiring -> answered                                     *)
(*   status    deciding -> applying -> listing -> reading -> wiping        *)
(*             -> reloading -> answered                                    *)
(*                                                                         *)
(* A session token t stands for the pair the program issues together: the  *)
(* refresh token, whose record is kept in Redis, and the access token,     *)
(* whose jti can be blacklisted.                                           *)
(***************************************************************************)
EXTENDS Integers, FiniteSets

CONSTANTS
  Users,
  Tokens,      \* bound: every session there can ever be
  Requests,    \* request slots
  Kinds,       \* what clients ask for
  MaxVersion,  \* bound: how often a password changes
  MaxActions   \* bound: how often an account is blocked or unblocked

VARIABLES
  status,    \* users.status
  password,  \* users.password, as a version number
  actions,   \* actions[u]: how many account_actions rows there are about u
  records,   \* session:refresh:<hash>, the refresh records
  index,     \* session:user:<id>, the sessions an account can find
  revoked,   \* session:revoked:<jti>
  live,      \* tokens whose access token has not expired
  req,       \* the in-flight requests
  owner, cred, parent,    \* whose token, from which password, refreshed from
                          \* which token (history variables)
  ended, lockedOut, gone  \* what answered requests promised (history variables)

account  == <<status, password, actions>>
redis    == <<records, index, revoked>>
born     == <<owner, cred, parent>>
promises == <<ended, lockedOut, gone>>
vars     == <<account, redis, live, req, born, promises>>

None == "none"

ASSUME SessionConfig ==
  /\ None \notin Tokens
  /\ None \notin Users
  /\ Kinds \subseteq {"signin", "refresh", "logout", "password", "status"}
  /\ MaxVersion \in Nat
  /\ MaxActions \in Nat

Statuses == {"active", "blocked"}
Stage == {"answered", "checking", "getting", "deleting", "retiring", "minting",
          "revoking", "finding", "dropping", "comparing", "storing", "listing",
          "reading", "wiping", "deciding", "applying", "reloading"}
Request == [at: Stage, kind: Kinds \cup {None}, user: Users \cup {None},
            token: Tokens \cup {None}, other: Tokens \cup {None},
            version: Nat, status: Statuses \cup {None},
            keys: SUBSET Tokens, todo: SUBSET Tokens, ids: SUBSET Tokens,
            answer: {None, "ok", "refused", "failed"}]

NoRequest == [at |-> "answered", kind |-> None, user |-> None, token |-> None,
              other |-> None, version |-> 0, status |-> None, keys |-> {},
              todo |-> {}, ids |-> {}, answer |-> None]

Idle(r) == req[r].at = "answered"

Step(r, from, to) == req[r].at = from /\ req' = [req EXCEPT ![r].at = to]

\* The request ends: served, refused (4xx) or failed (5xx).
Reply(r, a) == req' = [req EXCEPT ![r] = [NoRequest EXCEPT !.answer = a]]

Receive(r, q) == Idle(r) /\ req' = [req EXCEPT ![r] = q]

Refuse(r) == Idle(r) /\ Reply(r, "refused")

Fresh(t) == owner[t] = None

\* middleware.Authenticate: a valid signature and not blacklisted.
Authentic(t) == t \in live /\ t \notin revoked

\* SessionStore.Revoke, always for a whole access lifetime.
Blacklist(T) == revoked' = revoked \cup T

\* Mutant of DropRecord: the record stays.
DropRecord_Dropped(t) == UNCHANGED <<records, index>>

\* SessionStore.Delete.
DropRecord(t) ==
  /\ records' = records \ {t}
  /\ index' = [index EXCEPT ![owner[t]] = @ \ {t}]

-----------------------------------------------------------------------------
Init ==
  /\ status = [u \in Users |-> "active"]
  /\ password = [u \in Users |-> 0]
  /\ actions = [u \in Users |-> 0]
  /\ records = {}
  /\ index = [u \in Users |-> {}]
  /\ revoked = {}
  /\ live = {}
  /\ req = [r \in Requests |-> NoRequest]
  /\ owner = [t \in Tokens |-> None]
  /\ cred = [t \in Tokens |-> 0]
  /\ parent = [t \in Tokens |-> None]
  /\ ended = [u \in Users |-> 0]
  /\ lockedOut = {}
  /\ gone = {}

(* POST /auth/login *)

AskSignIn(r) ==
  /\ \E u \in Users, v \in 0..MaxVersion :
       v <= password[u] /\ Receive(r, [NoRequest EXCEPT
         !.at = "checking", !.kind = "signin", !.user = u, !.version = v])
  /\ UNCHANGED <<account, redis, live, born, promises>>

\* Mutant of MaySignIn: the status is not looked at.
MaySignIn_AnyStatus(u) == TRUE

MaySignIn(u) == status[u] = "active"

\* FindByEmail; the password is compared before the status.
CheckAccount(r) ==
  /\ req[r].at = "checking"
  /\ \/ req[r].version # password[req[r].user] /\ Reply(r, "refused")
     \/ /\ req[r].version = password[req[r].user]
        /\ ~MaySignIn(req[r].user) /\ Reply(r, "refused")
     \/ /\ req[r].version = password[req[r].user] /\ MaySignIn(req[r].user)
        /\ Step(r, "checking", "minting")
  /\ UNCHANGED <<account, redis, live, born, promises>>

IndexSession(u, t) == index' = [index EXCEPT ![u] = @ \cup {t}]

\* issueSession: a new pair and its record.
Mint(r) ==
  /\ req[r].at = "minting"
  /\ \E t \in Tokens :
       /\ Fresh(t)
       /\ records' = records \cup {t}
       /\ IndexSession(req[r].user, t)
       /\ live' = live \cup {t}
       /\ owner' = [owner EXCEPT ![t] = req[r].user]
       /\ cred' = [cred EXCEPT ![t] = req[r].version]
       /\ parent' = [parent EXCEPT ![t] = req[r].token]
  /\ Reply(r, "ok")
  /\ UNCHANGED <<account, revoked, promises>>

(* POST /auth/refresh *)

AskRefresh(r) ==
  /\ \E t \in Tokens :
       ~Fresh(t) /\ Receive(r, [NoRequest EXCEPT
         !.at = "getting", !.kind = "refresh", !.token = t])
  /\ UNCHANGED <<account, redis, live, born, promises>>

GetSession(r) ==
  /\ req[r].at = "getting"
  /\ \/ req[r].token \notin records /\ Reply(r, "refused")
     \/ /\ req[r].token \in records
        /\ req' = [req EXCEPT ![r].at = "deleting", ![r].user = owner[req[r].token],
                              ![r].version = cred[req[r].token]]
  /\ UNCHANGED <<account, redis, live, born, promises>>

DeletePresented(r) ==
  /\ Step(r, "deleting", "retiring")
  /\ DropRecord(req[r].token)
  /\ UNCHANGED <<account, revoked, live, born, promises>>

\* Mutant of Retire: the old access token is not blacklisted.
Retire_Never(t) == UNCHANGED revoked

Retire(t) == Blacklist({t})

\* Revoke: the old access token of a refresh, the own one of a password change.
RetireToken(r) ==
  /\ req[r].at = "retiring"
  /\ Retire(req[r].token)
  /\ \/ req[r].kind = "refresh" /\ Step(r, "retiring", "minting") /\ UNCHANGED ended
     \/ /\ req[r].kind = "password" /\ Reply(r, "ok")
        /\ ended' = [ended EXCEPT ![req[r].user] =
             IF @ < req[r].version + 1 THEN req[r].version + 1 ELSE @]
  /\ UNCHANGED <<account, records, index, live, born, lockedOut, gone>>

(* POST /auth/logout *)

\* With the own access token t and, optionally, a refresh token.
AskLogout(r) ==
  /\ \E t \in Tokens, o \in Tokens \cup {None} :
       /\ t \in live
       /\ o # None => ~Fresh(o)
       /\ IF Authentic(t)
            THEN Receive(r, [NoRequest EXCEPT !.at = "revoking", !.kind = "logout",
                               !.user = owner[t], !.token = t, !.other = o])
            ELSE Refuse(r)
  /\ UNCHANGED <<account, redis, live, born, promises>>

\* What a successful logout promises.
LoggedOut(r) ==
  gone' = gone \cup {req[r].token}

RevokeAccess(r) ==
  /\ req[r].at = "revoking"
  /\ Blacklist({req[r].token})
  /\ \/ req[r].other = None /\ Reply(r, "ok") /\ LoggedOut(r)
     \/ req[r].other # None /\ Step(r, "revoking", "finding") /\ UNCHANGED gone
  /\ UNCHANGED <<account, records, index, live, born, ended, lockedOut>>

\* Mutant of Owns: whose refresh token it is does not matter.
Owns_Any(u, t) == TRUE

Owns(u, t) == owner[t] = u

FindSession(r) ==
  /\ req[r].at = "finding"
  /\ \/ req[r].other \notin records /\ Reply(r, "ok") /\ LoggedOut(r)
     \/ /\ req[r].other \in records /\ ~Owns(req[r].user, req[r].other)
        /\ Reply(r, "refused") /\ UNCHANGED gone
     \/ /\ req[r].other \in records /\ Owns(req[r].user, req[r].other)
        /\ Step(r, "finding", "dropping") /\ UNCHANGED gone
  /\ UNCHANGED <<account, redis, live, born, ended, lockedOut>>

DropSession(r) ==
  /\ req[r].at = "dropping"
  /\ DropRecord(req[r].other)
  /\ LoggedOut(r)
  /\ Reply(r, "ok")
  /\ UNCHANGED <<account, revoked, live, born, ended, lockedOut>>

(* PUT /profile/password *)

AskPassword(r) ==
  /\ \E t \in Tokens, v \in 0..MaxVersion :
       /\ t \in live
       /\ v <= password[owner[t]] /\ password[owner[t]] < MaxVersion
       /\ IF Authentic(t)
            THEN Receive(r, [NoRequest EXCEPT !.at = "comparing", !.kind = "password",
                               !.user = owner[t], !.token = t, !.version = v])
            ELSE Refuse(r)
  /\ UNCHANGED <<account, redis, live, born, promises>>

ComparePassword(r) ==
  /\ req[r].at = "comparing"
  /\ \/ req[r].version # password[req[r].user] /\ Reply(r, "refused")
     \/ /\ req[r].version = password[req[r].user]
        /\ Step(r, "comparing", "storing")
  /\ UNCHANGED <<account, redis, live, born, promises>>

\* UpdatePassword has no condition on the old password.  Versions only say
\* which password a session was opened with, so a second writer of the same
\* step is given the same version.
StorePassword(r) ==
  /\ Step(r, "storing", "listing")
  /\ password' = [password EXCEPT ![req[r].user] = req[r].version + 1]
  /\ UNCHANGED <<status, actions, redis, live, born, promises>>

(* PUT /customer/{id}/status *)

AskStatus(r) ==
  /\ \E u \in Users, s \in Statuses, self, reasoned \in BOOLEAN :
       /\ actions[u] < MaxActions
       /\ \/ self /\ Refuse(r)
          \/ ~self /\ s = "blocked" /\ ~reasoned /\ Refuse(r)
          \/ /\ ~self /\ (s = "blocked" => reasoned)
             /\ Receive(r, [NoRequest EXCEPT !.at = "deciding", !.kind = "status",
                              !.user = u, !.status = s])
  /\ UNCHANGED <<account, redis, live, born, promises>>

DecideStatus(r) ==
  /\ req[r].at = "deciding"
  /\ \/ status[req[r].user] = req[r].status /\ Reply(r, "refused")
     \/ /\ status[req[r].user] # req[r].status
        /\ Step(r, "deciding", "applying")
  /\ UNCHANGED <<account, redis, live, born, promises>>

\* The WHERE clause of ApplyStatus.
StatusDiffers(u, s) == status[u] # s

\* ApplyStatus: one transaction, whose UPDATE holds the row until the audit row
\* is in as well.  Only a blocked account loses its sessions.
ApplyStatus(r) ==
  LET u == req[r].user  s == req[r].status IN
  /\ req[r].at = "applying"
  /\ \/ ~StatusDiffers(u, s) /\ Reply(r, "refused") /\ UNCHANGED <<account, lockedOut>>
     \/ /\ StatusDiffers(u, s)
        /\ status' = [status EXCEPT ![u] = s]
        /\ actions' = [actions EXCEPT ![u] = @ + 1]
        /\ Step(r, "applying", IF s = "blocked" THEN "listing" ELSE "reloading")
        /\ lockedOut' = lockedOut \ {u}
        /\ UNCHANGED password
  /\ UNCHANGED <<redis, live, born, ended, gone>>

Reload(r) ==
  /\ req[r].at = "reloading"
  /\ Reply(r, "ok")
  /\ lockedOut' = IF req[r].status = "blocked" /\ status[req[r].user] = "blocked"
                    THEN lockedOut \cup {req[r].user} ELSE lockedOut
  /\ UNCHANGED <<account, redis, live, born, ended, gone>>

(* SessionStore.RevokeAllForUser *)

AfterSweep(r) == IF req[r].kind = "password" THEN "retiring" ELSE "reloading"

\* SMEMBERS.
ListSessions(r) ==
  /\ req[r].at = "listing"
  /\ LET keys == index[req[r].user] IN
       req' = [req EXCEPT ![r].at = IF keys = {} THEN AfterSweep(r) ELSE "reading",
                          ![r].keys = keys, ![r].todo = keys]
  /\ UNCHANGED <<account, redis, live, born, promises>>

\* The pipeline of HGETs is no transaction: other clients run in between.
ReadSession(r) ==
  /\ req[r].at = "reading"
  /\ \E t \in req[r].todo :
       req' = [req EXCEPT
         ![r].todo = @ \ {t},
         ![r].ids  = IF t \in records THEN @ \cup {t} ELSE @,
         ![r].at   = IF req[r].todo = {t} THEN "wiping" ELSE "reading"]
  /\ UNCHANGED <<account, redis, live, born, promises>>

\* Mutant of SweptRecords: the access tokens are blacklisted, no record deleted.
SweptRecords_None(q) == {}

SweptRecords(q) == q.keys

\* MULTI: blacklist what was read, delete what was listed, drop the index.
WipeSessions(r) ==
  /\ req[r].at = "wiping"
  /\ Blacklist(req[r].ids)
  /\ records' = records \ SweptRecords(req[r])
  /\ index' = [index EXCEPT ![req[r].user] = {}]
  /\ req' = [req EXCEPT ![r].at = AfterSweep(r), ![r].keys = {}, ![r].ids = {}]
  /\ UNCHANGED <<account, live, born, promises>>

(* The environment *)

\* A command fails or the client goes away.
Fail(r) ==
  /\ ~Idle(r)
  /\ Reply(r, "failed")
  /\ UNCHANGED <<account, redis, live, born, promises>>

Crash ==
  /\ \E r \in Requests : ~Idle(r)
  /\ req' = [r \in Requests |-> NoRequest]
  /\ UNCHANGED <<account, redis, live, born, promises>>

ExpireAccess(t) ==
  /\ t \in live
  /\ live' = live \ {t}
  /\ UNCHANGED <<account, redis, req, born, promises>>

\* Mutant of EntryOutlives: the entry is kept for less than a token's lifetime.
EntryOutlives_Short(t) == FALSE

\* A blacklist entry is set later than its token was issued, for as long.
EntryOutlives(t) == t \in live

ExpireEntry(t) ==
  /\ t \in revoked /\ ~EntryOutlives(t)
  /\ revoked' = revoked \ {t}
  /\ UNCHANGED <<account, records, index, live, req, born, promises>>

\* A refresh record expires, after its access token; the index still names it.
ExpireRecord(t) ==
  /\ t \in records \ live
  /\ records' = records \ {t}
  /\ UNCHANGED <<account, index, revoked, live, req, born, promises>>

Ask(r) ==
  \/ "signin" \in Kinds /\ AskSignIn(r)
  \/ "refresh" \in Kinds /\ AskRefresh(r)
  \/ "logout" \in Kinds /\ AskLogout(r)
  \/ "password" \in Kinds /\ AskPassword(r)
  \/ "status" \in Kinds /\ AskStatus(r)

Work(r) ==
  \/ CheckAccount(r) \/ Mint(r) \/ GetSession(r) \/ DeletePresented(r)
  \/ RetireToken(r) \/ RevokeAccess(r) \/ FindSession(r) \/ DropSession(r)
  \/ ComparePassword(r) \/ StorePassword(r) \/ DecideStatus(r) \/ ApplyStatus(r)
  \/ Reload(r) \/ ListSessions(r) \/ ReadSession(r) \/ WipeSessions(r)

Next ==
  \/ \E r \in Requests : Ask(r) \/ Work(r) \/ Fail(r)
  \/ Crash
  \/ \E t \in Tokens : ExpireAccess(t) \/ ExpireEntry(t) \/ ExpireRecord(t)

Spec == Init /\ [][Next]_vars

-----------------------------------------------------------------------------
\* Every variable has its type, and the index of an account names sessions of
\* this account only.
TypeOK ==
  /\ status \in [Users -> Statuses]
  /\ password \in [Users -> Nat]
  /\ actions \in [Users -> Nat]
  /\ records \subseteq Tokens
  /\ index \in [Users -> SUBSET Tokens]
  /\ \A u \in Users : \A t \in index[u] : owner[t] = u
  /\ revoked \subseteq Tokens
  /\ live \subseteq Tokens
  /\ req \in [Requests -> Request]
  /\ owner \in [Tokens -> Users \cup {None}]
  /\ cred \in [Tokens -> Nat]
  /\ parent \in [Tokens -> Tokens \cup {None}]
  /\ ended \in [Users -> Nat]
  /\ lockedOut \subseteq Users
  /\ gone \subseteq Tokens

Dead(t) == t \notin records /\ (t \in live => t \in revoked)

\* Refresh rotates: from the moment a new pair exists, the one it was refreshed
\* from is dead, record and access token both.
RotatedTokenIsDead ==
  \A t \in Tokens : parent[t] # None => Dead(parent[t])

\* After a logout that answered 200 the access token is never valid again.
LoggedOutStaysOut == \A t \in gone : t \in live => t \in revoked

\* ApplyStatus: "two operators acting on one account cannot both succeed and
\* leave two contradictory audit rows": blocks and unblocks alternate.
AuditAlternates ==
  \A u \in Users : status[u] = "blocked" <=> actions[u] % 2 = 1

EndedByOwner ==
  \A t \in Tokens : t \in records /\ t \notin records' =>
    \/ ExpireRecord(t)
    \/ \E r \in Requests : req[r].user = owner[t] /\ req'[r] # req[r]

\* Logout: "Presenting someone else's refresh token must not delete their
\* session": a record only ever disappears by a request of its owner, a status
\* change of the owner, or its expiry.
OthersKeepTheirSessions == [][EndedByOwner]_vars

\* SetStatus: "Every session the account holds is revoked": an account an
\* operator was told is blocked has no refresh record left.
BlockedHasNoSession ==
  \A t \in records : owner[t] \notin lockedOut

\* ChangePassword: "Every session must end, not just the one that made this
\* request": after a 200 none opened with an older password is left.
PasswordChangeEndsSessions ==
  \A t \in records : cred[t] >= ended[owner[t]]

\* Refresh: "the presented refresh token is single use".
RefreshIsSingleUse ==
  \A t, s \in Tokens : parent[t] = parent[s] /\ parent[t] # None => t = s

\* SetStatus: "Retrying is safe ...: ApplyStatus becomes a no-op while the
\* revocation is what actually needs repeating": an account that a block is
\* refused for, because it is blocked already, has lost its sessions.
RefusedBlockMeansLockedOut ==
  [][\A r \in Requests :
       /\ req[r].at = "deciding" /\ req[r].status = "blocked"
       /\ req'[r].answer = "refused"
       => \A t \in records : owner[t] # req[r].user]_vars
=============================================================================
