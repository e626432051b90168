--------------------------- MODULE Sessions_proofs ---------------------------
(***************************************************************************)
(* For any accounts, tokens and requests: a rotated pair is dead, a logged *)
(* out access token stays out, blocks and unblocks alternate, and nobody   *)
(* else's request ends a session.  And for requests that do not overlap in *)
(* the ways named there (OneRefresh, Apart, OnePassword): a refresh token  *)
(* is used once, a block and a change of password end the sessions.        *)
(*                                                                         *)
(* The first four rest on one observation (Ages): a token once issued      *)
(* never changes hands, its record never comes back, and its blacklist     *)
(* entry outlives its access token.  So what a request established before  *)
(* it waited for Redis still holds after, whatever ran in between          *)
(* (FlightOK).                                                             *)
(* The others follow the sweep of an account's sessions key by key (Swept) *)
(* and what is promised once it is over (Locked, PasswordsInv).            *)
(***************************************************************************)
EXTENDS Sessions, TLAPS

Out(t) == t \in live => t \in revoked

\* What is known about a request from the stage it has reached.
FlightOK(q) ==
  /\ q.token # None => ~Fresh(q.token)
  /\ q.other # None => ~Fresh(q.other)
  /\ q.at \notin {"answered", "getting"} => q.user \in Users
  /\ q.at \in {"getting", "deleting", "retiring", "revoking", "finding",
               "dropping", "comparing", "storing"} => q.token # None
  /\ q.at = "deleting" => owner[q.token] = q.user /\ q.kind = "refresh"
  /\ q.at = "retiring" /\ q.kind = "refresh" => q.token \notin records
  /\ q.at = "minting" /\ q.token # None => Dead(q.token)
  /\ q.at \in {"finding", "dropping"} => q.other # None /\ Out(q.token)
  /\ q.at = "dropping" => owner[q.other] = q.user
  /\ q.at = "checking" => q.token = None
  /\ q.at = "getting" => q.kind = "refresh"
  /\ q.at \in {"comparing", "storing"} => q.kind = "password"
  /\ q.at \in {"deciding", "applying"} => q.kind = "status" /\ q.status \in Statuses
  /\ q.at \in {"listing", "reading", "wiping"} /\ q.kind = "password" => q.token # None
  /\ q.at \in {"listing", "reading", "wiping"} => q.kind \in {"password", "status"}
  /\ q.at \in {"reading", "wiping"} => \A k \in q.keys : owner[k] = q.user

InFlight == \A r \in Requests : FlightOK(req[r])

\* What has been refreshed from, recorded or signed is a token that was issued.
Minted ==
  /\ \A t \in records \cup live \cup gone : ~Fresh(t)
  /\ \A t \in Tokens : parent[t] # None => ~Fresh(parent[t])

IInv == /\ TypeOK /\ InFlight /\ Minted
        /\ RotatedTokenIsDead /\ LoggedOutStaysOut /\ AuditAlternates

\* How the fate of an issued token evolves, in any step.
Ages ==
  \A t \in Tokens : ~Fresh(t) =>
    /\ owner'[t] = owner[t]
    /\ t \in records' => t \in records
    /\ t \in live' => t \in live
    /\ t \in revoked /\ t \in live' => t \in revoked'

\* What is known of a request stays known while tokens age.
LEMMA Aged ==
  ASSUME TypeOK, Ages
  PROVE  /\ \A t \in Tokens : ~Fresh(t) /\ Dead(t) => Dead(t)'
         /\ \A t \in Tokens : ~Fresh(t) /\ Out(t) => Out(t)'
         /\ \A t \in Tokens : ~Fresh(t) => ~Fresh(t)'
         /\ \A q \in Request : FlightOK(q) => FlightOK(q)'
  <1>1. \A t \in Tokens : ~Fresh(t) /\ Dead(t) => Dead(t)'
    BY DEF Ages, Dead
  <1>2. \A t \in Tokens : ~Fresh(t) /\ Out(t) => Out(t)'
    BY DEF Ages, Out
  <1>3. \A t \in Tokens : ~Fresh(t) => ~Fresh(t)'
    BY DEF Ages, Fresh
  <1>4. ASSUME NEW q \in Request, FlightOK(q) PROVE FlightOK(q)'
    <2>1. /\ q.token \in Tokens \cup {None} /\ q.other \in Tokens \cup {None}
          /\ q.keys \subseteq Tokens /\ q.user \in Users \cup {None}
      BY DEF Request
    <2>2. /\ q.token # None => ~Fresh(q.token)'
          /\ q.other # None => ~Fresh(q.other)'
      BY <1>3, <1>4, <2>1 DEF FlightOK
    <2>3. /\ q.at = "deleting" => owner'[q.token] = q.user
          /\ q.at = "dropping" => owner'[q.other] = q.user
          /\ q.at = "retiring" /\ q.kind = "refresh" => q.token \notin records'
      BY <1>4, <2>1 DEF FlightOK, Ages
    <2>4. q.at \in {"reading", "wiping"} => \A k \in q.keys : owner'[k] = q.user
      <3> SUFFICES ASSUME q.at \in {"reading", "wiping"}, NEW k \in q.keys
                   PROVE  owner'[k] = q.user
        OBVIOUS
      <3>1. owner[k] = q.user /\ q.user \in Users
        BY <1>4 DEF FlightOK
      <3> QED BY <2>1, <3>1, SessionConfig DEF Ages, Fresh
    <2>5. q.at = "minting" /\ q.token # None => Dead(q.token)'
      BY <1>1, <1>4, <2>1 DEF FlightOK
    <2>6. q.at \in {"finding", "dropping"} => Out(q.token)'
      BY <1>2, <1>4, <2>1 DEF FlightOK
    <2> QED BY <1>4, <2>2, <2>3, <2>4, <2>5, <2>6 DEF FlightOK
  <1> QED BY <1>1, <1>2, <1>3, <1>4

\* The shape of every step: tokens age, a request that moves knows what its new
\* stage requires, and new promises and rotations are about dead tokens.
LEMMA AnyStep ==
  ASSUME IInv, TypeOK', Ages, AuditAlternates',
         \A r \in Requests : req'[r] = req[r] \/ FlightOK(req[r])',
         \A t \in records' \cup live' : ~Fresh(t)',
         \A t \in gone' : t \in gone \/ (~Fresh(t) /\ Out(t)'),
         \A t \in Tokens : \/ parent'[t] = parent[t]
                           \/ parent'[t] # None =>
                                ~Fresh(parent'[t]) /\ t \in Tokens /\ Dead(parent[t])'
  PROVE  IInv'
  <1>1. TypeOK
    BY DEF IInv
  <1>2. InFlight'
    <2> SUFFICES ASSUME NEW r \in Requests, req'[r] = req[r] PROVE FlightOK(req[r])'
      BY DEF InFlight
    <2>1. PICK q \in Request : q = req[r]
      BY <1>1 DEF TypeOK
    <2>2. FlightOK(q)'
      BY <1>1, <2>1, Aged DEF IInv, InFlight
    <2> QED BY <2>1, <2>2 DEF FlightOK
  <1>3. \A t \in gone' : t \in Tokens
    BY DEF TypeOK
  <1>4. \A t \in Tokens : parent'[t] \in Tokens \cup {None}
    BY DEF TypeOK
  <1>5. Minted'
    <2>1. \A t \in gone' : ~Fresh(t)'
      BY <1>1, <1>3, Aged DEF IInv, Minted
    <2>2. ASSUME NEW t \in Tokens, parent'[t] # None PROVE ~Fresh(parent[t])'
      <3>1. PICK p \in Tokens : p = parent'[t]
        BY <1>4, <2>2
      <3>2. ~Fresh(p)
        BY <2>2, <3>1 DEF IInv, Minted, Fresh
      <3>3. ~Fresh(p)'
        BY <1>1, <3>2, Aged
      <3> QED BY <3>1, <3>3 DEF Fresh
    <2> QED BY <2>1, <2>2 DEF Minted
  <1>6. RotatedTokenIsDead'
    <2> SUFFICES ASSUME NEW t \in Tokens, parent'[t] # None PROVE Dead(parent[t])'
      BY DEF RotatedTokenIsDead
    <2>1. CASE parent'[t] = parent[t]
      <3>1. PICK p \in Tokens : p = parent[t]
        BY <1>4, <2>1
      <3>2. Dead(p) /\ ~Fresh(p)
        BY <2>1, <3>1 DEF IInv, RotatedTokenIsDead, Minted
      <3>3. Dead(p)'
        BY <1>1, <3>2, Aged
      <3> QED BY <2>1, <3>1, <3>3 DEF Dead
    <2> QED BY <2>1
  <1>7. LoggedOutStaysOut'
    <2> SUFFICES ASSUME NEW t \in gone' PROVE Out(t)'
      BY DEF LoggedOutStaysOut, Out
    <2>1. CASE t \in gone
      BY <1>1, <1>3, <2>1, Aged DEF IInv, Minted, LoggedOutStaysOut, Out
    <2> QED BY <2>1
  <1> QED BY <1>2, <1>5, <1>6, <1>7 DEF IInv

\* A step that issues no token.
LEMMA PlainStep ==
  ASSUME IInv, TypeOK', UNCHANGED born,
         records' \subseteq records, live' \subseteq live,
         \A t \in live' : t \in revoked => t \in revoked',
         AuditAlternates',
         \A r \in Requests : req'[r] = req[r] \/ FlightOK(req[r])',
         \A t \in gone' : t \in gone \/ (~Fresh(t) /\ Out(t)')
  PROVE  IInv'
  <1>1. Ages
    BY DEF Ages, born
  <1>2. \A t \in records' \cup live' : ~Fresh(t)'
    BY DEF IInv, Minted, Fresh, born
  <1> QED BY <1>1, <1>2, AnyStep DEF born

\* A step that only moves a request on.
LEMMA QuietStep ==
  ASSUME IInv, UNCHANGED <<account, redis, live, born, ended, gone>>,
         lockedOut' \subseteq Users,
         NEW r \in Requests, NEW q \in Request, FlightOK(q),
         req' = [req EXCEPT ![r] = q]
  PROVE  IInv'
  <1>1. TypeOK /\ req' \in [Requests -> Request] /\ req'[r] = q
    BY DEF IInv, TypeOK
  <1>2. TypeOK'
    BY <1>1 DEF TypeOK, account, redis, born
  <1>3. AuditAlternates'
    BY DEF IInv, AuditAlternates, account
  <1>4. Ages
    BY DEF Ages, redis, born
  <1>5. FlightOK(q)'
    BY <1>1, <1>4, Aged
  <1>6. \A s \in Requests : req'[s] = req[s] \/ FlightOK(req[s])'
    <2>1. FlightOK(req[r])'
      BY <1>1, <1>5 DEF FlightOK
    <2> QED BY <1>1, <2>1 DEF TypeOK
  <1> QED BY <1>2, <1>3, <1>6, PlainStep DEF redis

LEMMA NoRequestOK == NoRequest \in Request /\ FlightOK(NoRequest)
  BY DEF NoRequest, Request, Stage, FlightOK, None

\* The end of a request, however it ended.
LEMMA ReplyOK ==
  ASSUME NEW a \in {"ok", "refused", "failed"}
  PROVE  /\ [NoRequest EXCEPT !.answer = a] \in Request
         /\ FlightOK([NoRequest EXCEPT !.answer = a])
  <1>1. [NoRequest EXCEPT !.answer = a] \in Request
    BY NoRequestOK DEF Request
  <1>2. FlightOK([NoRequest EXCEPT !.answer = a])
    BY DEF NoRequest, FlightOK, None
  <1> QED BY <1>1, <1>2

LEMMA ReplyStep ==
  ASSUME IInv, UNCHANGED <<account, redis, live, born, ended, gone>>,
         lockedOut' \subseteq Users,
         NEW r \in Requests, NEW a \in {"ok", "refused", "failed"}, Reply(r, a)
  PROVE  IInv'
  <1>1. PICK q \in Request : q = [NoRequest EXCEPT !.answer = a] /\ FlightOK(q)
    BY ReplyOK
  <1>2. req' = [req EXCEPT ![r] = q]
    BY <1>1 DEF Reply
  <1> QED BY <1>1, <1>2, QuietStep

\* A request that moves to another stage, and to nothing else.
LEMMA MoveStep ==
  ASSUME IInv, UNCHANGED <<account, redis, live, born, ended, gone>>,
         lockedOut' \subseteq Users,
         NEW r \in Requests, NEW from, NEW to \in Stage, Step(r, from, to),
         FlightOK([req[r] EXCEPT !.at = to])
  PROVE  IInv'
  <1>0. req[r] \in Request
    BY DEF IInv, TypeOK
  <1>1. PICK q : q = [req[r] EXCEPT !.at = to]
    OBVIOUS
  <1>2. q \in Request
    BY <1>0, <1>1 DEF Request
  <1>3. FlightOK(q)
    BY <1>1
  <1>4. req' = [req EXCEPT ![r] = q]
    BY <1>1 DEF Step
  <1> QED BY <1>2, <1>3, <1>4, QuietStep

\* Nothing is issued, revoked or asked for in the initial state.
LEMMA InitIInv == Init => IInv
  <1> SUFFICES ASSUME Init PROVE IInv
    OBVIOUS
  <1>1. TypeOK
    BY NoRequestOK DEF Init, TypeOK, Statuses
  <1>2. InFlight
    BY NoRequestOK DEF Init, InFlight
  <1>3. Minted /\ RotatedTokenIsDead /\ LoggedOutStaysOut
    BY DEF Init, Minted, RotatedTokenIsDead, LoggedOutStaysOut
  <1>4. AuditAlternates
    BY DEF Init, AuditAlternates
  <1> QED BY <1>1, <1>2, <1>3, <1>4 DEF IInv

\* A client sends a request.
LEMMA AskIInv == ASSUME IInv, NEW r \in Requests, Ask(r) PROVE IInv'
  <1> DEFINE Quiet == UNCHANGED <<account, redis, live, born, promises>>
  <1>0. /\ Quiet /\ lockedOut' \subseteq Users
        /\ UNCHANGED <<account, redis, live, born, ended, gone>>
    BY DEF IInv, TypeOK, Ask, AskSignIn, AskRefresh, AskLogout, AskPassword, AskStatus, promises
  <1>r. CASE Refuse(r)
    BY <1>0, <1>r, ReplyStep DEF Refuse
  <1>q. ASSUME NEW q \in Request, Receive(r, q), FlightOK(q) PROVE IInv'
    BY <1>0, <1>q, QuietStep DEF Receive
  <1>o. \A t \in Tokens : ~Fresh(t) => owner[t] \in Users
    BY DEF IInv, TypeOK, Fresh
  <1>l. \A t \in live : ~Fresh(t)
    BY DEF IInv, Minted
  <1>1. CASE "signin" \in Kinds /\ AskSignIn(r)
    <2>1. PICK u \in Users, v \in 0..MaxVersion :
            Receive(r, [NoRequest EXCEPT !.at = "checking", !.kind = "signin",
                          !.user = u, !.version = v])
      BY <1>1 DEF AskSignIn
    <2>2. [NoRequest EXCEPT !.at = "checking", !.kind = "signin",
             !.user = u, !.version = v] \in Request
      <3>1. v \in Nat
        BY SessionConfig
      <3> QED BY <1>1, <3>1 DEF NoRequest, Request, Stage
    <2>3. FlightOK([NoRequest EXCEPT !.at = "checking", !.kind = "signin",
             !.user = u, !.version = v])
      BY DEF NoRequest, FlightOK, None
    <2> QED BY <2>1, <2>2, <2>3, <1>q
  <1>2. CASE "refresh" \in Kinds /\ AskRefresh(r)
    <2>1. PICK t \in Tokens :
            ~Fresh(t) /\ Receive(r, [NoRequest EXCEPT
              !.at = "getting", !.kind = "refresh", !.token = t])
      BY <1>2 DEF AskRefresh
    <2> DEFINE q == [NoRequest EXCEPT !.at = "getting", !.kind = "refresh", !.token = t]
    <2>2. q \in Request
      BY <1>2 DEF NoRequest, Request, Stage
    <2>3. FlightOK(q)
      BY <2>1, SessionConfig DEF NoRequest, FlightOK
    <2> QED BY <2>1, <2>2, <2>3, <1>q
  <1>3. CASE "logout" \in Kinds /\ AskLogout(r) /\ ~Refuse(r)
    <2>1. PICK t \in Tokens, o \in Tokens \cup {None} :
            /\ t \in live /\ (o # None => ~Fresh(o))
            /\ Receive(r, [NoRequest EXCEPT !.at = "revoking", !.kind = "logout",
                              !.user = owner[t], !.token = t, !.other = o])
      BY <1>3 DEF AskLogout
    <2> DEFINE q == [NoRequest EXCEPT !.at = "revoking", !.kind = "logout",
                       !.user = owner[t], !.token = t, !.other = o]
    <2>2. owner[t] \in Users /\ ~Fresh(t)
      BY <1>l, <1>o, <2>1
    <2>3. q \in Request
      BY <1>3, <2>2 DEF NoRequest, Request, Stage
    <2>4. FlightOK(q)
      BY <2>1, <2>2, SessionConfig DEF NoRequest, FlightOK
    <2>5. PICK p \in Request : p = q /\ FlightOK(p)
      BY <2>3, <2>4
    <2> QED BY <2>1, <2>5, <1>q
  <1>4. CASE "password" \in Kinds /\ AskPassword(r) /\ ~Refuse(r)
    <2>1. PICK t \in Tokens, v \in 0..MaxVersion :
            /\ t \in live
            /\ Receive(r, [NoRequest EXCEPT !.at = "comparing", !.kind = "password",
                              !.user = owner[t], !.token = t, !.version = v])
      BY <1>4 DEF AskPassword
    <2> DEFINE q == [NoRequest EXCEPT !.at = "comparing", !.kind = "password",
                       !.user = owner[t], !.token = t, !.version = v]
    <2>2. owner[t] \in Users /\ ~Fresh(t)
      BY <1>l, <1>o, <2>1
    <2>3. q \in Request
      <3>1. v \in Nat
        BY SessionConfig
      <3> QED BY <1>4, <2>2, <3>1 DEF NoRequest, Request, Stage
    <2>4. FlightOK(q)
      BY <2>1, <2>2, SessionConfig DEF NoRequest, FlightOK
    <2>5. PICK p \in Request : p = q /\ FlightOK(p)
      BY <2>3, <2>4
    <2> QED BY <2>1, <2>5, <1>q
  <1>5. CASE "status" \in Kinds /\ AskStatus(r) /\ ~Refuse(r)
    <2>1. PICK u \in Users, s \in Statuses :
            Receive(r, [NoRequest EXCEPT !.at = "deciding", !.kind = "status",
                          !.user = u, !.status = s])
      BY <1>5 DEF AskStatus
    <2> DEFINE q == [NoRequest EXCEPT !.at = "deciding", !.kind = "status",
                       !.user = u, !.status = s]
    <2>2. q \in Request
      BY <1>5 DEF NoRequest, Request, Stage
    <2>3. FlightOK(q)
      BY DEF NoRequest, FlightOK, None
    <2> QED BY <2>1, <2>2, <2>3, <1>q
  <1> QED BY <1>1, <1>2, <1>3, <1>4, <1>5, <1>r DEF Ask

\* The steps of a request that read, and those that only decide.
LEMMA ReadIInv ==
  ASSUME IInv, NEW r \in Requests,
         \/ CheckAccount(r) \/ GetSession(r) \/ ComparePassword(r)
         \/ DecideStatus(r) \/ Reload(r) \/ ListSessions(r) \/ ReadSession(r) \/ Fail(r)
  PROVE  IInv'
  <1>0. /\ UNCHANGED <<account, redis, live, born, ended, gone>>
        /\ lockedOut' \subseteq Users
    <2>1. CASE Reload(r)
      <3>1. req[r].user \in Users
        BY <2>1 DEF IInv, InFlight, FlightOK, Reload
      <3> QED BY <2>1, <3>1 DEF IInv, TypeOK, Reload
    <2>2. CASE ~Reload(r)
      BY <2>2 DEF IInv, TypeOK, CheckAccount, GetSession, ComparePassword, DecideStatus,
                  ListSessions, ReadSession, Fail, promises
    <2> QED BY <2>1, <2>2
  <1>1. req[r] \in Request /\ FlightOK(req[r])
    BY DEF IInv, TypeOK, InFlight
  <1>2. CASE \E a \in {"ok", "refused", "failed"} : Reply(r, a)
    BY <1>0, <1>2, ReplyStep
  <1>3. CASE Step(r, "checking", "minting")
    <2>1. FlightOK([req[r] EXCEPT !.at = "minting"])
      BY <1>1, <1>3 DEF Step, FlightOK, Request
    <2> QED BY <1>0, <1>3, <2>1, MoveStep DEF Stage
  <1>4. CASE Step(r, "comparing", "storing")
    <2>1. FlightOK([req[r] EXCEPT !.at = "storing"])
      BY <1>1, <1>4 DEF Step, FlightOK, Request
    <2> QED BY <1>0, <1>4, <2>1, MoveStep DEF Stage
  <1>5. CASE Step(r, "deciding", "applying")
    <2>1. FlightOK([req[r] EXCEPT !.at = "applying"])
      BY <1>1, <1>5 DEF Step, FlightOK, Request
    <2> QED BY <1>0, <1>5, <2>1, MoveStep DEF Stage
  <1>6. CASE /\ GetSession(r) /\ req[r].token \in records
             /\ req' = [req EXCEPT ![r].at = "deleting", ![r].user = owner[req[r].token],
                                   ![r].version = cred[req[r].token]]
    <2>0. req[r].at = "getting"
      BY <1>6 DEF GetSession
    <2>1. PICK t \in Tokens : t = req[r].token
      BY <1>1, <2>0 DEF FlightOK, Request
    <2>2. /\ ~Fresh(t) /\ owner[t] \in Users /\ cred[t] \in Nat
      BY <1>1, <2>0, <2>1 DEF FlightOK, Fresh, IInv, TypeOK
    <2>3. PICK u \in Users, v \in Nat : u = owner[t] /\ v = cred[t]
      BY <2>2
    <2>4. PICK q : q = [req[r] EXCEPT !.at = "deleting", !.user = u, !.version = v]
      OBVIOUS
    <2>5. req' = [req EXCEPT ![r] = q]
      BY <1>6, <2>1, <2>3, <2>4
    <2>6. q \in Request
      BY <1>1, <2>4 DEF Request, Stage
    <2>7. FlightOK(q)
      <3>1. /\ q.at = "deleting" /\ q.user = u /\ q.token = t
            /\ q.other = req[r].other /\ q.kind = req[r].kind
        BY <1>1, <2>1, <2>4 DEF Request
      <3>2. q.kind = "refresh"
        BY <1>1, <2>0, <3>1 DEF FlightOK
      <3> QED BY <1>1, <2>2, <2>3, <3>1, <3>2, SessionConfig DEF FlightOK
    <2> QED BY <1>0, <2>5, <2>6, <2>7, QuietStep
  <1>7. CASE ListSessions(r)
    <2>0. /\ req[r].at = "listing" /\ req[r].user \in Users
          /\ req[r].kind \in {"password", "status"}
      BY <1>1, <1>7 DEF ListSessions, FlightOK
    <2>1. PICK keys \in SUBSET Tokens : keys = index[req[r].user]
      BY <2>0 DEF IInv, TypeOK
    <2>2. \A k \in keys : owner[k] = req[r].user
      BY <2>0, <2>1 DEF IInv, TypeOK
    <2>3. PICK a \in {"reading", "retiring", "reloading"} :
            a = IF keys = {} THEN AfterSweep(r) ELSE "reading"
      BY DEF AfterSweep
    <2>4. PICK q : q = [req[r] EXCEPT !.at = a, !.keys = keys, !.todo = keys]
      OBVIOUS
    <2>5. req' = [req EXCEPT ![r] = q]
      BY <1>7, <2>1, <2>3, <2>4 DEF ListSessions
    <2>6. q \in Request
      BY <1>1, <2>4 DEF Request, Stage
    <2>7. FlightOK(q)
      <3>1. /\ q.at = a /\ q.user = req[r].user /\ q.token = req[r].token
            /\ q.other = req[r].other /\ q.kind = req[r].kind /\ q.keys = keys
        BY <1>1, <2>4 DEF Request
      <3>2. a = "retiring" => q.kind = "password"
        BY <2>3, <3>1 DEF AfterSweep
      <3> QED BY <1>1, <2>0, <2>2, <3>1, <3>2 DEF FlightOK
    <2> QED BY <1>0, <2>5, <2>6, <2>7, QuietStep
  <1>8. CASE ReadSession(r)
    <2>0. req[r].at = "reading"
      BY <1>8 DEF ReadSession
    <2>1. PICK t \in req[r].todo :
            req' = [req EXCEPT
              ![r].todo = @ \ {t},
              ![r].ids  = IF t \in records THEN @ \cup {t} ELSE @,
              ![r].at   = IF req[r].todo = {t} THEN "wiping" ELSE "reading"]
      BY <1>8 DEF ReadSession
    <2>2. t \in Tokens /\ req[r].ids \subseteq Tokens /\ req[r].todo \subseteq Tokens
      BY <1>1 DEF Request
    <2>3. PICK ids \in SUBSET Tokens, todo \in SUBSET Tokens, a \in {"wiping", "reading"} :
            /\ todo = req[r].todo \ {t}
            /\ ids = IF t \in records THEN req[r].ids \cup {t} ELSE req[r].ids
            /\ a = IF req[r].todo = {t} THEN "wiping" ELSE "reading"
      BY <2>2
    <2>4. PICK q : q = [req[r] EXCEPT !.todo = todo, !.ids = ids, !.at = a]
      OBVIOUS
    <2>5. req' = [req EXCEPT ![r] = q]
      BY <2>1, <2>3, <2>4
    <2>6. q \in Request
      BY <1>1, <2>4 DEF Request, Stage
    <2>7. FlightOK(q)
      <3>1. /\ q.at = a /\ q.user = req[r].user /\ q.token = req[r].token
            /\ q.other = req[r].other /\ q.kind = req[r].kind /\ q.keys = req[r].keys
        BY <1>1, <2>4 DEF Request
      <3> QED BY <1>1, <2>0, <3>1 DEF FlightOK
    <2> QED BY <1>0, <2>5, <2>6, <2>7, QuietStep
  <1> QED
    BY <1>2, <1>3, <1>4, <1>5, <1>6, <1>7, <1>8
       DEF CheckAccount, GetSession, ComparePassword, DecideStatus, Reload, Fail

\* A command that changes Redis or the account, issues no token, and leaves the
\* request with q.
LEMMA WriteStep ==
  ASSUME IInv, UNCHANGED <<live, born>>,
         records' \subseteq records,
         revoked' \subseteq Tokens, \A t \in live : t \in revoked => t \in revoked',
         index' \in [Users -> SUBSET Tokens],
         \A u \in Users : index'[u] \subseteq index[u],
         status' \in [Users -> Statuses], password' \in [Users -> Nat],
         actions' \in [Users -> Nat], AuditAlternates',
         ended' \in [Users -> Nat], lockedOut' \subseteq Users, gone' \subseteq Tokens,
         \A t \in gone' : t \in gone \/ (~Fresh(t) /\ Out(t)'),
         NEW r \in Requests, NEW q \in Request, FlightOK(q)',
         req' = [req EXCEPT ![r] = q]
  PROVE  IInv'
  <1>1. TypeOK /\ req' \in [Requests -> Request] /\ req'[r] = q
    BY DEF IInv, TypeOK
  <1>2. TypeOK'
    BY <1>1 DEF TypeOK, born
  <1>3. \A s \in Requests : req'[s] = req[s] \/ FlightOK(req[s])'
    <2>1. FlightOK(req[r])'
      BY <1>1 DEF FlightOK
    <2> QED BY <1>1, <2>1 DEF TypeOK
  <1> QED BY <1>2, <1>3, PlainStep

\* The Redis commands of refresh, logout and password change that end a token.
LEMMA TokenIInv ==
  ASSUME IInv, NEW r \in Requests,
         \/ DeletePresented(r) \/ RetireToken(r) \/ RevokeAccess(r)
         \/ FindSession(r) \/ DropSession(r) \/ WipeSessions(r)
  PROVE  IInv'
  <1>1. TypeOK /\ req[r] \in Request /\ FlightOK(req[r])
    BY DEF IInv, TypeOK, InFlight
  <1>2. PICK c \in Request : c = req[r]
    BY <1>1
  <1>a. AuditAlternates' /\ UNCHANGED <<account, live, born>>
    BY DEF IInv, AuditAlternates, account, DeletePresented, RetireToken, RevokeAccess,
           FindSession, DropSession, WipeSessions
  <1>b. /\ status' \in [Users -> Statuses] /\ password' \in [Users -> Nat]
        /\ actions' \in [Users -> Nat]
    BY <1>1, <1>a DEF TypeOK, account
  <1>c. PICK k \in Request : k = [NoRequest EXCEPT !.answer = "ok"] /\ FlightOK(k)
    BY ReplyOK
  <1>d. FlightOK(k)'
    BY <1>c DEF NoRequest, FlightOK, None
  <1>3. CASE DeletePresented(r)
    <2>1. PICK q : q = [c EXCEPT !.at = "retiring"]
      OBVIOUS
    <2>2. q \in Request /\ req' = [req EXCEPT ![r] = q]
      BY <1>2, <1>3, <2>1 DEF DeletePresented, Step, Request, Stage
    <2>3. c.at = "deleting" /\ c.token \in Tokens /\ records' = records \ {c.token}
      BY <1>1, <1>2, <1>3 DEF DeletePresented, Step, DropRecord, FlightOK, Request
    <2>4. FlightOK(q)'
      BY <1>1, <1>2, <1>a, <2>1, <2>3 DEF FlightOK, Request, Fresh, born
    <2>5. /\ index' \in [Users -> SUBSET Tokens]
          /\ \A u \in Users : index'[u] \subseteq index[u]
      BY <1>1, <1>3 DEF DeletePresented, DropRecord, TypeOK
    <2>6. UNCHANGED <<revoked, ended, lockedOut, gone>>
      BY <1>3 DEF DeletePresented, promises
    <2> QED BY <1>1, <1>a, <1>b, <2>2, <2>3, <2>4, <2>5, <2>6, WriteStep DEF TypeOK
  <1>4. CASE RetireToken(r)
    <2>0. c.at = "retiring" /\ c.token \in Tokens /\ c.user \in Users
      BY <1>1, <1>2, <1>4 DEF RetireToken, FlightOK, Request
    <2>1. /\ revoked' = revoked \cup {c.token}
          /\ UNCHANGED <<records, index, lockedOut, gone>>
      BY <1>2, <1>4 DEF RetireToken, Retire, Blacklist
    <2>2. CASE c.kind = "refresh" /\ Step(r, "retiring", "minting") /\ UNCHANGED ended
      <3>1. PICK q : q = [c EXCEPT !.at = "minting"]
        OBVIOUS
      <3>2. q \in Request /\ req' = [req EXCEPT ![r] = q]
        BY <1>2, <2>2, <3>1 DEF Step, Request, Stage
      <3>3. /\ q.at = "minting" /\ q.user = c.user /\ q.token = c.token
            /\ q.other = c.other
        BY <3>1 DEF Request
      <3>4. Dead(c.token)'
        BY <1>1, <1>2, <2>0, <2>1, <2>2 DEF FlightOK, Dead
      <3>5. FlightOK(q)'
        BY <1>1, <1>2, <1>a, <2>0, <3>3, <3>4 DEF FlightOK, Fresh, born
      <3> QED BY <1>1, <1>a, <1>b, <2>0, <2>1, <2>2, <3>2, <3>5, WriteStep DEF TypeOK
    <2>3. CASE /\ Reply(r, "ok")
               /\ ended' = [ended EXCEPT ![c.user] =
                     IF @ < c.version + 1 THEN c.version + 1 ELSE @]
      <3>1. req' = [req EXCEPT ![r] = k]
        BY <1>c, <2>3 DEF Reply
      <3>2. c.version + 1 \in Nat
        BY DEF Request
      <3>3. ended' \in [Users -> Nat]
        BY <1>1, <2>3, <3>2 DEF TypeOK
      <3> QED BY <1>1, <1>a, <1>b, <1>d, <2>0, <2>1, <3>1, <3>3, WriteStep DEF TypeOK
    <2> QED BY <1>2, <1>4, <2>2, <2>3 DEF RetireToken
  <1>5. CASE RevokeAccess(r)
    <2>0. /\ c.at = "revoking" /\ c.token \in Tokens /\ ~Fresh(c.token) /\ c.user \in Users
          /\ revoked' = revoked \cup {c.token}
          /\ UNCHANGED <<records, index, ended, lockedOut>>
      BY <1>1, <1>2, <1>5 DEF RevokeAccess, Blacklist, FlightOK, Request
    <2>1. Out(c.token)'
      BY <2>0 DEF Out
    <2>2. CASE Reply(r, "ok") /\ LoggedOut(r)
      <3>1. req' = [req EXCEPT ![r] = k]
        BY <1>c, <2>2 DEF Reply
      <3>2. gone' = gone \cup {c.token}
        BY <1>2, <2>2 DEF LoggedOut
      <3>3. \A t \in gone' : t \in gone \/ (~Fresh(t) /\ Out(t)')
        BY <2>0, <2>1, <3>2
      <3> QED BY <1>1, <1>a, <1>b, <1>d, <2>0, <3>1, <3>2, <3>3, WriteStep DEF TypeOK
    <2>3. CASE c.other # None /\ Step(r, "revoking", "finding") /\ UNCHANGED gone
      <3>1. PICK q : q = [c EXCEPT !.at = "finding"]
        OBVIOUS
      <3>2. q \in Request /\ req' = [req EXCEPT ![r] = q]
        BY <1>2, <2>3, <3>1 DEF Step, Request, Stage
      <3>3. /\ q.at = "finding" /\ q.user = c.user /\ q.token = c.token
            /\ q.other = c.other
        BY <3>1 DEF Request
      <3>4. FlightOK(q)'
        BY <1>1, <1>2, <1>a, <2>0, <2>1, <2>3, <3>3 DEF FlightOK, Fresh, born
      <3> QED BY <1>1, <1>a, <1>b, <2>0, <2>3, <3>2, <3>4, WriteStep DEF TypeOK
    <2> QED BY <1>2, <1>5, <2>2, <2>3 DEF RevokeAccess
  <1>6. CASE FindSession(r)
    <2>0. /\ c.at = "finding" /\ c.token \in Tokens /\ ~Fresh(c.token) /\ c.user \in Users
          /\ Out(c.token) /\ UNCHANGED <<redis, ended, lockedOut>>
      BY <1>1, <1>2, <1>6 DEF FindSession, FlightOK, Request
    <2>1. CASE Reply(r, "ok") /\ LoggedOut(r)
      <3>1. req' = [req EXCEPT ![r] = k]
        BY <1>c, <2>1 DEF Reply
      <3>2. gone' = gone \cup {c.token}
        BY <1>2, <2>1 DEF LoggedOut
      <3>3. \A t \in gone' : t \in gone \/ (~Fresh(t) /\ Out(t)')
        BY <1>a, <2>0, <3>2 DEF Out, redis
      <3> QED BY <1>1, <1>a, <1>b, <1>d, <2>0, <3>1, <3>2, <3>3, WriteStep DEF TypeOK, redis
    <2>2. CASE Reply(r, "refused") /\ UNCHANGED gone
      BY <1>a, <2>0, <2>2, ReplyStep DEF IInv, TypeOK
    <2>3. CASE /\ Owns(req[r].user, req[r].other) /\ UNCHANGED gone
               /\ Step(r, "finding", "dropping")
      <3>1. FlightOK([req[r] EXCEPT !.at = "dropping"])
        BY <1>1, <2>3 DEF Step, FlightOK, Request, Owns
      <3> QED BY <1>1, <1>a, <2>0, <2>3, <3>1, MoveStep DEF TypeOK, Stage
    <2> QED BY <1>6, <2>1, <2>2, <2>3 DEF FindSession
  <1>7. CASE DropSession(r)
    <2>0. /\ c.at = "dropping" /\ c.token \in Tokens /\ ~Fresh(c.token)
          /\ Out(c.token) /\ UNCHANGED <<revoked, ended, lockedOut>>
          /\ records' \subseteq records
      BY <1>1, <1>2, <1>7 DEF DropSession, DropRecord, FlightOK, Request
    <2>1. req' = [req EXCEPT ![r] = k] /\ gone' = gone \cup {c.token}
      BY <1>2, <1>7, <1>c DEF DropSession, Reply, LoggedOut
    <2>2. \A t \in gone' : t \in gone \/ (~Fresh(t) /\ Out(t)')
      BY <1>a, <2>0, <2>1 DEF Out
    <2>3. /\ index' \in [Users -> SUBSET Tokens]
          /\ \A u \in Users : index'[u] \subseteq index[u]
      BY <1>1, <1>7 DEF DropSession, DropRecord, TypeOK
    <2> QED BY <1>1, <1>a, <1>b, <1>d, <2>0, <2>1, <2>2, <2>3, WriteStep DEF TypeOK
  <1>8. CASE WipeSessions(r)
    <2>0. /\ c.at = "wiping" /\ c.kind \in {"password", "status"} /\ c.user \in Users
          /\ c.ids \subseteq Tokens
      BY <1>1, <1>2, <1>8 DEF WipeSessions, FlightOK, Request
    <2>1. /\ revoked' = revoked \cup c.ids /\ records' \subseteq records
          /\ UNCHANGED <<ended, lockedOut, gone>>
      BY <1>2, <1>8 DEF WipeSessions, Blacklist, promises
    <2>2. PICK a \in {"retiring", "reloading"} : a = AfterSweep(r)
      BY DEF AfterSweep
    <2>3. PICK q : q = [c EXCEPT !.at = a, !.keys = {}, !.ids = {}]
      OBVIOUS
    <2>4. q \in Request /\ req' = [req EXCEPT ![r] = q]
      BY <1>2, <1>8, <2>2, <2>3 DEF WipeSessions, Request, Stage
    <2>5. /\ q.at = a /\ q.user = c.user /\ q.token = c.token
          /\ q.other = c.other /\ q.kind = c.kind
      BY <2>3 DEF Request
    <2>6. a = "retiring" => c.kind = "password"
      BY <1>2, <2>2 DEF AfterSweep
    <2>7. FlightOK(q)'
      BY <1>1, <1>2, <1>a, <2>0, <2>5, <2>6 DEF FlightOK, Fresh, born
    <2>8. /\ index' \in [Users -> SUBSET Tokens]
          /\ \A u \in Users : index'[u] \subseteq index[u]
      BY <1>1, <1>8 DEF WipeSessions, TypeOK
    <2> QED BY <1>1, <1>a, <1>b, <2>0, <2>1, <2>4, <2>7, <2>8, WriteStep DEF TypeOK
  <1> QED BY <1>3, <1>4, <1>5, <1>6, <1>7, <1>8

\* issueSession: the new token is nobody's yet, so nothing known is about it.
LEMMA MintIInv == ASSUME IInv, NEW r \in Requests, Mint(r) PROVE IInv'
  <1>1. TypeOK /\ req[r] \in Request /\ FlightOK(req[r]) /\ req[r].at = "minting"
    BY DEF IInv, TypeOK, InFlight, Mint
  <1>2. PICK c \in Request : c = req[r]
    BY <1>1
  <1>3. /\ c.user \in Users /\ c.version \in Nat /\ c.token \in Tokens \cup {None}
        /\ c.token # None => ~Fresh(c.token) /\ Dead(c.token)
    BY <1>1, <1>2 DEF FlightOK, Request
  <1>4. PICK t \in Tokens :
          /\ Fresh(t)
          /\ records' = records \cup {t}
          /\ index' = [index EXCEPT ![c.user] = @ \cup {t}]
          /\ live' = live \cup {t}
          /\ owner' = [owner EXCEPT ![t] = c.user]
          /\ cred' = [cred EXCEPT ![t] = c.version]
          /\ parent' = [parent EXCEPT ![t] = c.token]
    BY <1>2 DEF Mint, IndexSession
  <1>5. UNCHANGED <<account, revoked, promises>>
    BY DEF Mint
  <1>6. PICK k \in Request : k = [NoRequest EXCEPT !.answer = "ok"] /\ FlightOK(k)
    BY ReplyOK
  <1>7. req' = [req EXCEPT ![r] = k] /\ FlightOK(k)'
    BY <1>6 DEF Mint, Reply, NoRequest, FlightOK, None
  <1>8. Ages
    BY <1>1, <1>4, <1>5 DEF Ages, TypeOK, Fresh
  <1>9. TypeOK'
    <2>1. owner' \in [Tokens -> Users \cup {None}] /\ cred' \in [Tokens -> Nat]
          /\ parent' \in [Tokens -> Tokens \cup {None}]
      BY <1>1, <1>3, <1>4 DEF TypeOK
    <2>2. index' \in [Users -> SUBSET Tokens]
      BY <1>1, <1>4 DEF TypeOK
    <2>3. ASSUME NEW u \in Users, NEW s \in index'[u] PROVE owner'[s] = u
      <3>1. CASE s \in index[u]
        <4>1. owner[s] = u /\ s \in Tokens
          BY <1>1, <3>1 DEF TypeOK
        <4>2. s # t
          BY <1>4, <4>1, SessionConfig DEF Fresh
        <4> QED BY <1>1, <1>4, <4>1, <4>2 DEF TypeOK
      <3>2. CASE s \notin index[u]
        <4>1. s = t /\ u = c.user
          BY <1>1, <1>4, <2>3, <3>2 DEF TypeOK
        <4> QED BY <1>1, <1>4, <4>1 DEF TypeOK
      <3> QED BY <3>1, <3>2
    <2>4. req' \in [Requests -> Request]
      BY <1>1, <1>7 DEF TypeOK
    <2> QED BY <1>1, <1>4, <1>5, <2>1, <2>2, <2>3, <2>4 DEF TypeOK, account, promises
  <1>10. AuditAlternates'
    BY <1>5 DEF IInv, AuditAlternates, account
  <1>11. \A s \in Requests : req'[s] = req[s] \/ FlightOK(req[s])'
    <2>1. req'[r] = k /\ FlightOK(req[r])'
      BY <1>1, <1>7 DEF TypeOK, FlightOK
    <2> QED BY <1>1, <1>7, <2>1 DEF TypeOK
  <1>12. \A s \in records' \cup live' : ~Fresh(s)'
    <2> SUFFICES ASSUME NEW s \in records' \cup live' PROVE ~Fresh(s)'
      OBVIOUS
    <2>1. CASE s = t
      BY <1>1, <1>3, <1>4, <2>1, SessionConfig DEF Fresh, TypeOK
    <2>2. CASE s # t
      <3>1. s \in Tokens /\ ~Fresh(s)
        BY <1>1, <1>4, <2>2 DEF IInv, Minted, TypeOK
      <3> QED BY <1>1, <1>8, <3>1, Aged
    <2> QED BY <2>1, <2>2
  <1>13. \A s \in gone' : s \in gone
    BY <1>5 DEF promises
  <1>14. ASSUME NEW s \in Tokens
         PROVE  \/ parent'[s] = parent[s]
                \/ parent'[s] # None => ~Fresh(parent'[s]) /\ s \in Tokens /\ Dead(parent[s])'
    <2>1. CASE s = t
      <3>1. parent'[s] = c.token
        BY <1>1, <1>4, <2>1 DEF TypeOK
      <3>2. CASE c.token # None
        <4>1. Dead(c.token)'
          BY <1>1, <1>3, <1>8, <3>2, Aged
        <4> QED BY <1>3, <3>1, <3>2, <4>1 DEF Dead
      <3> QED BY <3>1, <3>2
    <2>2. CASE s # t
      BY <1>1, <1>4, <2>2 DEF TypeOK
    <2> QED BY <2>1, <2>2
  <1> QED BY <1>8, <1>9, <1>10, <1>11, <1>12, <1>13, <1>14, AnyStep

\* A new password.
LEMMA StoreIInv == ASSUME IInv, NEW r \in Requests, StorePassword(r) PROVE IInv'
  <1>1. TypeOK /\ req[r] \in Request /\ FlightOK(req[r])
    BY DEF IInv, TypeOK, InFlight
  <1>2. PICK q : q = [req[r] EXCEPT !.at = "listing"]
    OBVIOUS
  <1>3. q \in Request /\ req' = [req EXCEPT ![r] = q]
    BY <1>1, <1>2 DEF StorePassword, Step, Request, Stage
  <1>4. /\ q.at = "listing" /\ q.user = req[r].user /\ q.token = req[r].token
        /\ q.other = req[r].other /\ q.kind = req[r].kind /\ req[r].at = "storing"
    BY <1>1, <1>2 DEF Request, StorePassword, Step
  <1>5. FlightOK(q)'
    BY <1>1, <1>4 DEF FlightOK, StorePassword, Fresh, born
  <1>6. req[r].version + 1 \in Nat
    BY <1>1 DEF Request
  <1>7. password' \in [Users -> Nat]
    BY <1>1, <1>6 DEF StorePassword, TypeOK
  <1>8. AuditAlternates' /\ UNCHANGED <<status, actions, redis, live, born, promises>>
    BY DEF IInv, AuditAlternates, StorePassword
  <1> QED BY <1>1, <1>3, <1>5, <1>7, <1>8, WriteStep DEF TypeOK, redis, promises

\* A block or an unblock.
LEMMA ApplyIInv == ASSUME IInv, NEW r \in Requests, ApplyStatus(r) PROVE IInv'
  <1>1. TypeOK /\ req[r] \in Request /\ FlightOK(req[r])
    BY DEF IInv, TypeOK, InFlight
  <1>2. PICK c \in Request : c = req[r]
    BY <1>1
  <1>3. /\ c.at = "applying" /\ c.user \in Users /\ c.kind = "status"
        /\ UNCHANGED <<redis, live, born, ended, gone>>
    BY <1>1, <1>2 DEF ApplyStatus, FlightOK
  <1>4. CASE Reply(r, "refused") /\ UNCHANGED <<account, lockedOut>>
    BY <1>1, <1>3, <1>4, ReplyStep DEF TypeOK
  <1>5. CASE ~(Reply(r, "refused") /\ UNCHANGED <<account, lockedOut>>)
    <2>1. PICK a \in {"listing", "reloading"} :
            /\ status[c.user] # c.status
            /\ status' = [status EXCEPT ![c.user] = c.status]
            /\ actions' = [actions EXCEPT ![c.user] = @ + 1]
            /\ Step(r, "applying", a)
            /\ lockedOut' = lockedOut \ {c.user}
            /\ UNCHANGED password
      BY <1>2, <1>5 DEF ApplyStatus, StatusDiffers
    <2>2. PICK q : q = [c EXCEPT !.at = a]
      OBVIOUS
    <2>3. q \in Request /\ req' = [req EXCEPT ![r] = q]
      BY <1>2, <2>1, <2>2 DEF Step, Request, Stage
    <2>4. /\ q.at = a /\ q.user = c.user /\ q.token = c.token
          /\ q.other = c.other /\ q.kind = c.kind
      BY <2>2 DEF Request
    <2>5. FlightOK(q)'
      BY <1>1, <1>2, <1>3, <2>4 DEF FlightOK, Fresh, born
    <2>6. c.status \in Statuses
      BY <1>1, <1>2, <1>3 DEF FlightOK
    <2>7. /\ status' \in [Users -> Statuses] /\ actions' \in [Users -> Nat]
          /\ lockedOut' \subseteq Users
      BY <1>1, <1>3, <2>1, <2>6 DEF TypeOK
    <2>8. AuditAlternates'
      <3> SUFFICES ASSUME NEW u \in Users
                   PROVE  status'[u] = "blocked" <=> actions'[u] % 2 = 1
        BY DEF AuditAlternates
      <3>1. status[u] = "blocked" <=> actions[u] % 2 = 1
        BY DEF IInv, AuditAlternates
      <3>2. CASE u = c.user
        <4>1. actions'[u] = actions[u] + 1 /\ status'[u] = c.status
          BY <1>1, <2>1, <3>2 DEF TypeOK
        <4>2. actions[u] \in Nat /\ status[u] \in Statuses
          BY <1>1 DEF TypeOK
        <4>3. (actions[u] + 1) % 2 = 1 <=> actions[u] % 2 # 1
          BY <4>2
        <4>4. c.status = "blocked" <=> status[u] # "blocked"
          BY <2>1, <2>6, <3>2, <4>2 DEF Statuses
        <4> QED BY <3>1, <4>1, <4>3, <4>4
      <3>3. CASE u # c.user
        BY <1>1, <2>1, <3>1, <3>3 DEF TypeOK
      <3> QED BY <3>2, <3>3
    <2> QED BY <1>1, <1>3, <2>1, <2>3, <2>5, <2>7, <2>8, WriteStep DEF TypeOK, redis
  <1> QED BY <1>4, <1>5

\* A restart of the process, and the passing of time.
LEMMA TimeIInv ==
  ASSUME IInv,
         \/ Crash
         \/ \E t \in Tokens : ExpireAccess(t) \/ ExpireEntry(t) \/ ExpireRecord(t)
  PROVE  IInv'
  <1>1. TypeOK
    BY DEF IInv
  <1>2. UNCHANGED <<account, index, born, promises>>
    BY DEF Crash, ExpireAccess, ExpireEntry, ExpireRecord, redis
  <1>3. /\ records' \subseteq records /\ live' \subseteq live /\ revoked' \subseteq revoked
        /\ \A t \in live' : t \in revoked => t \in revoked'
    BY DEF Crash, ExpireAccess, ExpireEntry, EntryOutlives, ExpireRecord, redis
  <1>4. /\ req' \in [Requests -> Request]
        /\ \A r \in Requests : req'[r] = req[r] \/ FlightOK(req[r])'
    <2>1. CASE Crash
      <3>1. FlightOK(NoRequest)'
        BY DEF NoRequest, FlightOK, None
      <3> QED BY <2>1, <3>1, NoRequestOK DEF Crash, FlightOK
    <2>2. CASE ~Crash
      BY <1>1, <2>2 DEF ExpireAccess, ExpireEntry, ExpireRecord, TypeOK
    <2> QED BY <2>1, <2>2
  <1>5. TypeOK'
    BY <1>1, <1>2, <1>3, <1>4 DEF TypeOK, account, born, promises
  <1>6. AuditAlternates'
    BY <1>2 DEF IInv, AuditAlternates, account
  <1> QED BY <1>2, <1>3, <1>4, <1>5, <1>6, PlainStep DEF promises

LEMMA NextIInv == IInv /\ [Next]_vars => IInv'
  <1> SUFFICES ASSUME IInv, [Next]_vars PROVE IInv'
    OBVIOUS
  <1>1. ASSUME NEW r \in Requests, Ask(r) \/ Work(r) \/ Fail(r) PROVE IInv'
    BY <1>1, AskIInv, ReadIInv, TokenIInv, MintIInv, StoreIInv, ApplyIInv DEF Work
  <1>2. CASE \/ Crash
             \/ \E t \in Tokens : ExpireAccess(t) \/ ExpireEntry(t) \/ ExpireRecord(t)
    BY <1>2, TimeIInv
  <1>3. CASE UNCHANGED vars
    <2>1. TypeOK'
      BY <1>3 DEF IInv, TypeOK, vars, account, redis, born, promises
    <2>2. AuditAlternates'
      BY <1>3 DEF IInv, AuditAlternates, vars, account
    <2> QED BY <1>3, <2>1, <2>2, PlainStep DEF vars, redis, promises
  <1> QED BY <1>1, <1>2, <1>3 DEF Next

LEMMA Invariance == Spec => []IInv
  BY InitIInv, NextIInv, PTL DEF Spec

\* Every variable keeps its type, and the index of an account only names its
\* own sessions.
THEOREM TypeCorrect == Spec => []TypeOK
  <1>1. IInv => TypeOK
    BY DEF IInv
  <1> QED BY <1>1, Invariance, PTL

\* Rotation: once the new pair exists, neither half of the one it was refreshed
\* from works, however many requests presented it and whoever else revoked it.
THEOREM RotatedIsDead == Spec => []RotatedTokenIsDead
  <1>1. IInv => RotatedTokenIsDead
    BY DEF IInv
  <1> QED BY <1>1, Invariance, PTL

\* After a logout was answered 200, its access token is refused for good.
THEOREM LoggedOutIsOut == Spec => []LoggedOutStaysOut
  <1>1. IInv => LoggedOutStaysOut
    BY DEF IInv
  <1> QED BY <1>1, Invariance, PTL

\* Blocks and unblocks of an account alternate in its audit trail.
THEOREM AuditsAlternate == Spec => []AuditAlternates
  <1>1. IInv => AuditAlternates
    BY DEF IInv
  <1> QED BY <1>1, Invariance, PTL

\* Nobody else's request ends a session: a record disappears by expiry or while
\* a request of its owner, or a status change of the owner, moves.
THEOREM OthersKeep == Spec => OthersKeepTheirSessions
  <1> DEFINE ByOwner(t) == \E r \in Requests : req[r].user = owner[t] /\ req'[r] # req[r]
  <1>1. ASSUME IInv, Next, NEW t \in Tokens, t \in records, t \notin records'
        PROVE  ExpireRecord(t) \/ ByOwner(t)
    <2>1. \/ ExpireRecord(t)
          \/ \E r \in Requests : DeletePresented(r) \/ DropSession(r) \/ WipeSessions(r)
      <3>1. ASSUME NEW r \in Requests, Ask(r) \/ Fail(r) PROVE records' = records
        BY <3>1 DEF Ask, AskSignIn, AskRefresh, AskLogout, AskPassword, AskStatus, Fail, redis
      <3>2. ASSUME NEW r \in Requests, Work(r)
            PROVE  \/ records \subseteq records'
                   \/ DeletePresented(r) \/ DropSession(r) \/ WipeSessions(r)
        BY <3>2 DEF Work, CheckAccount, Mint, GetSession, RetireToken, RevokeAccess,
                    FindSession, ComparePassword, StorePassword, DecideStatus, ApplyStatus,
                    Reload, ListSessions, ReadSession, redis
      <3>3. Crash => records' = records
        BY DEF Crash, redis
      <3>4. ASSUME NEW s \in Tokens, ExpireAccess(s) \/ ExpireEntry(s) PROVE records' = records
        BY <3>4 DEF ExpireAccess, ExpireEntry, redis
      <3>5. ASSUME NEW s \in Tokens, ExpireRecord(s) PROVE ExpireRecord(t)
        BY <1>1, <3>5 DEF ExpireRecord
      <3> QED BY <1>1, <3>1, <3>2, <3>3, <3>4, <3>5 DEF Next
    <2>2. ASSUME NEW r \in Requests, DeletePresented(r) \/ DropSession(r) \/ WipeSessions(r)
          PROVE  req[r].user = owner[t] /\ req'[r] # req[r]
      <3>1. req \in [Requests -> Request] /\ FlightOK(req[r])
        BY <1>1 DEF IInv, TypeOK, InFlight
      <3>2. CASE DeletePresented(r)
        <4>1. t = req[r].token /\ req[r].at = "deleting" /\ req'[r].at = "retiring"
          BY <1>1, <3>1, <3>2 DEF DeletePresented, DropRecord, Step, Request
        <4> QED BY <3>1, <4>1 DEF FlightOK
      <3>3. CASE DropSession(r)
        <4>1. t = req[r].other /\ req[r].at = "dropping" /\ req'[r].at = "answered"
          BY <1>1, <3>1, <3>3 DEF DropSession, DropRecord, Reply, NoRequest
        <4> QED BY <3>1, <4>1 DEF FlightOK
      <3>4. CASE WipeSessions(r)
        <4>1. t \in req[r].keys /\ req[r].at = "wiping"
          BY <1>1, <3>4 DEF WipeSessions, SweptRecords
        <4>2. req'[r].at = AfterSweep(r)
          BY <3>1, <3>4 DEF WipeSessions, Request
        <4> QED BY <3>1, <4>1, <4>2 DEF FlightOK, AfterSweep
      <3> QED BY <2>2, <3>2, <3>3, <3>4
    <2> QED BY <2>1, <2>2
  <1>2. IInv /\ [Next]_vars => [EndedByOwner]_vars
    BY <1>1 DEF EndedByOwner
  <1> QED BY <1>2, Invariance, PTL DEF Spec, OthersKeepTheirSessions

-----------------------------------------------------------------------------
(* Requests that overlap                                                   *)
(*                                                                         *)
(* Single use of a refresh token, and the end of every session by a block  *)
(* or a new password, do not survive every overlap of two requests.  What  *)
(* follows says which overlaps they do not survive, and that they survive  *)
(* all the others: with one request at a time, as in the serial run, none  *)
(* of these overlaps exists.                                               *)

\* A request that has found whom a session is for and has not opened it yet.
Opening(q) ==
  \/ q.at \in {"deleting", "minting"}
  \/ q.at = "retiring" /\ q.kind = "refresh"

\* A request that ends the sessions of an account and has not answered yet.
Closing(q) ==
  \/ q.at \in {"listing", "reading", "wiping", "reloading"}
  \/ q.at = "retiring" /\ q.kind = "password"

\* No token is being refreshed twice, both times after its record was read.
OneRefresh ==
  \A r, s \in Requests :
    /\ Opening(req[r]) /\ Opening(req[s])
    /\ req[r].token = req[s].token /\ req[r].token # None
    => r = s

\* No session of an account is opened while another request ends its sessions.
Apart ==
  \A r, s \in Requests :
    r # s /\ req[r].user = req[s].user => ~(Closing(req[r]) /\ Opening(req[s]))

\* No account is about to store two passwords.
OnePassword ==
  \A r, s \in Requests :
    /\ req[r].at = "storing" /\ req[s].at = "storing"
    /\ req[r].user = req[s].user
    => r = s

-----------------------------------------------------------------------------
(* What a step does                                                        *)

\* Stages in which a request has nothing to do with any of this.
Aside == {"answered", "checking", "getting", "revoking", "finding", "dropping",
          "comparing", "deciding", "applying"}

Same(c, q) ==
  /\ q.kind = c.kind /\ q.user = c.user /\ q.token = c.token
  /\ q.version = c.version /\ q.status = c.status

\* How a request c that changes neither accounts nor sessions becomes q.
Turn(c, q) ==
  \/ q.at \in Aside
  \/ /\ c.at = "checking" /\ q.at = "minting" /\ Same(c, q) /\ c.token = None
     /\ c.version = password[c.user] /\ status[c.user] = "active"
  \/ /\ c.at = "getting" /\ q.at = "deleting" /\ q.token \in records
     /\ q.user = owner[q.token] /\ q.version = cred[q.token]
  \/ c.at = "deleting" /\ q.at = "retiring" /\ Same(c, q) /\ c.kind = "refresh"
  \/ c.at = "retiring" /\ q.at = "minting" /\ Same(c, q) /\ c.kind = "refresh"
  \/ c.at = "comparing" /\ q.at = "storing" /\ Same(c, q) /\ c.version = password[c.user]
  \/ c.at = "listing" /\ q.at = "reading" /\ Same(c, q) /\ q.keys = index[c.user]
  \/ /\ c.at = "listing" /\ q.at \in {"retiring", "reloading"} /\ Same(c, q)
     /\ index[c.user] = {} /\ (q.at = "retiring" => c.kind = "password")
  \/ c.at = "reading" /\ q.at \in {"reading", "wiping"} /\ Same(c, q) /\ q.keys = c.keys

\* No account changes, no session is opened, and what is left stays indexed.
Settled ==
  /\ UNCHANGED <<owner, cred, parent, password, ended, status, lockedOut>>
  /\ records' \subseteq records
  /\ \A u \in Users : \A t \in records' : t \in index[u] => t \in index'[u]

Soft == Settled /\ \A r \in Requests : req'[r] = req[r] \/ Turn(req[r], req'[r])

\* One request becomes q.
Becomes(r, q) == req'[r] = q /\ \A s \in Requests : s # r => req'[s] = req[s]

\* A request that turns while accounts and sessions stay settled.
LEMMA SoftTurn ==
  ASSUME IInv, Settled, NEW r \in Requests, NEW q, req' = [req EXCEPT ![r] = q],
         Turn(req[r], q)
  PROVE  Soft
  BY DEF Soft, IInv, TypeOK

\* An answer opens and ends nothing.
LEMMA SoftReply ==
  ASSUME IInv, Settled, NEW r \in Requests, NEW a, Reply(r, a) PROVE Soft
  <1> DEFINE q == [NoRequest EXCEPT !.answer = a]
  <1>1. Turn(req[r], q)
    BY DEF NoRequest, Turn, Aside
  <1>2. req' = [req EXCEPT ![r] = q]
    BY DEF Reply
  <1> QED BY <1>1, <1>2, SoftTurn

\* A new request.
LEMMA SoftAsk == ASSUME IInv, NEW r \in Requests, Ask(r) PROVE Soft
  <1>1. Settled
    BY DEF Ask, AskSignIn, AskRefresh, AskLogout, AskPassword, AskStatus, account, redis,
           born, promises, Settled
  <1>2. ASSUME NEW q, q.at \in Aside, Receive(r, q) PROVE Soft
    BY <1>1, <1>2, SoftTurn DEF Receive, Turn
  <1>3. ASSUME Refuse(r) PROVE Soft
    BY <1>1, <1>3, SoftReply DEF Refuse
  <1>4. CASE AskSignIn(r)
    <2>1. PICK u \in Users, v \in 0..MaxVersion :
            Receive(r, [NoRequest EXCEPT !.at = "checking", !.kind = "signin",
                          !.user = u, !.version = v])
      BY <1>4 DEF AskSignIn
    <2> DEFINE q == [NoRequest EXCEPT !.at = "checking", !.kind = "signin",
                       !.user = u, !.version = v]
    <2>2. q.at \in Aside
      BY DEF NoRequest, Aside
    <2> QED BY <1>2, <2>1, <2>2
  <1>5. CASE AskRefresh(r)
    <2>1. PICK t \in Tokens :
            Receive(r, [NoRequest EXCEPT !.at = "getting", !.kind = "refresh", !.token = t])
      BY <1>5 DEF AskRefresh
    <2> DEFINE q == [NoRequest EXCEPT !.at = "getting", !.kind = "refresh", !.token = t]
    <2>2. q.at \in Aside
      BY DEF NoRequest, Aside
    <2> QED BY <1>2, <2>1, <2>2
  <1>6. CASE AskLogout(r) /\ ~Refuse(r)
    <2>1. PICK t \in Tokens, o \in Tokens \cup {None} :
            Receive(r, [NoRequest EXCEPT !.at = "revoking", !.kind = "logout",
                          !.user = owner[t], !.token = t, !.other = o])
      BY <1>6 DEF AskLogout
    <2> DEFINE q == [NoRequest EXCEPT !.at = "revoking", !.kind = "logout",
                       !.user = owner[t], !.token = t, !.other = o]
    <2>2. q.at \in Aside
      BY DEF NoRequest, Aside
    <2> HIDE DEF q
    <2>3. Receive(r, q)
      BY <2>1 DEF q
    <2> QED BY <1>1, <2>2, <2>3, SoftTurn DEF Receive, Turn
  <1>7. CASE AskPassword(r) /\ ~Refuse(r)
    <2>1. PICK t \in Tokens, v \in 0..MaxVersion :
            Receive(r, [NoRequest EXCEPT !.at = "comparing", !.kind = "password",
                          !.user = owner[t], !.token = t, !.version = v])
      BY <1>7 DEF AskPassword
    <2> DEFINE q == [NoRequest EXCEPT !.at = "comparing", !.kind = "password",
                       !.user = owner[t], !.token = t, !.version = v]
    <2>2. q.at \in Aside
      BY DEF NoRequest, Aside
    <2> HIDE DEF q
    <2>3. Receive(r, q)
      BY <2>1 DEF q
    <2> QED BY <1>1, <2>2, <2>3, SoftTurn DEF Receive, Turn
  <1>8. CASE AskStatus(r) /\ ~Refuse(r)
    <2>1. PICK u \in Users, s \in Statuses :
            Receive(r, [NoRequest EXCEPT !.at = "deciding", !.kind = "status",
                          !.user = u, !.status = s])
      BY <1>8 DEF AskStatus
    <2> DEFINE q == [NoRequest EXCEPT !.at = "deciding", !.kind = "status",
                       !.user = u, !.status = s]
    <2>2. q.at \in Aside
      BY DEF NoRequest, Aside
    <2> QED BY <1>2, <2>1, <2>2
  <1> QED BY <1>3, <1>4, <1>5, <1>6, <1>7, <1>8 DEF Ask

\* The steps that only read.
LEMMA SoftRead ==
  ASSUME IInv, NEW r \in Requests,
         \/ CheckAccount(r) \/ GetSession(r) \/ ComparePassword(r)
         \/ DecideStatus(r) \/ ListSessions(r) \/ ReadSession(r) \/ Fail(r)
  PROVE  Soft
  <1>1. Settled
    BY DEF CheckAccount, GetSession, ComparePassword, DecideStatus, ListSessions,
           ReadSession, Fail, account, redis, born, promises, Settled
  <1>2. req[r] \in Request /\ FlightOK(req[r])
    BY DEF IInv, TypeOK, InFlight
  <1>3. PICK c \in Request : c = req[r]
    BY <1>2
  <1>4. CASE \E a : Reply(r, a)
    BY <1>1, <1>4, SoftReply
  <1>5. ASSUME NEW to, req' = [req EXCEPT ![r].at = to],
               \A q : q = [c EXCEPT !.at = to] => Turn(c, q)
        PROVE  Soft
    <2>1. PICK q : q = [c EXCEPT !.at = to]
      OBVIOUS
    <2>2. req' = [req EXCEPT ![r] = q] /\ Turn(req[r], q)
      BY <1>3, <1>5, <2>1
    <2> QED BY <1>1, <2>2, SoftTurn
  <1>6. CASE CheckAccount(r) /\ ~\E a : Reply(r, a)
    <2>1. /\ c.at = "checking" /\ c.version = password[c.user]
          /\ status[c.user] = "active" /\ req' = [req EXCEPT ![r].at = "minting"]
      BY <1>3, <1>6 DEF CheckAccount, MaySignIn, Step
    <2>2. c.token = None
      BY <1>2, <1>3, <2>1 DEF FlightOK
    <2>3. ASSUME NEW q, q = [c EXCEPT !.at = "minting"] PROVE Turn(c, q)
      BY <2>1, <2>2, <2>3 DEF Turn, Same, Request
    <2> QED BY <1>5, <2>1, <2>3
  <1>7. CASE GetSession(r) /\ ~\E a : Reply(r, a)
    <2>1. /\ c.at = "getting" /\ c.token \in records
          /\ req' = [req EXCEPT ![r].at = "deleting", ![r].user = owner[c.token],
                                ![r].version = cred[c.token]]
      BY <1>3, <1>7 DEF GetSession
    <2>2. PICK q : q = [c EXCEPT !.at = "deleting", !.user = owner[c.token],
                                 !.version = cred[c.token]]
      OBVIOUS
    <2>3. req' = [req EXCEPT ![r] = q]
      BY <1>3, <2>1, <2>2 DEF IInv, TypeOK
    <2>4. Turn(req[r], q)
      BY <1>3, <2>1, <2>2 DEF Turn, Request
    <2> QED BY <1>1, <2>3, <2>4, SoftTurn
  <1>8. CASE ComparePassword(r) /\ ~\E a : Reply(r, a)
    <2>1. /\ c.at = "comparing" /\ c.version = password[c.user]
          /\ req' = [req EXCEPT ![r].at = "storing"]
      BY <1>3, <1>8 DEF ComparePassword, Step
    <2>2. ASSUME NEW q, q = [c EXCEPT !.at = "storing"] PROVE Turn(c, q)
      BY <2>1, <2>2 DEF Turn, Same, Request
    <2> QED BY <1>5, <2>1, <2>2
  <1>9. CASE DecideStatus(r) /\ ~\E a : Reply(r, a)
    <2>1. req' = [req EXCEPT ![r].at = "applying"]
      BY <1>9 DEF DecideStatus, Step
    <2>2. ASSUME NEW q, q = [c EXCEPT !.at = "applying"] PROVE Turn(c, q)
      BY <2>2 DEF Turn, Aside, Request
    <2> QED BY <1>5, <2>1, <2>2
  <1>10. CASE ListSessions(r)
    <2>1. PICK a \in {"retiring", "reloading"} :
            a = AfterSweep(r) /\ (a = "retiring" => c.kind = "password")
      BY <1>3 DEF AfterSweep
    <2>2. PICK keys : keys = index[c.user]
      OBVIOUS
    <2>3. PICK q : q = [c EXCEPT !.at = IF keys = {} THEN a ELSE "reading",
                                 !.keys = keys, !.todo = keys]
      OBVIOUS
    <2>4. req' = [req EXCEPT ![r] = q] /\ c.at = "listing"
      BY <1>3, <1>10, <2>1, <2>2, <2>3 DEF ListSessions, IInv, TypeOK
    <2>5. /\ Same(c, q) /\ q.keys = keys
          /\ q.at = IF keys = {} THEN a ELSE "reading"
      BY <2>3 DEF Same, Request
    <2>6. Turn(req[r], q)
      BY <1>3, <2>1, <2>2, <2>4, <2>5 DEF Turn
    <2> QED BY <1>1, <2>4, <2>6, SoftTurn
  <1>11. CASE ReadSession(r)
    <2>1. PICK t \in c.todo : req' = [req EXCEPT
         ![r].todo = @ \ {t},
         ![r].ids  = IF t \in records THEN @ \cup {t} ELSE @,
         ![r].at   = IF c.todo = {t} THEN "wiping" ELSE "reading"]
      BY <1>3, <1>11 DEF ReadSession
    <2>2. PICK q : q = [c EXCEPT !.todo = @ \ {t},
                          !.ids = IF t \in records THEN @ \cup {t} ELSE @,
                          !.at = IF c.todo = {t} THEN "wiping" ELSE "reading"]
      OBVIOUS
    <2>3. req' = [req EXCEPT ![r] = q] /\ c.at = "reading"
      BY <1>3, <1>11, <2>1, <2>2 DEF ReadSession, IInv, TypeOK
    <2>4. Same(c, q) /\ q.keys = c.keys /\ q.at \in {"reading", "wiping"}
      BY <2>2 DEF Same, Request
    <2>5. Turn(req[r], q)
      BY <1>3, <2>3, <2>4 DEF Turn
    <2> QED BY <1>1, <2>3, <2>5, SoftTurn
  <1> QED BY <1>4, <1>6, <1>7, <1>8, <1>9, <1>10, <1>11 DEF Fail

\* The steps on single tokens: they end sessions and open none.
LEMMA SoftToken ==
  ASSUME IInv, NEW r \in Requests,
         \/ DeletePresented(r) \/ RevokeAccess(r) \/ FindSession(r) \/ DropSession(r)
  PROVE  Soft
  <1>1. Settled
    <2>1. CASE DeletePresented(r)
      BY <2>1 DEF DeletePresented, DropRecord, account, redis, born, promises, Settled,
                  IInv, TypeOK
    <2>2. CASE RevokeAccess(r)
      BY <2>2 DEF RevokeAccess, account, redis, born, promises, Settled
    <2>3. CASE FindSession(r)
      BY <2>3 DEF FindSession, account, redis, born, promises, Settled
    <2>4. CASE DropSession(r)
      BY <2>4 DEF DropSession, DropRecord, account, redis, born, promises, Settled,
                  IInv, TypeOK
    <2> QED BY <2>1, <2>2, <2>3, <2>4
  <1>2. req[r] \in Request /\ FlightOK(req[r])
    BY DEF IInv, TypeOK, InFlight
  <1>3. PICK c \in Request : c = req[r]
    BY <1>2
  <1>4. CASE \E a : Reply(r, a)
    BY <1>1, <1>4, SoftReply
  <1>5. CASE DeletePresented(r)
    <2>1. PICK q : q = [c EXCEPT !.at = "retiring"]
      OBVIOUS
    <2>2. req' = [req EXCEPT ![r] = q] /\ c.at = "deleting"
      BY <1>3, <1>5, <2>1 DEF DeletePresented, Step
    <2>3. Turn(req[r], q)
      BY <1>2, <1>3, <2>1, <2>2 DEF Turn, Same, FlightOK, Request
    <2> QED BY <1>1, <2>2, <2>3, SoftTurn
  <1>6. CASE \E to \in {"finding", "dropping"} : req' = [req EXCEPT ![r].at = to]
    <2>1. PICK to \in {"finding", "dropping"} : req' = [req EXCEPT ![r].at = to]
      BY <1>6
    <2>2. PICK q : q = [c EXCEPT !.at = to]
      OBVIOUS
    <2>3. req' = [req EXCEPT ![r] = q] /\ q.at \in Aside
      BY <1>3, <2>1, <2>2 DEF Aside, Request
    <2> QED BY <1>1, <2>3, SoftTurn DEF Turn
  <1> QED BY <1>4, <1>5, <1>6 DEF RevokeAccess, FindSession, DropSession, Step

\* Every step but those that open or close a session, or change an account.
LEMMA Steps ==
  ASSUME IInv, [Next]_vars
  PROVE  \/ Soft
         \/ \E r \in Requests : \/ Mint(r) \/ RetireToken(r) \/ StorePassword(r)
                                \/ ApplyStatus(r) \/ Reload(r) \/ WipeSessions(r)
  <1>1. ASSUME NEW r \in Requests, Ask(r) \/ Work(r) \/ Fail(r)
        PROVE  \/ Soft \/ Mint(r) \/ RetireToken(r) \/ StorePassword(r)
               \/ ApplyStatus(r) \/ Reload(r) \/ WipeSessions(r)
    BY <1>1, SoftAsk, SoftRead, SoftToken DEF Work
  <1>2. CASE Crash
    <2>1. Settled
      BY <1>2 DEF Crash, account, redis, born, promises, Settled
    <2>2. \A r \in Requests : Turn(req[r], req'[r])
      BY <1>2 DEF Crash, NoRequest, Turn, Aside
    <2> QED BY <2>1, <2>2 DEF Soft
  <1>3. CASE \E t \in Tokens : ExpireAccess(t) \/ ExpireEntry(t) \/ ExpireRecord(t)
    <2>1. Settled /\ UNCHANGED req
      BY <1>3 DEF ExpireAccess, ExpireEntry, ExpireRecord, account, redis, born, promises,
                  Settled
    <2> QED BY <2>1 DEF Soft
  <1>4. CASE UNCHANGED vars
    BY <1>4 DEF vars, account, redis, born, promises, Settled, Soft
  <1> QED BY <1>1, <1>2, <1>3, <1>4 DEF Next

-----------------------------------------------------------------------------
(* The six other steps                                                     *)

\* What every request knows of its account.
LEMMA Known ==
  ASSUME IInv, NEW r \in Requests
  PROVE  /\ req[r] \in Request /\ FlightOK(req[r])
         /\ Opening(req[r]) \/ Closing(req[r]) \/ req[r].at \in {"storing", "applying"} =>
              req[r].user \in Users
         /\ Closing(req[r]) => ~Opening(req[r])
  BY DEF IInv, TypeOK, InFlight, FlightOK, Opening, Closing

\* A new pair: the only step that opens a session.
LEMMA MintEffect ==
  ASSUME IInv, NEW r \in Requests, Mint(r)
  PROVE  \E t \in Tokens, q \in Request :
           /\ Fresh(t) /\ t \notin records
           /\ Becomes(r, q) /\ q.at = "answered" /\ Opening(req[r])
           /\ records' = records \cup {t}
           /\ index' = [index EXCEPT ![req[r].user] = @ \cup {t}]
           /\ owner' = [owner EXCEPT ![t] = req[r].user]
           /\ cred' = [cred EXCEPT ![t] = req[r].version]
           /\ parent' = [parent EXCEPT ![t] = req[r].token]
           /\ UNCHANGED <<password, ended, status, lockedOut>>
  <1>1. PICK t \in Tokens :
          /\ Fresh(t)
          /\ records' = records \cup {t}
          /\ index' = [index EXCEPT ![req[r].user] = @ \cup {t}]
          /\ owner' = [owner EXCEPT ![t] = req[r].user]
          /\ cred' = [cred EXCEPT ![t] = req[r].version]
          /\ parent' = [parent EXCEPT ![t] = req[r].token]
    BY DEF Mint, IndexSession
  <1>2. t \notin records
    BY <1>1 DEF IInv, Minted
  <1>3. PICK q \in Request : q = [NoRequest EXCEPT !.answer = "ok"]
    BY ReplyOK
  <1>4. Becomes(r, q) /\ q.at = "answered"
    BY <1>3 DEF Mint, Reply, Becomes, NoRequest, IInv, TypeOK
  <1>5. Opening(req[r]) /\ UNCHANGED <<password, ended, status, lockedOut>>
    BY DEF Mint, Opening, account, promises
  <1> QED BY <1>1, <1>2, <1>4, <1>5

\* Either the end of a password change, or no more than a refresh going on.
LEMMA RetireEffect ==
  ASSUME IInv, NEW r \in Requests, RetireToken(r), ~Soft
  PROVE  \E q :
           /\ Becomes(r, q) /\ q.at = "answered"
           /\ req[r].at = "retiring" /\ req[r].kind = "password"
           /\ ended' = [ended EXCEPT ![req[r].user] =
                IF @ < req[r].version + 1 THEN req[r].version + 1 ELSE @]
           /\ UNCHANGED <<records, index, owner, cred, parent, password, status, lockedOut>>
  <1>1. UNCHANGED <<records, index, owner, cred, parent, password, status, lockedOut>>
    BY DEF RetireToken, account, born
  <1>2. req[r] \in Request
    BY Known
  <1>3. CASE req[r].kind = "refresh" /\ Step(r, "retiring", "minting") /\ UNCHANGED ended
    <2>1. Settled
      BY <1>1, <1>3 DEF Settled
    <2>2. PICK c \in Request : c = req[r]
      BY <1>2
    <2>3. PICK q : q = [c EXCEPT !.at = "minting"]
      OBVIOUS
    <2>4. req' = [req EXCEPT ![r] = q] /\ c.at = "retiring"
      BY <1>3, <2>2, <2>3 DEF Step
    <2>5. Turn(req[r], q)
      BY <1>3, <2>2, <2>3, <2>4 DEF Turn, Same, Request
    <2> QED BY <2>1, <2>4, <2>5, SoftTurn
  <1>4. CASE /\ req[r].kind = "password" /\ Reply(r, "ok")
             /\ ended' = [ended EXCEPT ![req[r].user] =
                  IF @ < req[r].version + 1 THEN req[r].version + 1 ELSE @]
    <2>1. PICK q : q = [NoRequest EXCEPT !.answer = "ok"]
      OBVIOUS
    <2>2. Becomes(r, q) /\ q.at = "answered"
      BY <1>4, <2>1 DEF Reply, Becomes, NoRequest, IInv, TypeOK
    <2>3. req[r].at = "retiring"
      BY DEF RetireToken
    <2> QED BY <1>1, <1>4, <2>2, <2>3
  <1> QED BY <1>3, <1>4 DEF RetireToken

\* The new password, one version further than the one that was compared.
LEMMA StoreEffect ==
  ASSUME IInv, NEW r \in Requests, StorePassword(r)
  PROVE  \E q :
           /\ Becomes(r, q) /\ req[r].at = "storing" /\ q.at = "listing" /\ Same(req[r], q)
           /\ password' = [password EXCEPT ![req[r].user] = req[r].version + 1]
           /\ UNCHANGED <<records, index, owner, cred, parent, ended, status, lockedOut>>
  <1>1. PICK c \in Request : c = req[r]
    BY Known
  <1>2. PICK q : q = [c EXCEPT !.at = "listing"]
    OBVIOUS
  <1>3. Same(c, q) /\ q.at = "listing"
    BY <1>2 DEF Same, Request
  <1>4. Becomes(r, q) /\ req[r].at = "storing"
    BY <1>1, <1>2 DEF StorePassword, Step, Becomes, IInv, TypeOK
  <1>5. /\ password' = [password EXCEPT ![req[r].user] = req[r].version + 1]
        /\ UNCHANGED <<records, index, owner, cred, parent, ended, status, lockedOut>>
    BY DEF StorePassword, redis, born, promises
  <1> QED BY <1>1, <1>3, <1>4, <1>5

\* Only a block goes on to end sessions.
LEMMA ApplyEffect ==
  ASSUME IInv, NEW r \in Requests, ApplyStatus(r), ~Soft
  PROVE  \E q :
           /\ Becomes(r, q) /\ q.at \in {"listing", "reloading"} /\ Same(req[r], q)
           /\ q.kind = "status" /\ (q.at = "reloading" => q.status # "blocked")
           /\ req[r].at = "applying"
           /\ status' = [status EXCEPT ![req[r].user] = req[r].status]
           /\ lockedOut' = lockedOut \ {req[r].user}
           /\ UNCHANGED <<records, index, owner, cred, parent, password, ended>>
  <1>1. PICK c \in Request : c = req[r] /\ FlightOK(c)
    BY Known
  <1>2. UNCHANGED <<records, index, owner, cred, parent, ended>> /\ c.at = "applying"
    BY <1>1 DEF ApplyStatus, redis, born
  <1>3. CASE Reply(r, "refused") /\ UNCHANGED <<account, lockedOut>>
    <2>1. Settled
      BY <1>2, <1>3 DEF Settled, account
    <2> QED BY <1>3, <2>1, SoftReply
  <1>4. CASE /\ status' = [status EXCEPT ![c.user] = c.status]
             /\ Step(r, "applying", IF c.status = "blocked" THEN "listing" ELSE "reloading")
             /\ lockedOut' = lockedOut \ {c.user}
             /\ UNCHANGED password
    <2>1. PICK a : a = IF c.status = "blocked" THEN "listing" ELSE "reloading"
      OBVIOUS
    <2>2. PICK q : q = [c EXCEPT !.at = a]
      OBVIOUS
    <2>3. Same(c, q) /\ q.at = a
      BY <2>2 DEF Same, Request
    <2>4. Becomes(r, q)
      BY <1>1, <1>4, <2>1, <2>2 DEF Step, Becomes, IInv, TypeOK
    <2>5. c.kind = "status"
      BY <1>1, <1>2 DEF FlightOK
    <2>6. /\ q.at \in {"listing", "reloading"} /\ q.kind = "status"
          /\ (q.at = "reloading" => q.status # "blocked")
      BY <2>1, <2>3, <2>5 DEF Same
    <2> QED BY <1>1, <1>2, <1>4, <2>3, <2>4, <2>6
  <1> QED BY <1>1, <1>3, <1>4 DEF ApplyStatus

\* The answer to a status change, and what it promises.
LEMMA ReloadEffect ==
  ASSUME IInv, NEW r \in Requests, Reload(r)
  PROVE  \E q :
           /\ Becomes(r, q) /\ q.at = "answered" /\ req[r].at = "reloading"
           /\ lockedOut' =
                IF req[r].status = "blocked" /\ status[req[r].user] = "blocked"
                THEN lockedOut \cup {req[r].user} ELSE lockedOut
           /\ UNCHANGED <<records, index, owner, cred, parent, password, ended, status>>
  <1>1. PICK q : q = [NoRequest EXCEPT !.answer = "ok"]
    OBVIOUS
  <1>2. Becomes(r, q) /\ q.at = "answered"
    BY <1>1 DEF Reload, Reply, Becomes, NoRequest, IInv, TypeOK
  <1>3. req[r].at = "reloading" /\ lockedOut' =
                IF req[r].status = "blocked" /\ status[req[r].user] = "blocked"
                THEN lockedOut \cup {req[r].user} ELSE lockedOut
    BY DEF Reload
  <1>4. UNCHANGED <<records, index, owner, cred, parent, password, ended, status>>
    BY DEF Reload, account, redis, born
  <1> QED BY <1>2, <1>3, <1>4

\* The pipeline that deletes the listed keys and the index.
LEMMA WipeEffect ==
  ASSUME IInv, NEW r \in Requests, WipeSessions(r)
  PROVE  \E q :
           /\ Becomes(r, q) /\ req[r].at = "wiping" /\ q.at \in {"retiring", "reloading"}
           /\ Same(req[r], q) /\ (q.at = "retiring" => q.kind = "password")
           /\ records' = records \ req[r].keys
           /\ index' = [index EXCEPT ![req[r].user] = {}]
           /\ UNCHANGED <<owner, cred, parent, password, ended, status, lockedOut>>
  <1>1. PICK c \in Request : c = req[r]
    BY Known
  <1>2. PICK a \in {"retiring", "reloading"} :
          a = AfterSweep(r) /\ (a = "retiring" => c.kind = "password")
    BY <1>1 DEF AfterSweep
  <1>3. PICK q : q = [c EXCEPT !.at = a, !.keys = {}, !.ids = {}]
    OBVIOUS
  <1>4. Same(c, q) /\ q.at = a
    BY <1>3 DEF Same, Request
  <1>5. Becomes(r, q)
    BY <1>1, <1>2, <1>3 DEF WipeSessions, Becomes, IInv, TypeOK
  <1>6. /\ req[r].at = "wiping" /\ records' = records \ req[r].keys
        /\ index' = [index EXCEPT ![req[r].user] = {}]
        /\ UNCHANGED <<owner, cred, parent, password, ended, status, lockedOut>>
    BY DEF WipeSessions, SweptRecords, account, born, promises
  <1>7. q.at = "retiring" => q.kind = "password"
    BY <1>2, <1>4 DEF Same
  <1> QED BY <1>1, <1>2, <1>4, <1>5, <1>6, <1>7

-----------------------------------------------------------------------------
(* A refresh token is used once                                            *)

\* Whoever is about to retire a refresh token is the first to.
Unused ==
  \A r \in Requests : Opening(req[r]) /\ req[r].token # None =>
    \A t \in Tokens : parent[t] # req[r].token

UsedOnce == Unused /\ RefreshIsSingleUse

\* A step that issues no token, and after which the requests that open a
\* session are those that did before.
LEMMA UnusedKept ==
  ASSUME UsedOnce, UNCHANGED parent, NEW r \in Requests, NEW q, Becomes(r, q),
         q.at \in {"answered", "listing", "reloading"} \/ (q.at = "retiring" /\ q.kind # "refresh")
  PROVE  UsedOnce'
  BY DEF UsedOnce, Unused, RefreshIsSingleUse, Becomes, Opening

\* Of two refreshes of one token, one at most gets past the record.
LEMMA UsedOnceKept == ASSUME IInv, UsedOnce, OneRefresh, [Next]_vars PROVE UsedOnce'
  <1>1. CASE Soft
    <2>1. RefreshIsSingleUse'
      BY <1>1 DEF Soft, Settled, UsedOnce, RefreshIsSingleUse
    <2>2. ASSUME NEW r \in Requests, Opening(req'[r]), req'[r].token # None, NEW t \in Tokens
          PROVE  parent[t] # req'[r].token
      <3>1. CASE req'[r] = req[r]
        BY <2>2, <3>1 DEF UsedOnce, Unused
      <3>2. CASE Turn(req[r], req'[r])
        <4>1. CASE req'[r].at = "deleting"
          <5>1. req'[r].token \in records
            BY <3>2, <4>1 DEF Turn, Aside
          <5> QED BY <2>2, <5>1 DEF IInv, RotatedTokenIsDead, Dead
        <4>2. CASE req'[r].at # "deleting"
          <5>1. Opening(req[r]) /\ req'[r].token = req[r].token
            BY <2>2, <3>2, <4>2 DEF Turn, Aside, Opening, Same
          <5> QED BY <2>2, <5>1 DEF UsedOnce, Unused
        <4> QED BY <4>1, <4>2
      <3> QED BY <1>1, <3>1, <3>2 DEF Soft
    <2>3. Unused'
      BY <1>1, <2>2 DEF Unused, Soft, Settled, Opening
    <2> QED BY <2>1, <2>3 DEF UsedOnce
  <1>2. ASSUME NEW r \in Requests, Mint(r) PROVE UsedOnce'
    <2>1. PICK t \in Tokens, q \in Request :
           /\ Becomes(r, q) /\ q.at = "answered" /\ Opening(req[r])
           /\ parent' = [parent EXCEPT ![t] = req[r].token]
      BY <1>2, MintEffect
    <2>2. \A x \in Tokens : parent'[x] = IF x = t THEN req[r].token ELSE parent[x]
      BY <2>1 DEF IInv, TypeOK
    <2>3. RefreshIsSingleUse'
      BY <2>1, <2>2 DEF UsedOnce, Unused, RefreshIsSingleUse
    <2>4. ASSUME NEW s \in Requests, Opening(req'[s]), req'[s].token # None, NEW x \in Tokens
          PROVE  parent'[x] # req'[s].token
      <3>1. s # r /\ req'[s] = req[s]
        BY <2>1, <2>4 DEF Becomes, Opening
      <3>2. parent[x] # req[s].token
        BY <2>4, <3>1 DEF UsedOnce, Unused
      <3>3. req[s].token # req[r].token
        BY <2>1, <2>4, <3>1 DEF OneRefresh
      <3> QED BY <2>2, <3>1, <3>2, <3>3
    <2>5. Unused'
      BY <2>4 DEF Unused, Opening
    <2> QED BY <2>3, <2>5 DEF UsedOnce
  <1>3. ASSUME NEW r \in Requests, RetireToken(r), ~Soft PROVE UsedOnce'
    BY <1>3, RetireEffect, UnusedKept
  <1>4. ASSUME NEW r \in Requests, StorePassword(r) PROVE UsedOnce'
    BY <1>4, StoreEffect, UnusedKept
  <1>5. ASSUME NEW r \in Requests, ApplyStatus(r), ~Soft PROVE UsedOnce'
    BY <1>5, ApplyEffect, UnusedKept
  <1>6. ASSUME NEW r \in Requests, Reload(r) PROVE UsedOnce'
    BY <1>6, ReloadEffect, UnusedKept
  <1>7. ASSUME NEW r \in Requests, WipeSessions(r) PROVE UsedOnce'
    <2>1. PICK q : /\ Becomes(r, q) /\ q.at \in {"retiring", "reloading"}
                   /\ (q.at = "retiring" => q.kind = "password") /\ UNCHANGED parent
      BY <1>7, WipeEffect
    <2> QED BY <2>1, UnusedKept
  <1> QED BY <1>1, <1>2, <1>3, <1>4, <1>5, <1>6, <1>7, Steps

LEMMA InitUsedOnce == Init => UsedOnce
  <1> SUFFICES ASSUME Init PROVE UsedOnce
    OBVIOUS
  <1>1. \A r \in Requests : req[r].at = "answered"
    BY DEF Init, NoRequest
  <1> QED BY <1>1 DEF Init, UsedOnce, Unused, RefreshIsSingleUse, Opening

\* A refresh token yields one new pair, ever, through logouts, password
\* changes, blocks, crashes and expiry, as long as no two refreshes that both
\* found its record are under way: the read and the deletion of the record are
\* two commands, and that overlap is the only one that matters.
THEOREM RefreshedOnce == Spec /\ []OneRefresh => []RefreshIsSingleUse
  <1>1. Init => IInv /\ UsedOnce
    BY InitIInv, InitUsedOnce
  <1>2. IInv /\ UsedOnce /\ OneRefresh /\ [Next]_vars => (IInv /\ UsedOnce)'
    BY NextIInv, UsedOnceKept
  <1>3. IInv /\ UsedOnce => RefreshIsSingleUse
    BY DEF UsedOnce
  <1> QED BY <1>1, <1>2, <1>3, PTL DEF Spec

-----------------------------------------------------------------------------
(* What a block or a new password ends                                     *)

\* Every record of an account is indexed; a request that sweeps its sessions
\* has listed them all; and once it is past the sweep there are none.
Swept ==
  \A t \in records :
    /\ t \in index[owner[t]]
    /\ \A r \in Requests : req[r].user = owner[t] =>
         /\ req[r].at \in {"reading", "wiping"} => t \in req[r].keys
         /\ ~(req[r].at = "retiring" /\ req[r].kind = "password")
         /\ ~(req[r].at = "reloading" /\ req[r].status = "blocked")

\* What Swept says of one record and one request.
SweptBy(t, u, q) ==
  q.user = u =>
    /\ q.at \in {"reading", "wiping"} => t \in q.keys
    /\ ~(q.at = "retiring" /\ q.kind = "password")
    /\ ~(q.at = "reloading" /\ q.status = "blocked")

\* Records are of issued tokens, and those have owners.
LEMMA OwnerKnown ==
  ASSUME IInv, NEW t \in records PROVE t \in Tokens /\ owner[t] \in Users /\ ~Fresh(t)
  BY DEF IInv, TypeOK, Minted, Fresh

\* A step that leaves the records and one request as they are but for q.
LEMMA SweptKept ==
  ASSUME IInv, Swept, UNCHANGED <<records, index, owner>>,
         NEW r \in Requests, NEW q, Becomes(r, q),
         \/ q.at \in {"answered", "listing"}
         \/ q.at = "reloading" /\ q.status # "blocked"
  PROVE  Swept'
  BY DEF Swept, Becomes

\* A sweep misses nothing, as nothing is opened behind its back.
LEMMA SweptNext == ASSUME IInv, Swept, Apart, [Next]_vars PROVE Swept'
  <1>1. CASE Soft
    <2> SUFFICES ASSUME NEW t \in records'
                 PROVE  /\ t \in index'[owner'[t]]
                        /\ \A r \in Requests : SweptBy(t, owner'[t], req'[r])
      BY DEF Swept, SweptBy
    <2>1. t \in records /\ owner'[t] = owner[t] /\ owner[t] \in Users
      BY <1>1, OwnerKnown DEF Soft, Settled
    <2>2. t \in index[owner[t]] /\ \A r \in Requests : SweptBy(t, owner[t], req[r])
      BY <2>1 DEF Swept, SweptBy
    <2>3. t \in index'[owner'[t]]
      BY <1>1, <2>1, <2>2 DEF Soft, Settled
    <2>4. ASSUME NEW r \in Requests, Turn(req[r], req'[r])
          PROVE  SweptBy(t, owner[t], req'[r])
      <3>1. SweptBy(t, owner[t], req[r])
        BY <2>2
      <3> QED BY <2>2, <2>4, <3>1 DEF SweptBy, Turn, Aside, Same
    <2> QED BY <1>1, <2>1, <2>2, <2>3, <2>4 DEF Soft
  <1>2. ASSUME NEW r \in Requests, Mint(r) PROVE Swept'
    <2>1. PICK t \in Tokens, q \in Request :
           /\ Fresh(t) /\ t \notin records
           /\ Becomes(r, q) /\ q.at = "answered" /\ Opening(req[r])
           /\ records' = records \cup {t}
           /\ index' = [index EXCEPT ![req[r].user] = @ \cup {t}]
           /\ owner' = [owner EXCEPT ![t] = req[r].user]
      BY <1>2, MintEffect
    <2>2. req[r].user \in Users
      BY <2>1, Known
    <2>3. /\ \A u \in Users : index[u] \subseteq index'[u]
          /\ t \in index'[req[r].user] /\ owner'[t] = req[r].user
          /\ \A x \in Tokens : x # t => owner'[x] = owner[x]
      BY <2>1, <2>2 DEF IInv, TypeOK
    <2> SUFFICES ASSUME NEW x \in records'
                 PROVE  /\ x \in index'[owner'[x]]
                        /\ \A s \in Requests : SweptBy(x, owner'[x], req'[s])
      BY DEF Swept, SweptBy
    <2>4. CASE x = t
      <3>1. ASSUME NEW s \in Requests, s # r, req[s].user = req[r].user
            PROVE  ~Closing(req[s])
        BY <2>1, <3>1 DEF Apart
      <3>2. ASSUME NEW s \in Requests PROVE SweptBy(x, owner'[x], req'[s])
        <4>1. CASE s = r
          BY <2>1, <4>1 DEF Becomes, SweptBy
        <4>2. CASE s # r
          BY <2>1, <2>3, <2>4, <3>1, <4>2 DEF Becomes, SweptBy, Closing
        <4> QED BY <4>1, <4>2
      <3> QED BY <2>3, <2>4, <3>2
    <2>5. CASE x # t
      <3>1. x \in records /\ owner'[x] = owner[x] /\ owner[x] \in Users
        BY <2>1, <2>3, <2>5, OwnerKnown
      <3>2. x \in index[owner[x]] /\ \A s \in Requests : SweptBy(x, owner[x], req[s])
        BY <3>1 DEF Swept, SweptBy
      <3>3. \A s \in Requests : SweptBy(x, owner[x], req'[s])
        BY <2>1, <3>2 DEF Becomes, SweptBy
      <3> QED BY <2>3, <3>1, <3>2, <3>3
    <2> QED BY <2>4, <2>5
  <1>3. ASSUME NEW r \in Requests, RetireToken(r), ~Soft PROVE Swept'
    BY <1>3, RetireEffect, SweptKept
  <1>4. ASSUME NEW r \in Requests, StorePassword(r) PROVE Swept'
    BY <1>4, StoreEffect, SweptKept
  <1>5. ASSUME NEW r \in Requests, ApplyStatus(r), ~Soft PROVE Swept'
    <2>1. PICK q : /\ Becomes(r, q) /\ UNCHANGED <<records, index, owner>>
                   /\ q.at \in {"listing", "reloading"}
                   /\ (q.at = "reloading" => q.status # "blocked")
      BY <1>5, ApplyEffect
    <2> QED BY <2>1, SweptKept
  <1>6. ASSUME NEW r \in Requests, Reload(r) PROVE Swept'
    BY <1>6, ReloadEffect, SweptKept
  <1>7. ASSUME NEW r \in Requests, WipeSessions(r) PROVE Swept'
    <2>1. PICK q :
           /\ Becomes(r, q) /\ req[r].at = "wiping" /\ Same(req[r], q)
           /\ records' = records \ req[r].keys
           /\ index' = [index EXCEPT ![req[r].user] = {}]
           /\ UNCHANGED owner
      BY <1>7, WipeEffect
    <2> SUFFICES ASSUME NEW x \in records'
                 PROVE  /\ x \in index'[owner'[x]]
                        /\ \A s \in Requests : SweptBy(x, owner'[x], req'[s])
      BY DEF Swept, SweptBy
    <2>2. x \in records /\ x \notin req[r].keys /\ owner[x] \in Users
      BY <2>1, OwnerKnown
    <2>3. x \in index[owner[x]] /\ \A s \in Requests : SweptBy(x, owner[x], req[s])
      BY <2>2 DEF Swept, SweptBy
    <2>4. owner[x] # req[r].user
      BY <2>1, <2>2, <2>3 DEF SweptBy
    <2>5. x \in index'[owner[x]]
      BY <2>1, <2>2, <2>3, <2>4 DEF IInv, TypeOK
    <2>6. \A s \in Requests : SweptBy(x, owner[x], req'[s])
      BY <2>1, <2>3, <2>4 DEF Becomes, SweptBy, Same
    <2> QED BY <2>1, <2>5, <2>6
  <1> QED BY <1>1, <1>2, <1>3, <1>4, <1>5, <1>6, <1>7, Steps

-----------------------------------------------------------------------------
(* A blocked account                                                       *)

\* A locked out account is blocked, and nobody is about to open a session of it.
Locked ==
  /\ \A u \in lockedOut : status[u] = "blocked"
  /\ \A r \in Requests : Opening(req[r]) => req[r].user \notin lockedOut
  /\ BlockedHasNoSession

\* A step that locks nobody out.
LEMMA LockedKept ==
  ASSUME Locked, records' \subseteq records, UNCHANGED owner,
         lockedOut' \subseteq lockedOut, \A u \in lockedOut' : status'[u] = status[u],
         NEW r \in Requests, NEW q, Becomes(r, q), ~Opening(q)
  PROVE  Locked'
  BY DEF Locked, BlockedHasNoSession, Becomes, Opening

\* A block that was answered stays complete.
LEMMA LockedNext == ASSUME IInv, Swept, Locked, Apart, [Next]_vars PROVE Locked'
  <1>1. CASE Soft
    <2>1. /\ \A u \in lockedOut' : status'[u] = "blocked"
          /\ BlockedHasNoSession'
      BY <1>1 DEF Soft, Settled, Locked, BlockedHasNoSession
    <2>2. ASSUME NEW r \in Requests, Opening(req'[r]) PROVE req'[r].user \notin lockedOut
      <3>1. CASE req'[r] = req[r]
        BY <2>2, <3>1 DEF Locked
      <3>2. CASE Turn(req[r], req'[r])
        <4>1. CASE req'[r].at = "deleting"
          <5>1. req'[r].token \in records /\ req'[r].user = owner[req'[r].token]
            BY <3>2, <4>1 DEF Turn, Aside
          <5> QED BY <5>1 DEF Locked, BlockedHasNoSession
        <4>2. CASE req[r].at = "checking"
          BY <2>2, <3>2, <4>2 DEF Turn, Aside, Opening, Same, Locked
        <4>3. CASE req'[r].at # "deleting" /\ req[r].at # "checking"
          <5>1. Opening(req[r]) /\ req'[r].user = req[r].user
            BY <2>2, <3>2, <4>3 DEF Turn, Aside, Opening, Same
          <5> QED BY <5>1 DEF Locked
        <4> QED BY <4>1, <4>2, <4>3
      <3> QED BY <1>1, <3>1, <3>2 DEF Soft
    <2> QED BY <1>1, <2>1, <2>2 DEF Locked, Soft, Settled, Opening
  <1>2. ASSUME NEW r \in Requests, Mint(r) PROVE Locked'
    <2>1. PICK t \in Tokens, q \in Request :
           /\ Becomes(r, q) /\ q.at = "answered" /\ Opening(req[r])
           /\ Fresh(t) /\ records' = records \cup {t}
           /\ owner' = [owner EXCEPT ![t] = req[r].user]
           /\ UNCHANGED <<status, lockedOut>>
      BY <1>2, MintEffect
    <2>2. req[r].user \notin lockedOut
      BY <2>1 DEF Locked
    <2>3. owner'[t] = req[r].user /\ \A x \in Tokens : x # t => owner'[x] = owner[x]
      BY <2>1 DEF IInv, TypeOK
    <2>4. \A x \in records : x \in Tokens
      BY OwnerKnown
    <2>5. BlockedHasNoSession'
      BY <2>1, <2>2, <2>3, <2>4 DEF Locked, BlockedHasNoSession
    <2> QED BY <2>1, <2>5 DEF Locked, Becomes, Opening
  <1>3. ASSUME NEW r \in Requests, RetireToken(r), ~Soft PROVE Locked'
    <2>1. PICK q : /\ Becomes(r, q) /\ q.at = "answered"
                   /\ UNCHANGED <<records, owner, status, lockedOut>>
      BY <1>3, RetireEffect
    <2> QED BY <2>1, LockedKept DEF Opening
  <1>4. ASSUME NEW r \in Requests, StorePassword(r) PROVE Locked'
    <2>1. PICK q : /\ Becomes(r, q) /\ q.at = "listing"
                   /\ UNCHANGED <<records, owner, status, lockedOut>>
      BY <1>4, StoreEffect
    <2> QED BY <2>1, LockedKept DEF Opening
  <1>5. ASSUME NEW r \in Requests, ApplyStatus(r), ~Soft PROVE Locked'
    <2>1. PICK q : /\ Becomes(r, q) /\ q.at \in {"listing", "reloading"}
                   /\ status' = [status EXCEPT ![req[r].user] = req[r].status]
                   /\ lockedOut' = lockedOut \ {req[r].user}
                   /\ UNCHANGED <<records, owner>>
      BY <1>5, ApplyEffect
    <2>2. \A u \in lockedOut' : u \in Users /\ u # req[r].user
      BY <2>1 DEF IInv, TypeOK
    <2>3. \A u \in lockedOut' : status'[u] = status[u]
      BY <2>1, <2>2 DEF IInv, TypeOK
    <2> QED BY <2>1, <2>3, LockedKept DEF Opening
  <1>6. ASSUME NEW r \in Requests, Reload(r) PROVE Locked'
    <2>1. PICK q :
           /\ Becomes(r, q) /\ q.at = "answered" /\ req[r].at = "reloading"
           /\ lockedOut' =
                IF req[r].status = "blocked" /\ status[req[r].user] = "blocked"
                THEN lockedOut \cup {req[r].user} ELSE lockedOut
           /\ UNCHANGED <<records, owner, status>>
      BY <1>6, ReloadEffect
    <2>2. CASE ~(req[r].status = "blocked" /\ status[req[r].user] = "blocked")
      BY <2>1, <2>2, LockedKept DEF Opening
    <2>3. CASE req[r].status = "blocked" /\ status[req[r].user] = "blocked"
      <3>1. lockedOut' = lockedOut \cup {req[r].user}
        BY <2>1, <2>3
      <3>2. \A s \in Requests : s # r /\ Opening(req[s]) => req[s].user # req[r].user
        BY <2>1 DEF Apart, Closing
      <3>3. \A t \in records : owner[t] # req[r].user
        BY <2>1, <2>3 DEF Swept
      <3>4. \A s \in Requests : Opening(req'[s]) => s # r /\ req'[s] = req[s]
        BY <2>1 DEF Becomes, Opening
      <3>5. \A s \in Requests : Opening(req'[s]) => req'[s].user \notin lockedOut'
        BY <3>1, <3>2, <3>4 DEF Locked
      <3>6. BlockedHasNoSession' /\ \A u \in lockedOut' : status'[u] = "blocked"
        BY <2>1, <2>3, <3>1, <3>3 DEF Locked, BlockedHasNoSession
      <3> QED BY <3>5, <3>6 DEF Locked, Opening
    <2> QED BY <2>2, <2>3
  <1>7. ASSUME NEW r \in Requests, WipeSessions(r) PROVE Locked'
    <2>1. PICK q :
           /\ Becomes(r, q) /\ q.at \in {"retiring", "reloading"}
           /\ (q.at = "retiring" => q.kind = "password")
           /\ records' = records \ req[r].keys
           /\ UNCHANGED <<owner, status, lockedOut>>
      BY <1>7, WipeEffect
    <2> QED BY <2>1, LockedKept DEF Opening
  <1> QED BY <1>1, <1>2, <1>3, <1>4, <1>5, <1>6, <1>7, Steps

LEMMA InitLocked == Init => Swept /\ Locked
  <1> SUFFICES ASSUME Init PROVE Swept /\ Locked
    OBVIOUS
  <1>1. \A r \in Requests : req[r].at = "answered"
    BY DEF Init, NoRequest
  <1> QED BY <1>1 DEF Init, Swept, Locked, BlockedHasNoSession, Opening

\* An account an operator was told is blocked has no refresh record left, and
\* gets none while it stays blocked, whatever failed, crashed or was retried:
\* as long as no session of it is opened by a request that looked at the
\* account, or at the record, before the block and answers after the sweep.
THEOREM BlockEndsSessions == Spec /\ []Apart => []BlockedHasNoSession
  <1>1. Init => IInv /\ Swept /\ Locked
    BY InitIInv, InitLocked
  <1>2. /\ IInv /\ Swept /\ Locked /\ Apart /\ [Next]_vars
        => (IInv /\ Swept /\ Locked)'
    BY NextIInv, SweptNext, LockedNext
  <1>3. IInv /\ Swept /\ Locked => BlockedHasNoSession
    BY DEF Locked
  <1> QED BY <1>1, <1>2, <1>3, PTL DEF Spec

-----------------------------------------------------------------------------
(* A new password                                                          *)

\* What is known of the password a request goes by.
VersionOK(q) ==
  /\ Opening(q) => q.version >= ended[q.user]
  /\ q.at = "storing" => q.version = password[q.user]
  /\ q.at \in {"listing", "reading", "wiping", "retiring"} /\ q.kind = "password" =>
       q.version + 1 <= password[q.user]

\* No session is left from before the last password whose change was answered.
PasswordsInv ==
  /\ \A u \in Users : ended[u] <= password[u]
  /\ \A r \in Requests : VersionOK(req[r])
  /\ PasswordChangeEndsSessions

\* Versions are numbers.
LEMMA Numbers ==
  ASSUME IInv
  PROVE  /\ \A u \in Users : ended[u] \in Nat /\ password[u] \in Nat
         /\ \A t \in Tokens : cred[t] \in Nat
         /\ \A r \in Requests : req[r].version \in Nat
  BY DEF IInv, TypeOK, Request

\* A step that changes no password and promises nothing new.
LEMMA PasswordsKept ==
  ASSUME PasswordsInv, records' \subseteq records,
         UNCHANGED <<owner, cred, password, ended>>,
         NEW r \in Requests, NEW q, Becomes(r, q), VersionOK(q)
  PROVE  PasswordsInv'
  BY DEF PasswordsInv, PasswordChangeEndsSessions, VersionOK, Opening, Becomes

\* Steps that only end sessions keep those there are current.
LEMMA PasswordsSoft == ASSUME IInv, PasswordsInv, Soft PROVE PasswordsInv'
  <1>1. UNCHANGED <<owner, cred, password, ended>> /\ records' \subseteq records
    BY DEF Soft, Settled
  <1>2. ASSUME NEW r \in Requests, Turn(req[r], req'[r]) PROVE VersionOK(req'[r])
    <2>1. /\ VersionOK(req[r]) /\ FlightOK(req[r])
      BY Known DEF PasswordsInv
    <2>2. CASE req'[r].at = "deleting"
      <3>1. PICK t \in records : t = req'[r].token /\ req'[r].user = owner[t]
                                 /\ req'[r].version = cred[t]
        BY <1>2, <2>2 DEF Turn, Aside
      <3>2. cred[t] >= ended[owner[t]]
        BY DEF PasswordsInv, PasswordChangeEndsSessions
      <3> QED BY <2>2, <3>1, <3>2 DEF VersionOK
    <2>3. CASE req[r].at = "checking" /\ req'[r].at = "minting"
      <3>1. req'[r].version = password[req'[r].user] /\ req'[r].user \in Users
        BY <1>2, <2>1, <2>3 DEF Turn, Aside, Same, FlightOK
      <3>2. ended[req'[r].user] \in Nat /\ password[req'[r].user] \in Nat
            /\ ended[req'[r].user] <= password[req'[r].user]
        BY <3>1, Numbers DEF PasswordsInv
      <3> QED BY <2>3, <3>1, <3>2 DEF VersionOK
    <2>4. CASE /\ req'[r].at # "deleting"
               /\ ~(req[r].at = "checking" /\ req'[r].at = "minting")
      BY <1>2, <2>1, <2>4 DEF VersionOK, Turn, Aside, Same, Opening
    <2> QED BY <2>2, <2>3, <2>4
  <1>3. \A r \in Requests : VersionOK(req'[r])
    BY <1>2 DEF Soft, PasswordsInv
  <1> QED BY <1>1, <1>3 DEF PasswordsInv, PasswordChangeEndsSessions, VersionOK, Opening

\* A session opened now is of a version that is still good.
LEMMA PasswordsMint ==
  ASSUME IInv, PasswordsInv, NEW r \in Requests, Mint(r) PROVE PasswordsInv'
  <1>1. PICK t \in Tokens, q \in Request :
         /\ Becomes(r, q) /\ q.at = "answered" /\ Opening(req[r])
         /\ records' = records \cup {t}
         /\ owner' = [owner EXCEPT ![t] = req[r].user]
         /\ cred' = [cred EXCEPT ![t] = req[r].version]
         /\ UNCHANGED <<password, ended>>
    BY MintEffect
  <1>2. /\ owner'[t] = req[r].user /\ cred'[t] = req[r].version
        /\ \A x \in Tokens : x # t => owner'[x] = owner[x] /\ cred'[x] = cred[x]
    BY <1>1 DEF IInv, TypeOK
  <1>3. req[r].version >= ended[req[r].user]
    BY <1>1 DEF PasswordsInv, VersionOK
  <1>4. \A x \in records : x \in Tokens
    BY OwnerKnown
  <1>5. \A x \in records' : cred'[x] >= ended'[owner'[x]]
    BY <1>1, <1>2, <1>3, <1>4 DEF PasswordsInv, PasswordChangeEndsSessions
  <1>6. \A s \in Requests : VersionOK(req'[s])
    BY <1>1 DEF PasswordsInv, VersionOK, Becomes, Opening
  <1> QED BY <1>1, <1>5, <1>6
         DEF PasswordsInv, PasswordChangeEndsSessions, VersionOK, Opening

\* A password change is answered: its sweep left no record behind, and nobody
\* is about to write one.
LEMMA PasswordsRetire ==
  ASSUME IInv, Swept, PasswordsInv, Apart, NEW r \in Requests, RetireToken(r), ~Soft
  PROVE  PasswordsInv'
  <1>1. PICK q :
         /\ Becomes(r, q) /\ q.at = "answered"
         /\ req[r].at = "retiring" /\ req[r].kind = "password"
         /\ ended' = [ended EXCEPT ![req[r].user] =
              IF @ < req[r].version + 1 THEN req[r].version + 1 ELSE @]
         /\ UNCHANGED <<records, owner, cred, password>>
    BY RetireEffect
  <1>2. PICK u \in Users : u = req[r].user
    BY <1>1, Known DEF Closing
  <1>3. /\ ended'[u] = IF ended[u] < req[r].version + 1 THEN req[r].version + 1 ELSE ended[u]
        /\ \A v \in Users : v # u => ended'[v] = ended[v]
    BY <1>1, <1>2 DEF IInv, TypeOK
  <1>4. req[r].version + 1 <= password[u]
    BY <1>1, <1>2 DEF PasswordsInv, VersionOK
  <1>5. \A v \in Users : ended'[v] <= password'[v]
    BY <1>1, <1>3, <1>4 DEF PasswordsInv
  <1>6. \A t \in records : owner[t] \in Users /\ owner[t] # u
    BY <1>1, <1>2, OwnerKnown DEF Swept
  <1>7. \A t \in records' : cred'[t] >= ended'[owner'[t]]
    BY <1>1, <1>3, <1>6 DEF PasswordsInv, PasswordChangeEndsSessions
  <1>8. ASSUME NEW s \in Requests PROVE VersionOK(req[s])'
    <2>1. CASE s = r
      BY <1>1, <2>1 DEF Becomes, VersionOK, Opening
    <2>2. CASE s # r
      <3>1. req'[s] = req[s] /\ VersionOK(req[s])
        BY <1>1, <2>2 DEF Becomes, PasswordsInv
      <3>2. Opening(req[s]) => req[s].user \in Users /\ req[s].user # u
        BY <1>1, <1>2, <2>2, Known DEF Apart, Closing
      <3> QED BY <1>1, <1>3, <3>1, <3>2 DEF VersionOK, Opening
    <2> QED BY <2>1, <2>2
  <1> QED BY <1>5, <1>7, <1>8 DEF PasswordsInv, PasswordChangeEndsSessions

\* A stored password is one version further, and ends nothing yet.
LEMMA PasswordsStore ==
  ASSUME IInv, PasswordsInv, OnePassword, NEW r \in Requests, StorePassword(r)
  PROVE  PasswordsInv'
  <1>1. PICK q :
         /\ Becomes(r, q) /\ req[r].at = "storing" /\ q.at = "listing" /\ Same(req[r], q)
         /\ password' = [password EXCEPT ![req[r].user] = req[r].version + 1]
         /\ UNCHANGED <<records, owner, cred, ended>>
    BY StoreEffect
  <1>2. PICK u \in Users : u = req[r].user
    BY <1>1, Known
  <1>3. req[r].version = password[u] /\ password[u] \in Nat
    BY <1>1, <1>2, Numbers DEF PasswordsInv, VersionOK
  <1>4. /\ password'[u] = password[u] + 1
        /\ \A v \in Users : v # u => password'[v] = password[v]
    BY <1>1, <1>2, <1>3 DEF IInv, TypeOK
  <1>5. \A v \in Users : ended'[v] <= password'[v]
    BY <1>1, <1>3, <1>4, Numbers DEF PasswordsInv
  <1>6. PasswordChangeEndsSessions'
    BY <1>1 DEF PasswordsInv, PasswordChangeEndsSessions
  <1>7. ASSUME NEW s \in Requests PROVE VersionOK(req[s])'
    <2>1. CASE s = r
      BY <1>1, <1>2, <1>3, <1>4, <2>1, Numbers DEF Becomes, VersionOK, Opening, Same
    <2>2. CASE s # r
      <3>1. /\ req'[s] = req[s] /\ VersionOK(req[s]) /\ req[s].version \in Nat
        BY <1>1, <2>2, Numbers DEF Becomes, PasswordsInv
      <3>2. req[s].at = "storing" => req[s].user # u /\ req[s].user \in Users
        BY <1>1, <1>2, <2>2, Known DEF OnePassword
      <3>3. CASE req[s].user \in Users
        <4>1. password'[req[s].user] >= password[req[s].user]
              /\ password[req[s].user] \in Nat
          BY <1>3, <1>4, <3>3, Numbers
        <4>2. password'[req[s].user] \in Nat
          BY <1>3, <1>4, <3>3, Numbers
        <4> QED BY <1>1, <1>4, <3>1, <3>2, <4>1, <4>2 DEF VersionOK, Opening
      <3>4. CASE req[s].user \notin Users
        <4>1. req[s].at \in {"answered", "getting"}
          BY <3>4, Known DEF FlightOK
        <4> QED BY <3>1, <4>1 DEF VersionOK, Opening
      <3> QED BY <3>3, <3>4
    <2> QED BY <2>1, <2>2
  <1> QED BY <1>5, <1>6, <1>7 DEF PasswordsInv

\* An answered change leaves no session of an older version.
LEMMA PasswordsNext ==
  ASSUME IInv, Swept, PasswordsInv, Apart, OnePassword, [Next]_vars PROVE PasswordsInv'
  <1>1. ASSUME NEW r \in Requests, ApplyStatus(r), ~Soft PROVE PasswordsInv'
    <2>1. PICK q : /\ Becomes(r, q) /\ q.at \in {"listing", "reloading"} /\ q.kind = "status"
                   /\ UNCHANGED <<records, owner, cred, password, ended>>
      BY <1>1, ApplyEffect
    <2>2. VersionOK(q)
      BY <2>1 DEF VersionOK, Opening
    <2> QED BY <2>1, <2>2, PasswordsKept
  <1>2. ASSUME NEW r \in Requests, Reload(r) PROVE PasswordsInv'
    <2>1. PICK q : /\ Becomes(r, q) /\ q.at = "answered"
                   /\ UNCHANGED <<records, owner, cred, password, ended>>
      BY <1>2, ReloadEffect
    <2>2. VersionOK(q)
      BY <2>1 DEF VersionOK, Opening
    <2> QED BY <2>1, <2>2, PasswordsKept
  <1>3. ASSUME NEW r \in Requests, WipeSessions(r) PROVE PasswordsInv'
    <2>1. PICK q : /\ Becomes(r, q) /\ req[r].at = "wiping"
                   /\ q.at \in {"retiring", "reloading"} /\ Same(req[r], q)
                   /\ (q.at = "retiring" => q.kind = "password")
                   /\ records' = records \ req[r].keys
                   /\ UNCHANGED <<owner, cred, password, ended>>
      BY <1>3, WipeEffect
    <2>2. VersionOK(req[r])
      BY DEF PasswordsInv
    <2>3. VersionOK(q)
      BY <2>1, <2>2 DEF VersionOK, Opening, Same
    <2> QED BY <2>1, <2>3, PasswordsKept
  <1> QED BY <1>1, <1>2, <1>3, PasswordsSoft, PasswordsMint, PasswordsRetire,
             PasswordsStore, Steps

LEMMA InitPasswords == Init => PasswordsInv
  <1> SUFFICES ASSUME Init PROVE PasswordsInv
    OBVIOUS
  <1>1. \A r \in Requests : req[r].at = "answered"
    BY DEF Init, NoRequest
  <1> QED BY <1>1 DEF Init, PasswordsInv, PasswordChangeEndsSessions, VersionOK, Opening

\* After a password change that answered 200 no session opened with an older
\* password is left, however many changes follow and whatever fails between
\* their steps: as long as no session of the account is opened during the
\* sweep, and no two changes have both compared the old password.
THEOREM PasswordChangeEnds ==
  Spec /\ []Apart /\ []OnePassword => []PasswordChangeEndsSessions
  <1>1. Init => IInv /\ Swept /\ PasswordsInv
    BY InitIInv, InitLocked, InitPasswords
  <1>2. /\ IInv /\ Swept /\ PasswordsInv /\ Apart /\ OnePassword /\ [Next]_vars
        => (IInv /\ Swept /\ PasswordsInv)'
    BY NextIInv, SweptNext, PasswordsNext
  <1>3. IInv /\ Swept /\ PasswordsInv => PasswordChangeEndsSessions
    BY DEF PasswordsInv
  <1> QED BY <1>1, <1>2, <1>3, PTL DEF Spec

\* One request at a time: nothing overlaps, and all three hold with no condition
\* on the behaviour, whatever fails, crashes or expires between two requests.
THEOREM OneAtATime ==
  ASSUME \A r, s \in Requests : r = s
  PROVE  Spec => [](RefreshIsSingleUse /\ BlockedHasNoSession /\ PasswordChangeEndsSessions)
  <1>1. OneRefresh /\ Apart /\ OnePassword
    BY DEF OneRefresh, Apart, OnePassword
  <1> QED BY <1>1, RefreshedOnce, BlockEndsSessions, PasswordChangeEnds, PTL
=============================================================================
