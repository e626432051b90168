---------------------------- MODULE SignIn_proofs ----------------------------
(***************************************************************************)
(* Proofs about SignIn for any number of requests, numbers, addresses and  *)
(* providers' subjects: what becomes of a code, and whose account a key    *)
(* opens.  The invariant has two halves that share only the requests: a    *)
(* step at the codes leaves the accounts alone, and the other way round.   *)
(***************************************************************************)
EXTENDS SignIn, TLAPS

\* What a request carries at each stage.
StageInv(r) ==
  LET q == req[r] IN
  /\ q.at \notin {"idle", "answered"} => q.kind \in AllKinds /\ q.key \in Via(q.kind)
  /\ q.at \in {"cooling", "storing", "sending"} => q.kind = "start"
  /\ q.at \in {"reading", "counting", "judging", "burning"} => q.kind = "verify" /\ q.guess \in Codes
  /\ q.at \in {"identity", "loading", "contact"} => q.kind \in {"verify", "social"}
  /\ q.at = "checking" => q.kind = "register"
  /\ q.at \in {"creating", "linking"} => q.kind \in {"verify", "social", "register"}
  /\ q.at = "marking" => q.kind = "social"
  /\ q.at \in {"allowing", "finding", "resetting"} => q.kind = "login"
  /\ q.at = "entering" => q.kind \in {"verify", "social", "login"}
  /\ q.at \in {"loading", "linking", "marking", "resetting", "entering"} => q.acct \in Accounts

\* Until a request stores its code, nobody has seen that code.
Fresh(r) ==
  req[r].at \in {"idle", "cooling", "storing"} =>
    /\ guesses[r] = 0 /\ spends[r] = 0
    /\ \A p \in Phones : otp[p].code # r
    /\ \A o \in Requests : ~Checking(o, r)

\* A code is at one number, and whoever checks it reads it there.
OnePlace ==
  /\ \A p, q \in Phones : otp[p].code = otp[q].code /\ otp[p].code # None => p = q
  /\ \A r \in Requests, p \in Phones : req[r].seen # None /\ Checking(r, otp[p].code) => p = Of(r)

\* Each guess was counted beside the code it was compared with.
Counting == \A p \in Phones : otp[p].code # None => guesses[otp[p].code] <= otp[p].attempts

\* A code that was never crowded has one checker at most, and once it is
\* spent it is nowhere.
Spending ==
  \A c \in Codes \ crowded :
    /\ \A r, o \in Requests : Checking(r, c) /\ Checking(o, c) => r = o
    /\ spends[c] # 0 => /\ \A p \in Phones : otp[p].code # c
                        /\ \A r \in Requests : ~Checking(r, c)

CodeHalf ==
  /\ \A r \in Requests : Fresh(r)
  /\ OnePlace /\ Counting /\ Spending
  /\ CodeSpentOnce /\ GuessesBounded /\ NoImmortalCode

\* The accounts that have been created.
Made(a) == a \in proven \cup {Office}

\* Until a request creates its account, the row is not there.
Uncreated(r) ==
  /\ req[r].at \notin {"linking", "marking", "entering", "answered"} => r \notin proven
  /\ r \notin proven => users[r] = NoRow

\* Whom a request is about to let in owns the key, and an unvouched address
\* reaches an account of its own only.
OwnerInv(r) ==
  LET q == req[r] IN
  /\ q.at \in {"linking", "marking"} => Made(q.acct)
  /\ q.at \in {"loading", "marking"} => identities[q.key] = q.acct
  /\ q.at = "entering" /\ q.kind # "login" => identities[q.key] = q.acct
  /\ q.at \in {"resetting", "entering"} /\ q.kind = "login" =>
       users[q.acct].password /\ users[q.acct].email = Of(r)
  /\ q.at = "linking" /\ q.kind = "social" /\ Of(r) \notin Vouched =>
       q.acct = r /\ r \in proven /\ ~users[r].password /\ users[r].phone = None

EmailsUnique ==
  \A a, b \in Accounts : a # b /\ users[a].email # None => users[a].email # users[b].email

AccountHalf ==
  /\ \A r \in Requests : Uncreated(r) /\ OwnerInv(r)
  /\ EmailsUnique
  /\ LinkingNeedsProof

SInv ==
  /\ TypeOK
  /\ \A r \in Requests : StageInv(r)
  /\ CodeHalf
  /\ AccountHalf

-----------------------------------------------------------------------------
(* Names, and the shapes a step gives a request                            *)

LEMMA Names ==
  /\ None \notin Codes /\ None \notin Accounts /\ Office \notin Requests
  /\ Phones \cap Requests = {} /\ Requests \subseteq Accounts /\ Requests \subseteq Codes
  /\ Accounts = Requests \cup {Office}
  /\ \A k \in AllKinds : Via(k) \subseteq Keys
  /\ \A k \in {"start", "verify"} : \A x \in Via(k) : x[1] = "phone" /\ x[2] \in Phones
  /\ \A x \in Via("social") : x[1] = "social" /\ x[2] \in Subjects
  /\ \A k \in {"register", "login"} : \A x \in Via(k) : x[1] = "password" /\ x[2] \in Emails
  /\ \A k \in AllKinds : Start(k) \in {"cooling", "reading", "identity", "checking", "allowing"}
  BY SignInConfig DEF Codes, Accounts, None, Office, AllKinds, Via, Keys, Start

LEMMA Fields ==
  ASSUME TypeOK, NEW r \in Requests
  PROVE  /\ req \in [Requests -> Request] /\ req[r] \in Request
         /\ req[r].at \in Stage /\ req[r].kind \in AllKinds \cup {None}
         /\ req[r].key \in Keys \cup {<<None, None>>}
         /\ req[r].guess \in Codes \cup {"right", None} /\ req[r].seen \in Codes \cup {None}
         /\ req[r].acct \in Accounts \cup {None} /\ req[r].active \in BOOLEAN
  BY DEF TypeOK, Request

LEMMA GotoFrame ==
  ASSUME TypeOK, NEW r \in Requests, NEW s \in Stage, Goto(r, s)
  PROVE  /\ req' \in [Requests -> Request]
         /\ \A o \in Requests \ {r} : req'[o] = req[o]
         /\ req'[r].at = s /\ req'[r].kind = req[r].kind /\ req'[r].key = req[r].key
         /\ req'[r].guess = req[r].guess /\ req'[r].seen = req[r].seen
         /\ req'[r].acct = req[r].acct /\ req'[r].active = req[r].active
  <1>1. req' = [req EXCEPT ![r] = [req[r] EXCEPT !.at = s]]
    BY DEF Goto
  <1>2. req[r] \in Request /\ req \in [Requests -> Request]
    BY Fields
  <1>3. [req[r] EXCEPT !.at = s] \in Request
    BY <1>2 DEF Request
  <1> QED
    BY <1>1, <1>2, <1>3 DEF Request

LEMMA ReplyFrame ==
  ASSUME TypeOK, NEW r \in Requests, NEW a \in {"ok", "refused", "failed"}, Reply(r, a)
  PROVE  /\ req' \in [Requests -> Request]
         /\ \A o \in Requests \ {r} : req'[o] = req[o]
         /\ req'[r].at = "answered"
  <1> DEFINE over == [at |-> "answered", kind |-> None, key |-> <<None, None>>, guess |-> None,
                      seen |-> None, acct |-> None, active |-> FALSE, answer |-> a]
  <1>1. req' = [req EXCEPT ![r] = over] /\ over.at = "answered"
    BY DEF Reply
  <1>2. over \in Request
    BY DEF Request, Stage
  <1> HIDE DEF over
  <1> QED
    BY <1>1, <1>2, Fields

LEMMA HoldingFrame ==
  ASSUME TypeOK, NEW r \in Requests, NEW s \in Stage, NEW a \in Accounts, Holding(r, a, s)
  PROVE  /\ req' \in [Requests -> Request]
         /\ \A o \in Requests \ {r} : req'[o] = req[o]
         /\ req'[r].at = s /\ req'[r].kind = req[r].kind /\ req'[r].key = req[r].key
         /\ req'[r].guess = req[r].guess /\ req'[r].seen = req[r].seen /\ req'[r].acct = a
  <1> DEFINE now == [req[r] EXCEPT !.at = s, !.acct = a, !.active = users[a].active]
  <1>1. req' = [req EXCEPT ![r] = now]
    BY DEF Holding
  <1>2. req[r] \in Request /\ req \in [Requests -> Request]
    BY Fields
  <1>3. users[a].active \in BOOLEAN
    <2>1. users[a] \in Row \cup {NoRow}
      BY DEF TypeOK
    <2>2. CASE users[a] \in Row
      BY <2>2 DEF Row
    <2>3. CASE users[a] = NoRow
      BY <2>3 DEF NoRow
    <2> QED
      BY <2>1, <2>2, <2>3
  <1>4. now \in Request
    BY <1>2, <1>3 DEF Request
  <1>5. /\ now.at = s /\ now.kind = req[r].kind /\ now.key = req[r].key /\ now.guess = req[r].guess
        /\ now.seen = req[r].seen /\ now.acct = a
    BY <1>2 DEF Request
  <1> HIDE DEF now
  <1> QED
    BY <1>1, <1>2, <1>4, <1>5

-----------------------------------------------------------------------------
(* Steps that leave one half alone                                         *)

\* A request that is still checking what it checked, or is past it, and that
\* was not yet to store its code, or is no longer.
LEMMA CodesUntouched ==
  ASSUME CodeHalf, NEW r \in Requests, UNCHANGED <<otp, spends, guesses, crowded>>,
         \A o \in Requests \ {r} : req'[o] = req[o],
         req'[r].at \in {"counting", "judging"} =>
           /\ req[r].at \in {"counting", "judging"}
           /\ req'[r].seen = req[r].seen /\ req'[r].key = req[r].key,
         req'[r].at \in {"idle", "cooling", "storing"} => req[r].at \in {"idle", "cooling", "storing"}
  PROVE  CodeHalf'
  <1>1. \A o \in Requests : \A c : Checking(o, c)' => Checking(o, c) /\ req'[o].key = req[o].key /\ req'[o].seen = req[o].seen
    BY DEF Checking
  <1>2. \A o \in Requests : Fresh(o)'
    <2> SUFFICES ASSUME NEW o \in Requests, req'[o].at \in {"idle", "cooling", "storing"}
                 PROVE  /\ guesses[o] = 0 /\ spends[o] = 0
                        /\ \A p \in Phones : otp[p].code # o
                        /\ \A x \in Requests : ~Checking(x, o)'
      BY DEF Fresh
    <2>1. req[o].at \in {"idle", "cooling", "storing"}
      BY DEF CodeHalf
    <2> QED
      BY <1>1, <2>1 DEF CodeHalf, Fresh
  <1>3. OnePlace'
    BY <1>1 DEF CodeHalf, OnePlace, Of
  <1>4. Counting'
    BY DEF CodeHalf, Counting
  <1>5. Spending'
    BY <1>1 DEF CodeHalf, Spending
  <1> QED
    BY <1>2, <1>3, <1>4, <1>5 DEF CodeHalf, CodeSpentOnce, GuessesBounded, NoImmortalCode

LEMMA AccountsUntouched ==
  ASSUME AccountHalf, NEW r \in Requests, UNCHANGED <<users, identities, proven>>,
         \A o \in Requests \ {r} : req'[o] = req[o],
         OwnerInv(r)',
         req'[r].at \notin {"linking", "marking", "entering", "answered"} =>
           req[r].at \notin {"linking", "marking", "entering", "answered"}
  PROVE  AccountHalf'
  <1>1. \A o \in Requests : OwnerInv(o)'
    <2> SUFFICES ASSUME NEW o \in Requests, o # r PROVE OwnerInv(o)'
      OBVIOUS
    <2> QED
      BY DEF AccountHalf, OwnerInv, Made, Of
  <1>2. \A o \in Requests : Uncreated(o)'
    BY DEF AccountHalf, Uncreated
  <1> QED
    BY <1>1, <1>2 DEF AccountHalf, EmailsUnique, LinkingNeedsProof

LEMMA StagesKept ==
  ASSUME \A o \in Requests : StageInv(o), NEW r \in Requests,
         \A o \in Requests \ {r} : req'[o] = req[o], StageInv(r)'
  PROVE  \A o \in Requests : StageInv(o)'
  BY DEF StageInv

\* A step of one request that changes no code and no account.
LEMMA Quiet ==
  ASSUME SInv, NEW r \in Requests,
         UNCHANGED <<users, identities, otp, spends, guesses, crowded, proven>>,
         cooldown' \in [Phones -> BOOLEAN], failures' \in [Emails -> Nat],
         entered' \subseteq Keys \X Accounts,
         req' \in [Requests -> Request], \A o \in Requests \ {r} : req'[o] = req[o],
         req'[r].at \notin {"idle", "cooling", "counting", "judging"},
         req'[r].at = "storing" => req[r].at = "cooling",
         req'[r].at \notin {"linking", "marking", "entering", "answered"} =>
           req[r].at \notin {"linking", "marking", "entering", "answered"},
         StageInv(r)', OwnerInv(r)'
  PROVE  SInv'
  <1>1. TypeOK'
    BY DEF SInv, TypeOK
  <1>2. CodeHalf'
    BY CodesUntouched DEF SInv
  <1>3. AccountHalf'
    BY AccountsUntouched DEF SInv
  <1> QED
    BY <1>1, <1>2, <1>3, StagesKept DEF SInv

LEMMA Answered ==
  ASSUME SInv, NEW r \in Requests, NEW a \in {"ok", "refused", "failed"}, Reply(r, a),
         UNCHANGED <<accounts, redis, spends, guesses, crowded, proven>>,
         entered' \subseteq Keys \X Accounts
  PROVE  SInv'
  <1>1. /\ req' \in [Requests -> Request] /\ \A o \in Requests \ {r} : req'[o] = req[o]
        /\ req'[r].at = "answered"
    BY ReplyFrame DEF SInv
  <1>2. StageInv(r)' /\ OwnerInv(r)'
    BY <1>1 DEF StageInv, OwnerInv
  <1>3. cooldown' \in [Phones -> BOOLEAN] /\ failures' \in [Emails -> Nat]
    BY DEF SInv, TypeOK, redis
  <1> QED
    BY <1>1, <1>2, <1>3, Quiet DEF accounts, redis

\* A step that only moves the request on.
LEMMA MovesOn ==
  ASSUME SInv, NEW r \in Requests, NEW s \in Stage, Goto(r, s),
         req[r].at \notin {"idle", "answered", "linking", "marking", "entering"},
         s \notin {"idle", "cooling", "counting", "judging"},
         s = "storing" => req[r].at = "cooling",
         UNCHANGED <<users, identities, otp, spends, guesses, crowded, proven, entered>>,
         cooldown' \in [Phones -> BOOLEAN], failures' \in [Emails -> Nat],
         StageInv(r)', OwnerInv(r)'
  PROVE  SInv'
  <1>1. /\ req' \in [Requests -> Request] /\ \A o \in Requests \ {r} : req'[o] = req[o]
        /\ req'[r].at = s
    BY GotoFrame DEF SInv
  <1>2. entered' \subseteq Keys \X Accounts
    BY DEF SInv, TypeOK
  <1> QED
    BY <1>1, <1>2, Quiet

LEMMA Kept ==
  ASSUME SInv
  PROVE  /\ cooldown \in [Phones -> BOOLEAN] /\ failures \in [Emails -> Nat]
         /\ entered \subseteq Keys \X Accounts
  BY DEF SInv, TypeOK

LEMMA ArriveKeeps == ASSUME SInv, NEW r \in Requests, Arrive(r) PROVE SInv'
  <1>1. PICK kind \in Kinds : \E key \in Via(kind), guess \in Proofs(kind) :
          req' = [req EXCEPT ![r] = [at |-> Start(kind), kind |-> kind, key |-> key, guess |-> guess,
                                     seen |-> None, acct |-> None, active |-> FALSE, answer |-> None]]
    BY DEF Arrive
  <1>0. PICK key \in Via(kind), guess \in Proofs(kind) :
          req' = [req EXCEPT ![r] = [at |-> Start(kind), kind |-> kind, key |-> key, guess |-> guess,
                                     seen |-> None, acct |-> None, active |-> FALSE, answer |-> None]]
    BY <1>1
  <1> DEFINE new == [at |-> Start(kind), kind |-> kind, key |-> key, guess |-> guess,
                     seen |-> None, acct |-> None, active |-> FALSE, answer |-> None]
  <1>2. kind \in AllKinds /\ key \in Keys
    BY Names, SignInConfig
  <1>3. Start(kind) \in Stage /\ guess \in Codes \cup {"right", None}
    BY <1>2 DEF AllKinds, Start, Stage, Proofs
  <1>4. new \in Request
    BY <1>2, <1>3 DEF Request
  <1>5. new.at = Start(kind) /\ new.kind = kind /\ new.key = key /\ new.guess = guess
    OBVIOUS
  <1> HIDE DEF new
  <1>6. /\ req' \in [Requests -> Request] /\ req'[r] = new
        /\ \A o \in Requests \ {r} : req'[o] = req[o]
    BY <1>0, <1>4, Fields DEF SInv, new
  <1>7. /\ Start(kind) \in {"cooling", "reading", "identity", "checking", "allowing"}
        /\ Start(kind) = "cooling" => kind = "start"
        /\ Start(kind) = "reading" => kind = "verify" /\ guess \in Codes
        /\ Start(kind) = "identity" => kind = "social"
        /\ Start(kind) = "checking" => kind = "register"
        /\ Start(kind) = "allowing" => kind = "login"
    BY <1>2 DEF AllKinds, Start, Proofs
  <1>8. StageInv(r)'
    BY <1>2, <1>5, <1>6, <1>7 DEF StageInv
  <1>9. OwnerInv(r)'
    BY <1>5, <1>6, <1>7 DEF OwnerInv
  <1>10. req[r].at = "idle" /\ UNCHANGED <<accounts, redis, history>>
    BY DEF Arrive, At
  <1>11. CodeHalf'
    BY <1>5, <1>6, <1>7, <1>10, CodesUntouched DEF SInv, redis, history
  <1>12. AccountHalf'
    BY <1>5, <1>6, <1>7, <1>9, <1>10, AccountsUntouched DEF SInv, accounts, history
  <1>13. TypeOK'
    BY <1>6, <1>10 DEF SInv, TypeOK, accounts, redis, history
  <1> QED
    BY <1>6, <1>8, <1>11, <1>12, <1>13, StagesKept DEF SInv

LEMMA CoolingKeeps == ASSUME SInv, NEW r \in Requests, CheckCooldown(r) PROVE SInv'
  <1>1. CASE Reply(r, "refused")
    BY <1>1, Answered, Kept DEF CheckCooldown, history
  <1>2. CASE Goto(r, "storing")
    <2>1. "storing" \in Stage
      BY DEF Stage
    <2>2. req[r].at = "cooling" /\ StageInv(r)
      BY DEF CheckCooldown, At, SInv
    <2>3. StageInv(r)' /\ OwnerInv(r)'
      BY <1>2, <2>1, <2>2, GotoFrame DEF SInv, StageInv, OwnerInv
    <2> QED
      BY <1>2, <2>1, <2>2, <2>3, MovesOn, Kept DEF CheckCooldown, accounts, redis, history
  <1> QED
    BY <1>1, <1>2 DEF CheckCooldown

LEMMA SendKeeps == ASSUME SInv, NEW r \in Requests, SendCode(r) PROVE SInv'
  BY Answered, Kept DEF SendCode, history

LEMMA MismatchKeeps == ASSUME SInv, NEW r \in Requests, Mismatch(r) PROVE SInv'
  BY Answered, Kept DEF Mismatch, history

LEMMA FailKeeps == ASSUME SInv, NEW r \in Requests, Fail(r) PROVE SInv'
  BY Answered, Kept DEF Fail, history

LEMMA FindIdentityKeeps == ASSUME SInv, NEW r \in Requests, FindIdentity(r) PROVE SInv'
  <1> DEFINE a == identities[req[r].key]
  <1>1. req[r].at = "identity" /\ StageInv(r) /\ UNCHANGED <<accounts, redis, history>>
    BY DEF FindIdentity, At, SInv
  <1>2. "contact" \in Stage /\ "loading" \in Stage
    BY DEF Stage
  <1>3. CASE a = None
    <2>1. Goto(r, "contact")
      BY <1>3 DEF FindIdentity
    <2>2. StageInv(r)' /\ OwnerInv(r)'
      BY <1>1, <1>2, <2>1, GotoFrame DEF SInv, StageInv, OwnerInv
    <2> QED
      BY <1>1, <1>2, <2>1, <2>2, MovesOn, Kept DEF accounts, redis, history
  <1>4. CASE a # None
    <2> DEFINE now == [req[r] EXCEPT !.at = "loading", !.acct = a]
    <2>1. req' = [req EXCEPT ![r] = now]
      BY <1>4 DEF FindIdentity
    <2>2. req[r] \in Request /\ req \in [Requests -> Request]
      BY Fields DEF SInv
    <2>3. req[r].key \in Keys
      BY <1>1, Names DEF StageInv
    <2>4. a \in Accounts
      BY <1>4, <2>3 DEF SInv, TypeOK
    <2>5. now \in Request
      BY <1>2, <2>2, <2>4 DEF Request
    <2>6. now.at = "loading" /\ now.kind = req[r].kind /\ now.key = req[r].key /\ now.acct = a
      BY <2>2 DEF Request
    <2> HIDE DEF now, a
    <2>7. /\ req' \in [Requests -> Request] /\ req'[r] = now
          /\ \A o \in Requests \ {r} : req'[o] = req[o]
      BY <2>1, <2>2, <2>5
    <2>8. StageInv(r)'
      BY <1>1, <2>4, <2>6, <2>7 DEF StageInv
    <2>9. OwnerInv(r)'
      BY <1>1, <2>6, <2>7 DEF OwnerInv, accounts, a
    <2> QED
      BY <1>1, <2>6, <2>7, <2>8, <2>9, Quiet, Kept DEF accounts, redis, history
  <1> QED
    BY <1>3, <1>4

LEMMA LoadKeeps == ASSUME SInv, NEW r \in Requests, LoadAccount(r) PROVE SInv'
  <1>1. req[r].at = "loading" /\ StageInv(r) /\ OwnerInv(r) /\ UNCHANGED <<accounts, redis, history>>
    BY DEF LoadAccount, At, SInv, AccountHalf
  <1>2. CASE Reply(r, "failed")
    BY <1>1, <1>2, Answered, Kept DEF history
  <1>3. CASE Holding(r, req[r].acct, "entering")
    <2>1. "entering" \in Stage /\ req[r].acct \in Accounts
      BY <1>1 DEF Stage, StageInv
    <2>2. /\ req' \in [Requests -> Request]
          /\ \A o \in Requests \ {r} : req'[o] = req[o]
          /\ req'[r].at = "entering" /\ req'[r].kind = req[r].kind /\ req'[r].key = req[r].key
          /\ req'[r].acct = req[r].acct
      BY <1>3, <2>1, HoldingFrame DEF SInv
    <2>3. StageInv(r)'
      BY <1>1, <2>1, <2>2 DEF StageInv
    <2>4. OwnerInv(r)'
      BY <1>1, <2>2 DEF OwnerInv, StageInv, accounts
    <2> QED
      BY <1>1, <2>2, <2>3, <2>4, Quiet, Kept DEF accounts, redis, history
  <1> QED
    BY <1>2, <1>3 DEF LoadAccount

\* An account a query finds has been created.
LEMMA FoundIsMade == ASSUME SInv, NEW a \in Accounts, Live(a) PROVE Made(a)
  BY Names DEF SInv, AccountHalf, Uncreated, Live, Exists, Made

\* Holding a found account, to link it: its address must have been vouched for.
LEMMA HoldToLink ==
  ASSUME SInv, NEW r \in Requests, NEW a \in Accounts, Live(a), Holding(r, a, "linking"),
         req[r].at = "contact", req[r].kind = "social" => Of(r) \in Vouched,
         UNCHANGED <<accounts, redis, history>>
  PROVE  SInv'
  <1>1. "linking" \in Stage /\ StageInv(r) /\ Made(a)
    BY FoundIsMade DEF Stage, SInv
  <1>2. /\ req' \in [Requests -> Request]
        /\ \A o \in Requests \ {r} : req'[o] = req[o]
        /\ req'[r].at = "linking" /\ req'[r].kind = req[r].kind /\ req'[r].key = req[r].key
        /\ req'[r].acct = a
    BY <1>1, HoldingFrame DEF SInv
  <1>3. StageInv(r)'
    BY <1>1, <1>2 DEF StageInv
  <1>4. OwnerInv(r)'
    BY <1>1, <1>2 DEF OwnerInv, Of, Made, history
  <1> QED
    BY <1>2, <1>3, <1>4, Quiet, Kept DEF accounts, redis, history

LEMMA GoCreating ==
  ASSUME SInv, NEW r \in Requests, Goto(r, "creating"), req[r].at \in {"contact", "checking"},
         UNCHANGED <<accounts, redis, history>>
  PROVE  SInv'
  <1>1. "creating" \in Stage /\ StageInv(r)
    BY DEF Stage, SInv
  <1>2. StageInv(r)' /\ OwnerInv(r)'
    BY <1>1, GotoFrame DEF SInv, StageInv, OwnerInv
  <1> QED
    BY <1>1, <1>2, MovesOn, Kept DEF accounts, redis, history

LEMMA ByPhoneKeeps == ASSUME SInv, NEW r \in Requests, FindByPhone(r) PROVE SInv'
  <1>1. req[r].at = "contact" /\ req[r].kind = "verify" /\ UNCHANGED <<accounts, redis, history>>
    BY DEF FindByPhone, At, Kind
  <1>2. CASE HasPhone(Of(r)) = {}
    BY <1>1, <1>2, GoCreating DEF FindByPhone
  <1>3. CASE HasPhone(Of(r)) # {}
    <2>1. PICK a \in HasPhone(Of(r)) : Holding(r, a, "linking")
      BY <1>3 DEF FindByPhone
    <2>2. a \in Accounts /\ Live(a)
      BY DEF HasPhone
    <2> QED
      BY <1>1, <2>1, <2>2, HoldToLink
  <1> QED
    BY <1>2, <1>3

LEMMA ByEmailKeeps == ASSUME SInv, NEW r \in Requests, FindByEmail(r) PROVE SInv'
  <1> DEFINE s == Of(r)
             found == IF Email[s] = None THEN {} ELSE HasEmail(Email[s])
  <1>1. req[r].at = "contact" /\ UNCHANGED <<accounts, redis, history>>
    BY DEF FindByEmail, At
  <1>2. CASE Goto(r, "creating")
    BY <1>1, <1>2, GoCreating
  <1>3. CASE Reply(r, "refused")
    BY <1>1, <1>3, Answered, Kept DEF history
  <1>4. CASE MayLink(s) /\ \E a \in found : Holding(r, a, "linking")
    <2>1. PICK a \in found : Holding(r, a, "linking")
      BY <1>4
    <2>2. a \in Accounts /\ Live(a)
      BY DEF HasEmail
    <2> QED
      BY <1>1, <1>4, <2>1, <2>2, HoldToLink DEF MayLink
  <1> QED
    BY <1>2, <1>3, <1>4 DEF FindByEmail

LEMMA EnterKeeps == ASSUME SInv, NEW r \in Requests, IssueSession(r) PROVE SInv'
  <1>1. req[r].at = "entering" /\ StageInv(r)
    BY DEF IssueSession, At, SInv
  <1>2. <<req[r].key, req[r].acct>> \in Keys \X Accounts
    BY <1>1, Names DEF StageInv
  <1>3. entered' \subseteq Keys \X Accounts
    BY <1>2, Kept DEF IssueSession
  <1>4. Reply(r, "ok") \/ Reply(r, "refused")
    BY DEF IssueSession
  <1> QED
    BY <1>3, <1>4, Answered DEF IssueSession

LEMMA AvailableKeeps == ASSUME SInv, NEW r \in Requests, CheckAvailable(r) PROVE SInv'
  <1>1. req[r].at = "checking" /\ UNCHANGED <<accounts, redis, history>>
    BY DEF CheckAvailable, At
  <1>2. CASE Goto(r, "creating")
    BY <1>1, <1>2, GoCreating
  <1>3. CASE Reply(r, "refused")
    BY <1>1, <1>3, Answered, Kept DEF history
  <1> QED
    BY <1>2, <1>3 DEF CheckAvailable

LEMMA AllowKeeps == ASSUME SInv, NEW r \in Requests, AllowLogin(r) PROVE SInv'
  <1>1. req[r].at = "allowing" /\ StageInv(r) /\ UNCHANGED <<accounts, otp, cooldown, history>>
    BY DEF AllowLogin, At, SInv
  <1>2. failures' \in [Emails -> Nat] /\ cooldown' \in [Phones -> BOOLEAN]
    <2>1. failures' = [failures EXCEPT ![Of(r)] = failures[Of(r)] + 1]
      BY DEF AllowLogin
    <2>2. Of(r) \in Emails
      BY <1>1, Names DEF StageInv, Of
    <2> QED
      BY <1>1, <2>1, <2>2, Kept
  <1>3. CASE Reply(r, "refused")
    <2>1. entered' \subseteq Keys \X Accounts
      BY <1>1, Kept DEF history
    <2>2. StageInv(r)' /\ OwnerInv(r)'
      BY <1>3, ReplyFrame DEF SInv, StageInv, OwnerInv
    <2> QED
      BY <1>1, <1>2, <1>3, <2>1, <2>2, ReplyFrame, Quiet DEF SInv, accounts, history
  <1>4. CASE Goto(r, "finding")
    <2>1. "finding" \in Stage
      BY DEF Stage
    <2>2. StageInv(r)' /\ OwnerInv(r)'
      BY <1>1, <1>4, <2>1, GotoFrame DEF SInv, StageInv, OwnerInv
    <2> QED
      BY <1>1, <1>2, <1>4, <2>1, <2>2, MovesOn DEF accounts, history
  <1> QED
    BY <1>3, <1>4 DEF AllowLogin

LEMMA FindLoginKeeps == ASSUME SInv, NEW r \in Requests, FindLogin(r) PROVE SInv'
  <1>1. req[r].at = "finding" /\ StageInv(r) /\ UNCHANGED <<accounts, redis, history>>
    BY DEF FindLogin, At, SInv
  <1>2. CASE Reply(r, "refused")
    BY <1>1, <1>2, Answered, Kept DEF history
  <1>3. CASE \E a \in {x \in HasEmail(Of(r)) : users[x].password} : Holding(r, a, "resetting")
    <2>1. PICK a \in Accounts : Holding(r, a, "resetting") /\ users[a].password /\ users[a].email = Of(r)
      BY <1>3 DEF HasEmail
    <2>2. "resetting" \in Stage
      BY DEF Stage
    <2>3. /\ req' \in [Requests -> Request]
          /\ \A o \in Requests \ {r} : req'[o] = req[o]
          /\ req'[r].at = "resetting" /\ req'[r].kind = req[r].kind /\ req'[r].key = req[r].key
          /\ req'[r].acct = a
      BY <2>1, <2>2, HoldingFrame DEF SInv
    <2>4. StageInv(r)'
      BY <1>1, <2>3 DEF StageInv
    <2>5. OwnerInv(r)'
      BY <1>1, <2>1, <2>3 DEF OwnerInv, Of, accounts
    <2> QED
      BY <1>1, <2>3, <2>4, <2>5, Quiet, Kept DEF accounts, redis, history
  <1> QED
    BY <1>2, <1>3 DEF FindLogin

LEMMA ResetKeeps == ASSUME SInv, NEW r \in Requests, ResetLogins(r) PROVE SInv'
  <1>1. /\ req[r].at = "resetting" /\ StageInv(r) /\ OwnerInv(r)
        /\ UNCHANGED <<accounts, otp, cooldown, history>> /\ Goto(r, "entering")
    BY DEF ResetLogins, At, SInv, AccountHalf
  <1>2. failures' \in [Emails -> Nat] /\ cooldown' \in [Phones -> BOOLEAN]
    BY <1>1, Kept DEF ResetLogins
  <1>3. "entering" \in Stage
    BY DEF Stage
  <1>4. StageInv(r)'
    BY <1>1, <1>3, GotoFrame DEF SInv, StageInv
  <1>5. OwnerInv(r)'
    BY <1>1, <1>3, GotoFrame DEF SInv, StageInv, OwnerInv, Of, accounts
  <1> QED
    BY <1>1, <1>2, <1>3, <1>4, <1>5, MovesOn DEF accounts, history

-----------------------------------------------------------------------------
(* Steps at the codes                                                      *)

\* Such a step keeps the types and the other half.
LEMMA CodeStep ==
  ASSUME SInv, NEW r \in Requests, UNCHANGED <<users, identities, proven, failures, entered>>,
         otp' \in [Phones -> Pending], cooldown' \in [Phones -> BOOLEAN],
         spends' \in [Codes -> Nat], guesses' \in [Codes -> Nat],
         crowded' \subseteq Codes \cup {None},
         req' \in [Requests -> Request], \A o \in Requests \ {r} : req'[o] = req[o],
         req'[r].at \notin {"loading", "linking", "marking", "resetting", "entering"},
         req'[r].at = "answered" \/ req[r].at \notin {"linking", "marking", "entering", "answered"},
         StageInv(r)', CodeHalf'
  PROVE  SInv'
  <1>1. OwnerInv(r)'
    BY DEF OwnerInv
  <1>2. AccountHalf'
    BY <1>1, AccountsUntouched DEF SInv
  <1>3. TypeOK'
    BY DEF SInv, TypeOK
  <1> QED
    BY <1>2, <1>3, StagesKept DEF SInv

LEMMA CodeTypes ==
  ASSUME SInv
  PROVE  /\ otp \in [Phones -> Pending] /\ spends \in [Codes -> Nat] /\ guesses \in [Codes -> Nat]
         /\ \A p \in Phones : otp[p].code \in Codes \cup {None} /\ otp[p].attempts \in Nat
                              /\ otp[p].expires \in BOOLEAN
         /\ crowded \subseteq Codes \cup {None}
         /\ NoCode \in Pending /\ NoCode.code = None /\ NoCode.expires /\ NoCode.attempts = 0
  BY DEF SInv, TypeOK, Pending, NoCode

LEMMA AtPhone ==
  ASSUME SInv, NEW r \in Requests,
         req[r].at \in {"cooling", "storing", "sending", "reading", "counting", "judging", "burning"}
  PROVE  Of(r) \in Phones
  <1>1. StageInv(r)
    BY DEF SInv
  <1>2. req[r].kind \in {"start", "verify"} /\ req[r].key \in Via(req[r].kind)
    BY <1>1 DEF StageInv
  <1> QED
    BY <1>2, Names DEF Of

LEMMA StoreKeeps == ASSUME SInv, NEW r \in Requests, StoreCode(r) PROVE SInv'
  <1> DEFINE c == Issued(r)
  <1>1. /\ req[r].at = "storing" /\ StageInv(r) /\ Fresh(r) /\ Goto(r, "sending")
        /\ otp' = [otp EXCEPT ![Of(r)] = c] /\ UNCHANGED <<accounts, failures, history>>
    BY DEF StoreCode, At, SInv, CodeHalf
  <1>2. Of(r) \in Phones /\ r \in Codes /\ r # None
    BY <1>1, AtPhone, Names
  <1>3. c \in Pending /\ c.code = r /\ c.attempts = 0 /\ c.expires
    BY <1>2 DEF Issued, Pending
  <1> HIDE DEF c
  <1>4. "sending" \in Stage
    BY DEF Stage
  <1>5. /\ req' \in [Requests -> Request] /\ \A o \in Requests \ {r} : req'[o] = req[o]
        /\ req'[r].at = "sending" /\ req'[r].kind = req[r].kind /\ req'[r].key = req[r].key
    BY <1>1, <1>4, GotoFrame DEF SInv
  <1>6. otp' \in [Phones -> Pending] /\ otp'[Of(r)] = c /\ \A p \in Phones \ {Of(r)} : otp'[p] = otp[p]
    BY <1>1, <1>2, <1>3, CodeTypes
  <1>7. \A o \in Requests : \A x : Checking(o, x)' => Checking(o, x) /\ o # r /\ req'[o] = req[o]
    BY <1>5 DEF Checking
  <1>8. UNCHANGED <<spends, guesses, crowded>> /\ guesses[r] = 0 /\ spends[r] = 0
    BY <1>1 DEF history, Fresh
  <1>9. CodeHalf'
    <2>1. \A o \in Requests : Fresh(o)'
      <3> SUFFICES ASSUME NEW o \in Requests, req'[o].at \in {"idle", "cooling", "storing"}
                   PROVE  /\ guesses[o] = 0 /\ spends[o] = 0
                          /\ \A p \in Phones : otp'[p].code # o
                          /\ \A x \in Requests : ~Checking(x, o)'
        BY <1>8 DEF Fresh
      <3>1. o # r /\ Fresh(o) /\ req[o].at \in {"idle", "cooling", "storing"}
        BY <1>5 DEF SInv, CodeHalf
      <3> QED
        BY <1>3, <1>6, <1>7, <3>1 DEF Fresh
    <2>2. OnePlace'
      BY <1>1, <1>3, <1>6, <1>7 DEF SInv, CodeHalf, OnePlace, Fresh, Of
    <2>3. Counting'
      BY <1>3, <1>6, <1>8 DEF SInv, CodeHalf, Counting
    <2>4. Spending'
      BY <1>3, <1>6, <1>7, <1>8 DEF SInv, CodeHalf, Spending
    <2>5. NoImmortalCode'
      BY <1>3, <1>6 DEF SInv, CodeHalf, NoImmortalCode
    <2>6. CodeSpentOnce' /\ GuessesBounded'
      BY <1>8 DEF SInv, CodeHalf, CodeSpentOnce, GuessesBounded
    <2> QED
      BY <2>1, <2>2, <2>3, <2>4, <2>5, <2>6 DEF CodeHalf
  <1>10. cooldown' \in [Phones -> BOOLEAN]
    BY Kept DEF StoreCode
  <1>11. StageInv(r)'
    BY <1>1, <1>5 DEF StageInv
  <1> QED
    BY <1>1, <1>5, <1>6, <1>8, <1>9, <1>10, <1>11, CodeTypes, CodeStep DEF accounts, history

LEMMA ReadKeeps == ASSUME SInv, NEW r \in Requests, ReadCode(r) PROVE SInv'
  <1> DEFINE p == Of(r)
  <1>1. /\ req[r].at = "reading" /\ StageInv(r)
        /\ UNCHANGED <<accounts, redis, entered, spends, guesses, proven>>
    BY DEF ReadCode, At, SInv
  <1>2. p \in Phones
    BY <1>1, AtPhone
  <1>3. CASE otp[p] = NoCode
    BY <1>1, <1>3, Answered, Kept DEF ReadCode
  <1>4. CASE otp[p] # NoCode
    <2> DEFINE c == otp[p].code
               now == [req[r] EXCEPT !.at = "counting", !.seen = c]
    <2>1. /\ req' = [req EXCEPT ![r] = now]
          /\ crowded' = IF \E o \in Requests : Checking(o, c) THEN crowded \cup {c} ELSE crowded
      BY <1>4 DEF ReadCode
    <2>2. req[r] \in Request /\ req \in [Requests -> Request]
      BY Fields DEF SInv
    <2>3. c \in Codes \cup {None} /\ "counting" \in Stage
      BY <1>2, CodeTypes DEF Stage
    <2>4. now \in Request
      BY <2>2, <2>3 DEF Request
    <2>5. now.at = "counting" /\ now.kind = req[r].kind /\ now.key = req[r].key /\ now.seen = c
          /\ now.guess = req[r].guess
      BY <2>2 DEF Request
    <2> HIDE DEF now, c
    <2>6. /\ req' \in [Requests -> Request] /\ req'[r] = now
          /\ \A o \in Requests \ {r} : req'[o] = req[o]
      BY <2>1, <2>2, <2>4
    <2>7. /\ \A o \in Requests \ {r} : \A x : Checking(o, x)' <=> Checking(o, x)
          /\ \A x : Checking(r, x)' <=> x = c
          /\ \A x : ~Checking(r, x)
      BY <1>1, <2>5, <2>6 DEF Checking
    <2>8. UNCHANGED <<otp, spends, guesses>> /\ crowded \subseteq crowded' /\ crowded' \subseteq Codes \cup {None}
      BY <1>1, <2>1, <2>3, CodeTypes DEF redis
    <2>9. CodeHalf'
      <3>1. \A o \in Requests : Fresh(o)'
        <4> SUFFICES ASSUME NEW o \in Requests, req'[o].at \in {"idle", "cooling", "storing"}
                     PROVE  /\ guesses[o] = 0 /\ spends[o] = 0
                            /\ \A q \in Phones : otp[q].code # o
                            /\ \A x \in Requests : ~Checking(x, o)'
          BY <2>8 DEF Fresh
        <4>1. o # r /\ req[o].at \in {"idle", "cooling", "storing"} /\ Fresh(o)
          BY <2>5, <2>6 DEF SInv, CodeHalf
        <4>2. c # o
          BY <1>2, <4>1 DEF Fresh, c
        <4> QED
          BY <2>7, <4>1, <4>2 DEF Fresh
      <3>2. OnePlace'
        <4>1. \A a, b \in Phones : otp[a].code = otp[b].code /\ otp[a].code # None => a = b
          BY DEF SInv, CodeHalf, OnePlace
        <4>2. ASSUME NEW o \in Requests, NEW q \in Phones, req'[o].seen # None, Checking(o, otp[q].code)'
              PROVE  q = Of(o)'
          <5>1. CASE o = r
            <6>1. otp[q].code = c /\ c # None
              BY <2>5, <2>6, <2>7, <2>8, <4>2, <5>1
            <6>2. q = p
              BY <1>2, <4>1, <6>1 DEF c
            <6> QED
              BY <2>5, <2>6, <5>1, <6>2 DEF Of
          <5>2. CASE o # r
            BY <2>6, <2>7, <2>8, <4>2, <5>2 DEF SInv, CodeHalf, OnePlace, Of
          <5> QED
            BY <5>1, <5>2
        <4> QED
          BY <2>8, <4>1, <4>2 DEF OnePlace
      <3>3. Counting' /\ NoImmortalCode' /\ GuessesBounded'
        BY <2>8 DEF SInv, CodeHalf, Counting, NoImmortalCode, GuessesBounded
      <3>4. CodeSpentOnce'
        BY <2>8 DEF SInv, CodeHalf, CodeSpentOnce
      <3>5. Spending'
        <4> SUFFICES ASSUME NEW x \in Codes \ crowded'
                     PROVE  /\ \A o, b \in Requests : Checking(o, x)' /\ Checking(b, x)' => o = b
                            /\ spends[x] # 0 => /\ \A q \in Phones : otp[q].code # x
                                                /\ \A o \in Requests : ~Checking(o, x)'
          BY <2>8 DEF Spending
        <4>1. x \notin crowded /\ (x = c => \A o \in Requests : ~Checking(o, c))
          BY <2>1
        <4>2. /\ \A o, b \in Requests : Checking(o, x) /\ Checking(b, x) => o = b
              /\ spends[x] # 0 => /\ \A q \in Phones : otp[q].code # x
                                  /\ \A o \in Requests : ~Checking(o, x)
          BY <4>1 DEF SInv, CodeHalf, Spending
        <4>3. spends[x] # 0 => x # c
          BY <1>2, <4>2 DEF c
        <4> QED
          BY <2>7, <4>1, <4>2, <4>3
      <3> QED
        BY <3>1, <3>2, <3>3, <3>4, <3>5 DEF CodeHalf
    <2>10. StageInv(r)'
      BY <1>1, <2>5, <2>6 DEF StageInv
    <2> QED
      BY <1>1, <2>5, <2>6, <2>8, <2>9, <2>10, CodeTypes, Kept, CodeStep DEF accounts, redis
  <1> QED
    BY <1>3, <1>4

\* A step that changes a number's entry, but not to another code, and adds no
\* checker.
LEMMA EntryChanges ==
  ASSUME SInv, NEW p \in Phones,
         \A q \in Phones \ {p} : otp'[q] = otp[q],
         otp'[p].code \in {otp[p].code, None},
         \A o \in Requests : \A x : Checking(o, x)' => Checking(o, x) /\ req'[o].seen = req[o].seen /\ req'[o].key = req[o].key,
         \A o \in Requests : req'[o].at \in {"idle", "cooling", "storing"} => req[o].at \in {"idle", "cooling", "storing"},
         \A x \in Codes : guesses'[x] = guesses[x] \/ (guesses'[x] = guesses[x] + 1 /\ x = otp[p].code),
         \A x \in Codes : spends'[x] = spends[x] \/ \E o \in Requests : Checking(o, x),
         UNCHANGED crowded
  PROVE  (\A o \in Requests : Fresh(o)') /\ OnePlace'
  <1>1. \A q \in Phones : \A x : otp'[q].code = x /\ x # None => otp[q].code = x
    OBVIOUS
  <1>2. ASSUME NEW o \in Requests, req'[o].at \in {"idle", "cooling", "storing"}
        PROVE  /\ guesses'[o] = 0 /\ spends'[o] = 0
               /\ \A q \in Phones : otp'[q].code # o
               /\ \A x \in Requests : ~Checking(x, o)'
    <2>1. req[o].at \in {"idle", "cooling", "storing"} /\ Fresh(o) /\ o \in Codes /\ o # None
      BY <1>2, Names DEF SInv, CodeHalf
    <2> QED
      BY <1>1, <2>1 DEF Fresh
  <1>3. OnePlace'
    <2>1. \A a, b \in Phones : otp'[a].code = otp'[b].code /\ otp'[a].code # None => a = b
      BY <1>1 DEF SInv, CodeHalf, OnePlace
    <2>2. ASSUME NEW o \in Requests, NEW q \in Phones, NEW x, x # None, otp'[q].code = x,
                 Checking(o, x)'
          PROVE  q = Of(o)'
      <3>1. Checking(o, x) /\ req[o].seen = x /\ req'[o].key = req[o].key
        BY <2>2 DEF Checking
      <3>2. otp[q].code = x
        BY <1>1, <2>2
      <3> QED
        BY <2>2, <3>1, <3>2 DEF SInv, CodeHalf, OnePlace, Of
    <2>3. ASSUME NEW o \in Requests, NEW q \in Phones, req'[o].seen # None,
                 req'[o].at \in {"counting", "judging"} /\ req'[o].seen = otp'[q].code
          PROVE  q = Of(o)'
      <3>1. PICK x : x # None /\ otp'[q].code = x /\ req'[o].at \in {"counting", "judging"}
                     /\ req'[o].seen = x
        BY <2>3
      <3>2. Checking(o, x)'
        BY <3>1 DEF Checking
      <3> QED
        BY <2>2, <3>1, <3>2
    <2> QED
      BY <2>1, <2>3 DEF OnePlace, Checking
  <1> QED
    BY <1>2, <1>3 DEF Fresh

LEMMA CountedEntry ==
  ASSUME SInv, NEW p \in Phones
  PROVE  /\ Counted(p) \in Pending /\ Counted(p).code = otp[p].code
         /\ Counted(p).attempts = otp[p].attempts + 1
         /\ Counted(p).expires \/ Counted(p).code = None
  <1>1. CASE otp[p] = NoCode
    BY <1>1, CodeTypes DEF Counted, Pending, NoCode
  <1>2. CASE otp[p] # NoCode
    <2>1. otp[p] \in Pending /\ (otp[p].expires \/ otp[p].code = None)
      BY CodeTypes DEF SInv, CodeHalf, NoImmortalCode
    <2> QED
      BY <1>2, <2>1 DEF Counted, Pending
  <1> QED
    BY <1>1, <1>2

LEMMA CountKeeps == ASSUME SInv, NEW r \in Requests, CountAttempt(r) PROVE SInv'
  <1> DEFINE p == Of(r)
             now == Counted(p)
             c == req[r].seen
             allowed == Permitted(now.attempts)
             to == IF allowed THEN "judging" ELSE "burning"
  <1>1. /\ req[r].at = "counting" /\ StageInv(r) /\ otp' = [otp EXCEPT ![p] = now] /\ Goto(r, to)
        /\ guesses' = IF allowed /\ c # None /\ now.code = c
                      THEN [guesses EXCEPT ![c] = @ + 1] ELSE guesses
        /\ UNCHANGED <<accounts, cooldown, failures, entered, spends, crowded, proven>>
    BY DEF CountAttempt, At, SInv
  <1>2. p \in Phones /\ c \in Codes \cup {None} /\ to \in Stage /\ to \in {"judging", "burning"}
    BY <1>1, AtPhone, Fields DEF SInv, Stage
  <1>3. /\ now \in Pending /\ now.code = otp[p].code /\ now.attempts = otp[p].attempts + 1
        /\ now.expires \/ now.code = None
    BY <1>2, CountedEntry
  <1>4. allowed => now.attempts <= MaxAttempts
    BY DEF Permitted
  <1> HIDE DEF now, p, allowed, to
  <1>5. /\ otp' \in [Phones -> Pending] /\ otp'[p] = now /\ \A q \in Phones \ {p} : otp'[q] = otp[q]
    BY <1>1, <1>2, <1>3, CodeTypes
  <1>6. /\ guesses' \in [Codes -> Nat]
        /\ \A x \in Codes : \/ guesses'[x] = guesses[x]
                            \/ /\ guesses'[x] = guesses[x] + 1 /\ x = otp[p].code /\ x # None
                               /\ now.attempts <= MaxAttempts
    BY <1>1, <1>2, <1>3, <1>4, CodeTypes
  <1>7. /\ req' \in [Requests -> Request] /\ \A o \in Requests \ {r} : req'[o] = req[o]
        /\ req'[r].at = to /\ req'[r].kind = req[r].kind /\ req'[r].key = req[r].key
        /\ req'[r].seen = req[r].seen /\ req'[r].guess = req[r].guess
    BY <1>1, <1>2, GotoFrame DEF SInv
  <1>8. \A o \in Requests : \A x : Checking(o, x)' => Checking(o, x) /\ req'[o].seen = req[o].seen
                                                  /\ req'[o].key = req[o].key
    BY <1>1, <1>7 DEF Checking
  <1>9. \A o \in Requests : req'[o].at \in {"idle", "cooling", "storing"} => req[o].at \in {"idle", "cooling", "storing"}
    BY <1>2, <1>7
  <1>10. (\A o \in Requests : Fresh(o)') /\ OnePlace'
    BY <1>1, <1>2, <1>3, <1>5, <1>6, <1>8, <1>9, EntryChanges
  <1>11. Counting'
    <2> SUFFICES ASSUME NEW q \in Phones, otp'[q].code # None
                 PROVE  guesses'[otp'[q].code] <= otp'[q].attempts
      BY DEF Counting
    <2>1. /\ otp'[q].code = otp[q].code /\ otp[q].code \in Codes /\ otp[q].attempts \in Nat
          /\ guesses[otp[q].code] <= otp[q].attempts /\ guesses[otp[q].code] \in Nat
      BY <1>3, <1>5, CodeTypes DEF SInv, CodeHalf, Counting
    <2>2. CASE q = p
      BY <1>3, <1>5, <1>6, <2>1, <2>2
    <2>3. CASE q # p
      <3>1. otp[q].code # otp[p].code
        BY <1>2, <2>1, <2>3 DEF SInv, CodeHalf, OnePlace
      <3>2. guesses'[otp[q].code] = guesses[otp[q].code]
        BY <1>6, <2>1, <3>1
      <3> QED
        BY <1>5, <2>1, <2>3, <3>2
    <2> QED
      BY <2>2, <2>3
  <1>12. GuessesBounded'
    <2> SUFFICES ASSUME NEW x \in Codes PROVE guesses'[x] <= MaxAttempts
      BY DEF GuessesBounded
    <2>1. guesses[x] <= MaxAttempts /\ guesses[x] \in Nat
      BY CodeTypes DEF SInv, CodeHalf, GuessesBounded
    <2>2. CASE guesses'[x] = guesses[x] + 1 /\ x = otp[p].code /\ x # None /\ now.attempts <= MaxAttempts
      <3>1. guesses[x] <= otp[p].attempts /\ otp[p].attempts \in Nat
        BY <1>2, <2>2, CodeTypes DEF SInv, CodeHalf, Counting
      <3> QED
        BY <1>3, <2>1, <2>2, <3>1, SignInConfig
    <2> QED
      BY <1>6, <2>1, <2>2
  <1>13. NoImmortalCode'
    BY <1>3, <1>5 DEF SInv, CodeHalf, NoImmortalCode
  <1>14. Spending'
    <2>1. \A q \in Phones : otp'[q].code = otp[q].code
      BY <1>3, <1>5
    <2> QED
      BY <1>1, <1>8, <2>1 DEF SInv, CodeHalf, Spending
  <1>15. CodeSpentOnce'
    BY <1>1 DEF SInv, CodeHalf, CodeSpentOnce
  <1>16. CodeHalf'
    BY <1>10, <1>11, <1>12, <1>13, <1>14, <1>15 DEF CodeHalf
  <1>17. StageInv(r)'
    BY <1>1, <1>2, <1>7 DEF StageInv
  <1> QED
    BY <1>1, <1>2, <1>5, <1>6, <1>7, <1>16, <1>17, CodeTypes, Kept, CodeStep DEF accounts

\* A number's entry goes, with nobody starting to check anything.
LEMMA EntryGoes ==
  ASSUME SInv, NEW p \in Phones, otp' = [otp EXCEPT ![p] = NoCode],
         \A o \in Requests : \A x : Checking(o, x)' => Checking(o, x) /\ req'[o].seen = req[o].seen /\ req'[o].key = req[o].key,
         \A o \in Requests : req'[o].at \in {"idle", "cooling", "storing"} => req[o].at \in {"idle", "cooling", "storing"},
         UNCHANGED <<spends, guesses, crowded>>
  PROVE  CodeHalf'
  <1>1. /\ otp' \in [Phones -> Pending] /\ otp'[p] = NoCode
        /\ \A q \in Phones \ {p} : otp'[q] = otp[q]
    BY CodeTypes
  <1>2. (\A o \in Requests : Fresh(o)') /\ OnePlace'
    BY <1>1, EntryChanges, CodeTypes
  <1>3. Counting'
    BY <1>1, CodeTypes DEF SInv, CodeHalf, Counting
  <1>4. Spending'
    BY <1>1, CodeTypes, Names DEF SInv, CodeHalf, Spending
  <1>5. NoImmortalCode'
    BY <1>1, CodeTypes DEF SInv, CodeHalf, NoImmortalCode
  <1>6. GuessesBounded' /\ CodeSpentOnce'
    BY DEF SInv, CodeHalf, GuessesBounded, CodeSpentOnce
  <1> QED
    BY <1>2, <1>3, <1>4, <1>5, <1>6 DEF CodeHalf

LEMMA BurnKeeps == ASSUME SInv, NEW r \in Requests, Burn(r) PROVE SInv'
  <1>1. /\ req[r].at = "burning" /\ Reply(r, "refused") /\ otp' = [otp EXCEPT ![Of(r)] = NoCode]
        /\ UNCHANGED <<accounts, cooldown, failures, history>>
    BY DEF Burn, At
  <1>2. Of(r) \in Phones
    BY <1>1, AtPhone
  <1>3. /\ req' \in [Requests -> Request] /\ \A o \in Requests \ {r} : req'[o] = req[o]
        /\ req'[r].at = "answered"
    BY <1>1, ReplyFrame DEF SInv
  <1>4. /\ \A o \in Requests : \A x : Checking(o, x)' => Checking(o, x) /\ req'[o].seen = req[o].seen
                                                     /\ req'[o].key = req[o].key
        /\ \A o \in Requests : req'[o].at \in {"idle", "cooling", "storing"} => req[o].at \in {"idle", "cooling", "storing"}
    BY <1>3 DEF Checking
  <1>5. CodeHalf'
    BY <1>1, <1>2, <1>4, EntryGoes DEF history
  <1>6. otp' \in [Phones -> Pending]
    BY <1>1, CodeTypes
  <1>7. StageInv(r)'
    BY <1>3 DEF StageInv
  <1> QED
    BY <1>1, <1>3, <1>5, <1>6, <1>7, CodeTypes, Kept, CodeStep DEF accounts, history

LEMMA ConsumeKeeps == ASSUME SInv, NEW r \in Requests, Consume(r) PROVE SInv'
  <1> DEFINE p == Of(r)
  <1>0. PICK c : c = req[r].seen
    OBVIOUS
  <1>1. /\ req[r].at = "judging" /\ StageInv(r) /\ req[r].guess = c
        /\ otp' = [otp EXCEPT ![p] = NoCode]
        /\ spends' = [spends EXCEPT ![c] = @ + 1] /\ Goto(r, "identity")
        /\ UNCHANGED <<accounts, cooldown, failures, entered, guesses, crowded, proven>>
    BY <1>0 DEF Consume, At, SInv, Spent
  <1>2. p \in Phones /\ c \in Codes /\ c # None /\ "identity" \in Stage
    BY <1>1, AtPhone, Names DEF StageInv, Stage
  <1>3. Checking(r, c)
    BY <1>0, <1>1 DEF Checking
  <1>4. /\ otp' \in [Phones -> Pending] /\ otp'[p] = NoCode
        /\ \A q \in Phones \ {p} : otp'[q] = otp[q]
    BY <1>1, <1>2, CodeTypes
  <1>5. /\ spends' \in [Codes -> Nat] /\ spends'[c] = spends[c] + 1
        /\ \A x \in Codes \ {c} : spends'[x] = spends[x]
    BY <1>1, <1>2, CodeTypes
  <1>6. /\ req' \in [Requests -> Request] /\ \A o \in Requests \ {r} : req'[o] = req[o]
        /\ req'[r].at = "identity" /\ req'[r].kind = req[r].kind /\ req'[r].key = req[r].key
        /\ req'[r].seen = req[r].seen
    BY <1>1, <1>2, GotoFrame DEF SInv
  <1>7. \A o \in Requests : \A x : Checking(o, x)' => Checking(o, x) /\ o # r /\ req'[o].seen = req[o].seen
                                                  /\ req'[o].key = req[o].key
    BY <1>6 DEF Checking
  <1>8. \A x \in Codes : spends'[x] = spends[x] \/ \E o \in Requests : Checking(o, x)
    BY <1>3, <1>5
  <1>9. (\A o \in Requests : Fresh(o)') /\ OnePlace'
    <2>1. \A o \in Requests : req'[o].at \in {"idle", "cooling", "storing"} => req[o].at \in {"idle", "cooling", "storing"}
      BY <1>6
    <2>2. \A x \in Codes : guesses'[x] = guesses[x]
      BY <1>1
    <2> QED
      BY <1>1, <1>2, <1>4, <1>7, <1>8, <2>1, <2>2, EntryChanges, CodeTypes
  <1>10. Counting' /\ NoImmortalCode' /\ GuessesBounded'
    BY <1>1, <1>4, CodeTypes DEF SInv, CodeHalf, Counting, NoImmortalCode, GuessesBounded
  <1>11. \A q \in Phones : otp'[q].code # c
    <2> SUFFICES ASSUME NEW q \in Phones, q # p, otp[q].code = c PROVE FALSE
      BY <1>2, <1>4, CodeTypes
    <2>1. req[r].seen # None /\ Checking(r, otp[q].code)
      BY <1>0, <1>2, <1>3
    <2> QED
      BY <2>1 DEF SInv, CodeHalf, OnePlace
  <1>12. c \notin crowded => spends[c] = 0 /\ \A o \in Requests : ~Checking(o, c)'
    BY <1>2, <1>3, <1>7 DEF SInv, CodeHalf, Spending
  <1>13. Spending'
    <2> SUFFICES ASSUME NEW x \in Codes \ crowded
                 PROVE  /\ \A o, b \in Requests : Checking(o, x)' /\ Checking(b, x)' => o = b
                        /\ spends'[x] # 0 => /\ \A q \in Phones : otp'[q].code # x
                                             /\ \A o \in Requests : ~Checking(o, x)'
      BY <1>1 DEF Spending
    <2>1. /\ \A o, b \in Requests : Checking(o, x) /\ Checking(b, x) => o = b
          /\ spends[x] # 0 => /\ \A q \in Phones : otp[q].code # x
                              /\ \A o \in Requests : ~Checking(o, x)
      BY DEF SInv, CodeHalf, Spending
    <2>2. CASE x = c
      BY <1>7, <1>11, <1>12, <2>1, <2>2
    <2>3. CASE x # c
      BY <1>4, <1>5, <1>7, <2>1, <2>3, CodeTypes, Names
    <2> QED
      BY <2>2, <2>3
  <1>14. CodeSpentOnce'
    BY <1>1, <1>5, <1>12 DEF SInv, CodeHalf, CodeSpentOnce
  <1>15. CodeHalf'
    BY <1>9, <1>10, <1>13, <1>14 DEF CodeHalf
  <1>16. StageInv(r)'
    BY <1>1, <1>6 DEF StageInv
  <1> QED
    BY <1>1, <1>4, <1>5, <1>6, <1>15, <1>16, CodeTypes, Kept, CodeStep DEF accounts

LEMMA ExpireCodeKeeps == ASSUME SInv, NEW p \in Phones, ExpireCode(p) PROVE SInv'
  <1>1. otp' = [otp EXCEPT ![p] = NoCode] /\ UNCHANGED <<accounts, cooldown, failures, req, history>>
    BY DEF ExpireCode
  <1>2. \A o \in Requests : \A x : Checking(o, x)' => Checking(o, x) /\ req'[o].seen = req[o].seen
                                                  /\ req'[o].key = req[o].key
    BY <1>1 DEF Checking
  <1>3. CodeHalf'
    BY <1>1, <1>2, EntryGoes DEF history
  <1>4. AccountHalf'
    BY <1>1 DEF SInv, AccountHalf, Uncreated, OwnerInv, Made, Of, EmailsUnique, LinkingNeedsProof,
                accounts, history
  <1>5. TypeOK'
    BY <1>1, CodeTypes DEF SInv, TypeOK, accounts, history
  <1> QED
    BY <1>1, <1>3, <1>4, <1>5 DEF SInv, StageInv

-----------------------------------------------------------------------------
(* Steps at the accounts                                                   *)

LEMMA AccountStep ==
  ASSUME SInv, NEW r \in Requests,
         UNCHANGED <<otp, spends, guesses, crowded, cooldown, failures, entered>>,
         users' \in [Accounts -> Row \cup {NoRow}], identities' \in [Keys -> Accounts \cup {None}],
         proven' \subseteq Requests,
         req' \in [Requests -> Request], \A o \in Requests \ {r} : req'[o] = req[o],
         req'[r].at \notin {"idle", "cooling", "storing", "counting", "judging"},
         StageInv(r)', AccountHalf'
  PROVE  SInv'
  <1>1. CodeHalf'
    BY CodesUntouched DEF SInv
  <1>2. TypeOK'
    BY DEF SInv, TypeOK
  <1> QED
    BY <1>1, <1>2, StagesKept DEF SInv

LEMMA AccountTypes ==
  ASSUME SInv
  PROVE  /\ users \in [Accounts -> Row \cup {NoRow}] /\ identities \in [Keys -> Accounts \cup {None}]
         /\ proven \subseteq Requests
  BY DEF SInv, TypeOK

\* The row of a request that has not created one yet.
LEMMA NewRowFields ==
  ASSUME SInv, NEW r \in Requests, req[r].at \in {"contact", "creating"}
  PROVE  /\ NewRow(r) \in Row /\ NewRow(r).active /\ ~NewRow(r).deleted
         /\ req[r].kind = "social" => ~NewRow(r).password /\ NewRow(r).phone = None
         /\ NewRow(r).password => NewRow(r).email = req[r].key[2] /\ req[r].key[1] = "password"
         /\ NewRow(r).email \in Emails \cup {None}
  <1> DEFINE k == req[r].key
             phone == IF k[1] = "phone" THEN k[2] ELSE None
             email == CASE k[1] = "social" -> Email[k[2]] [] k[1] = "password" -> k[2] [] OTHER -> None
             password == k[1] = "password"
             verified == k[1] = "social" /\ k[2] \in Vouched
  <1>1. req[r].kind \in {"verify", "social", "register"} /\ k \in Via(req[r].kind)
    BY DEF SInv, StageInv
  <1>2. /\ req[r].kind = "verify" => k[1] = "phone" /\ k[2] \in Phones
        /\ req[r].kind = "social" => k[1] = "social" /\ k[2] \in Subjects
        /\ req[r].kind = "register" => k[1] = "password" /\ k[2] \in Emails
    BY <1>1, Names
  <1>3. phone \in Phones \cup {None} /\ (req[r].kind = "social" => phone = None)
    BY <1>1, <1>2
  <1>4. email \in Emails \cup {None} /\ (password => email = k[2])
    BY <1>1, <1>2, SignInConfig
  <1>5. password \in BOOLEAN /\ verified \in BOOLEAN /\ (req[r].kind = "social" => ~password)
    BY <1>1, <1>2
  <1>6. NewRow(r) = [phone |-> phone, email |-> email, password |-> password,
                     verified |-> verified, active |-> TRUE, deleted |-> FALSE]
    BY DEF NewRow
  <1>7. password => k[1] = "password"
    OBVIOUS
  <1> HIDE DEF phone, email, password, verified, k
  <1> QED
    BY <1>3, <1>4, <1>5, <1>6, <1>7 DEF Row, k

\* Rows that were there keep who they belong to.
LEMMA OwnersKept ==
  ASSUME SInv, NEW r \in Requests,
         \A o \in Requests \ {r} : req'[o] = req[o], OwnerInv(r)',
         req'[r].at \notin {"linking", "marking", "entering", "answered"} =>
           r \notin proven',
         \A o \in Requests \ {r} : o \in proven' => o \in proven, proven \subseteq proven',
         \A o \in Requests : o \notin proven' => users'[o] = NoRow,
         \A a \in Accounts : a \in proven \cup {Office} =>
           /\ users'[a].password = users[a].password /\ users'[a].email = users[a].email
           /\ users'[a].phone = users[a].phone,
         \A k \in Keys : identities[k] # None => identities'[k] = identities[k]
  PROVE  \A o \in Requests : Uncreated(o)' /\ OwnerInv(o)'
  <1>1. \A o \in Requests : Uncreated(o)'
    BY DEF SInv, AccountHalf, Uncreated
  <1>2. ASSUME NEW o \in Requests, o # r PROVE OwnerInv(o)'
    <2>1. req'[o] = req[o] /\ OwnerInv(o) /\ StageInv(o)
      BY <1>2 DEF SInv, AccountHalf
    <2>2. req[o].at \in {"loading", "marking"} \/ (req[o].at = "entering" /\ req[o].kind # "login")
            => identities'[req[o].key] = req[o].acct
      <3> SUFFICES ASSUME req[o].at \in {"loading", "marking", "entering"},
                          identities[req[o].key] = req[o].acct
                   PROVE  identities'[req[o].key] = req[o].acct
        BY <2>1 DEF OwnerInv
      <3>1. req[o].key \in Keys /\ req[o].acct \in Accounts /\ req[o].acct # None
        BY <2>1, Names DEF StageInv
      <3> QED
        BY <3>1
    <2>3. req[o].at \in {"resetting", "entering"} /\ req[o].kind = "login" =>
            users'[req[o].acct].password /\ users'[req[o].acct].email = Of(o)
      <3> SUFFICES ASSUME req[o].at \in {"resetting", "entering"}, req[o].kind = "login"
                   PROVE  users'[req[o].acct].password /\ users'[req[o].acct].email = Of(o)
        OBVIOUS
      <3>1. /\ users[req[o].acct].password /\ users[req[o].acct].email = Of(o)
            /\ req[o].acct \in Accounts
        BY <2>1 DEF OwnerInv, StageInv
      <3>2. req[o].acct \in proven \cup {Office}
        BY <3>1, Names DEF SInv, AccountHalf, Uncreated, NoRow
      <3> QED
        BY <3>1, <3>2
    <2>4. req[o].at = "linking" /\ req[o].kind = "social" /\ Of(o) \notin Vouched =>
            /\ req[o].acct = o /\ o \in proven'
            /\ ~users'[o].password /\ users'[o].phone = None
      BY <2>1, Names DEF OwnerInv
    <2>5. req[o].at \in {"linking", "marking"} => req[o].acct \in proven' \cup {Office}
      BY <2>1 DEF OwnerInv, Made
    <2> QED
      BY <2>1, <2>2, <2>3, <2>4, <2>5 DEF OwnerInv, Of, Made
  <1> QED
    BY <1>1, <1>2

LEMMA CreateKeeps == ASSUME SInv, NEW r \in Requests, CreateAccount(r) PROVE SInv'
  <1>1. /\ req[r].at = "creating" /\ StageInv(r) /\ Uncreated(r) /\ r \notin proven
        /\ UNCHANGED <<identities, redis, entered, spends, guesses, crowded>>
    BY DEF CreateAccount, At, SInv, AccountHalf, Uncreated
  <1>2. CASE ~Unique(NewRow(r))
    BY <1>1, <1>2, Answered, Kept DEF CreateAccount, accounts
  <1>3. CASE Unique(NewRow(r))
    <2> DEFINE now == [req[r] EXCEPT !.at = "linking", !.acct = r, !.active = TRUE]
    <2>1. /\ users' = [users EXCEPT ![r] = NewRow(r)] /\ proven' = proven \cup {r}
          /\ req' = [req EXCEPT ![r] = now]
      BY <1>3 DEF CreateAccount
    <2>2. req[r] \in Request /\ req \in [Requests -> Request] /\ r \in Accounts /\ "linking" \in Stage
      BY Fields, Names DEF SInv, Stage
    <2>3. now \in Request
      BY <2>2 DEF Request
    <2>4. now.at = "linking" /\ now.kind = req[r].kind /\ now.key = req[r].key /\ now.acct = r
      BY <2>2 DEF Request
    <2> HIDE DEF now
    <2>5. /\ req' \in [Requests -> Request] /\ req'[r] = now
          /\ \A o \in Requests \ {r} : req'[o] = req[o]
      BY <2>1, <2>2, <2>3
    <2>6. /\ users' \in [Accounts -> Row \cup {NoRow}] /\ users'[r] = NewRow(r)
          /\ \A a \in Accounts \ {r} : users'[a] = users[a]
      BY <1>1, <2>1, <2>2, NewRowFields, AccountTypes
    <2>7. StageInv(r)'
      BY <1>1, <2>2, <2>4, <2>5 DEF StageInv
    <2>8. OwnerInv(r)'
      BY <1>1, <2>1, <2>4, <2>5, <2>6, NewRowFields DEF OwnerInv, Of, Made
    <2>9. \A o \in Requests : Uncreated(o)' /\ OwnerInv(o)'
      <3>1. \A o \in Requests : o \notin proven' => users'[o] = NoRow
        BY <2>1, <2>6, Names DEF SInv, AccountHalf, Uncreated
      <3>2. \A a \in Accounts : a \in proven \cup {Office} => users'[a] = users[a]
        BY <1>1, <2>6, Names
      <3> QED
        BY <1>1, <2>1, <2>4, <2>5, <2>8, <3>1, <3>2, OwnersKept
    <2>10. EmailsUnique'
      <3>1. users[r] = NoRow /\ NoRow.email = None
        BY <1>1 DEF Uncreated, NoRow
      <3>2. \A a \in Accounts : NewRow(r).email # None => users[a].email # NewRow(r).email
        <4> SUFFICES ASSUME NEW a \in Accounts, NewRow(r).email # None, ~Exists(a)
                     PROVE  users[a].email # NewRow(r).email
          BY <1>3 DEF Unique
        <4> QED
          BY <3>1 DEF Exists
      <3>3. ASSUME NEW a \in Accounts, NEW b \in Accounts, a # b, users'[a].email # None
            PROVE  users'[a].email # users'[b].email
        BY <2>6, <3>2, <3>3 DEF SInv, AccountHalf, EmailsUnique
      <3> QED
        BY <3>3 DEF EmailsUnique
    <2>11. LinkingNeedsProof'
      <3> SUFFICES ASSUME NEW s \in Subjects \ Vouched, identities[<<"social", s>>] # None
                   PROVE  LET a == identities[<<"social", s>>] IN
                          a \in proven' /\ ~users'[a].password /\ users'[a].phone = None
        BY <1>1 DEF LinkingNeedsProof
      <3> DEFINE a == identities[<<"social", s>>]
      <3>1. a \in proven /\ ~users[a].password /\ users[a].phone = None
        BY DEF SInv, AccountHalf, LinkingNeedsProof
      <3>2. a \in Accounts /\ a # r
        BY <1>1, <3>1, AccountTypes, Names
      <3> QED
        BY <2>1, <2>6, <3>1, <3>2
    <2>12. AccountHalf'
      BY <2>9, <2>10, <2>11 DEF AccountHalf
    <2>13. proven' \subseteq Requests /\ identities' \in [Keys -> Accounts \cup {None}]
      BY <1>1, <2>1, AccountTypes
    <2> QED
      BY <1>1, <2>4, <2>5, <2>6, <2>7, <2>12, <2>13, AccountStep DEF redis
  <1> QED
    BY <1>2, <1>3

LEMMA LinkKeeps == ASSUME SInv, NEW r \in Requests, Link(r) PROVE SInv'
  <1> DEFINE k == req[r].key
             a == req[r].acct
  <1>1. /\ req[r].at = "linking" /\ StageInv(r) /\ OwnerInv(r) /\ UNCHANGED <<users, redis, history>>
    BY DEF Link, At, SInv, AccountHalf
  <1>2. k \in Keys /\ a \in Accounts /\ req[r].kind \in {"verify", "social", "register"}
        /\ k \in Via(req[r].kind)
    BY <1>1, Names DEF StageInv
  <1>3. CASE ~Linkable(k)
    BY <1>1, <1>3, Answered, Kept DEF Link, accounts, history
  <1>4. CASE Linkable(k)
    <2> DEFINE to == AfterLink(r)
    <2>1. /\ identities' = [identities EXCEPT ![k] = a] /\ identities[k] = None
          /\ IF to = "answered" THEN Reply(r, "ok") ELSE Goto(r, to)
      BY <1>4 DEF Link, Linkable
    <2>2. /\ to \in {"answered", "marking", "entering"} /\ to \in Stage
          /\ to = "marking" => req[r].kind = "social"
          /\ to = "entering" => req[r].kind \in {"verify", "social"}
      BY <1>2 DEF AfterLink, Kind, Stage
    <2> HIDE DEF to
    <2>3. /\ req' \in [Requests -> Request] /\ \A o \in Requests \ {r} : req'[o] = req[o]
          /\ req'[r].at = to
          /\ to # "answered" => /\ req'[r].kind = req[r].kind /\ req'[r].key = k /\ req'[r].acct = a
      BY <2>1, <2>2, GotoFrame, ReplyFrame DEF SInv
    <2>4. /\ identities' \in [Keys -> Accounts \cup {None}] /\ identities'[k] = a
          /\ \A x \in Keys \ {k} : identities'[x] = identities[x]
      BY <1>2, <2>1, AccountTypes
    <2>5. StageInv(r)'
      BY <1>2, <2>2, <2>3 DEF StageInv, AllKinds
    <2>6. OwnerInv(r)'
      BY <1>1, <1>2, <2>2, <2>3, <2>4 DEF OwnerInv, Made, history
    <2>7. \A o \in Requests : Uncreated(o)' /\ OwnerInv(o)'
      <3>1. \A x \in Keys : identities[x] # None => identities'[x] = identities[x]
        BY <2>1, <2>4
      <3>2. \A o \in Requests : o \notin proven => users[o] = NoRow
        BY DEF SInv, AccountHalf, Uncreated
      <3> QED
        BY <1>1, <2>2, <2>3, <2>6, <3>1, <3>2, OwnersKept DEF history
    <2>8. LinkingNeedsProof'
      <3> SUFFICES ASSUME NEW s \in Subjects \ Vouched, identities'[<<"social", s>>] # None
                   PROVE  LET x == identities'[<<"social", s>>] IN
                          x \in proven /\ ~users[x].password /\ users[x].phone = None
        BY <1>1 DEF LinkingNeedsProof, history
      <3>1. <<"social", s>> \in Keys
        BY DEF Keys
      <3>2. CASE k # <<"social", s>>
        BY <2>4, <3>1, <3>2 DEF SInv, AccountHalf, LinkingNeedsProof
      <3>3. CASE k = <<"social", s>>
        <4>1. req[r].kind = "social" /\ Of(r) = s
          BY <1>2, <3>3, Names DEF Of, AllKinds
        <4> QED
          BY <1>1, <2>4, <3>3, <4>1 DEF OwnerInv
      <3> QED
        BY <3>2, <3>3
    <2>9. EmailsUnique'
      BY <1>1 DEF SInv, AccountHalf, EmailsUnique
    <2>10. AccountHalf'
      BY <2>7, <2>8, <2>9 DEF AccountHalf
    <2> QED
      BY <1>1, <2>2, <2>3, <2>4, <2>5, <2>10, AccountTypes, AccountStep DEF redis, history
  <1> QED
    BY <1>3, <1>4

\* A row that was created changes, but not in whose it is.
LEMMA SameOwners ==
  ASSUME SInv, NEW a \in Accounts, Made(a), NEW row \in Row,
         users' = [users EXCEPT ![a] = row],
         row.password = users[a].password, row.email = users[a].email, row.phone = users[a].phone
  PROVE  /\ users' \in [Accounts -> Row \cup {NoRow}]
         /\ EmailsUnique'
         /\ \A o \in Requests : o \notin proven => users'[o] = NoRow
         /\ \A b \in Accounts : /\ users'[b].password = users[b].password
                                /\ users'[b].email = users[b].email /\ users'[b].phone = users[b].phone
         /\ identities' = identities /\ proven' = proven => LinkingNeedsProof'
  <1>1. /\ users' \in [Accounts -> Row \cup {NoRow}] /\ users'[a] = row
        /\ \A b \in Accounts \ {a} : users'[b] = users[b]
    BY AccountTypes
  <1>2. \A b \in Accounts : /\ users'[b].password = users[b].password
                            /\ users'[b].email = users[b].email /\ users'[b].phone = users[b].phone
    BY <1>1
  <1>3. EmailsUnique'
    BY <1>2 DEF SInv, AccountHalf, EmailsUnique
  <1>4. \A o \in Requests : o \notin proven => users'[o] = NoRow
    BY <1>1, Names DEF SInv, AccountHalf, Uncreated, Made
  <1>5. ASSUME identities' = identities, proven' = proven PROVE LinkingNeedsProof'
    <2> SUFFICES ASSUME NEW s \in Subjects \ Vouched, identities[<<"social", s>>] # None
                 PROVE  LET x == identities[<<"social", s>>] IN
                        x \in proven /\ ~users'[x].password /\ users'[x].phone = None
      BY <1>5 DEF LinkingNeedsProof
    <2>1. LET x == identities[<<"social", s>>] IN
          x \in proven /\ ~users[x].password /\ users[x].phone = None
      BY DEF SInv, AccountHalf, LinkingNeedsProof
    <2> QED
      BY <1>2, <2>1, AccountTypes, Names
  <1> QED
    BY <1>1, <1>2, <1>3, <1>4, <1>5

LEMMA MadeRow ==
  ASSUME SInv, NEW a \in Accounts
  PROVE  users[a] \in Row
  <1>1. NoRow \in Row
    BY DEF NoRow, Row
  <1> QED
    BY <1>1, AccountTypes

LEMMA MarkKeeps == ASSUME SInv, NEW r \in Requests, MarkEmailVerified(r) PROVE SInv'
  <1> DEFINE a == req[r].acct
  <1>1. /\ req[r].at = "marking" /\ StageInv(r) /\ OwnerInv(r) /\ Goto(r, "entering")
        /\ UNCHANGED <<identities, redis, history>>
    BY DEF MarkEmailVerified, At, SInv, AccountHalf
  <1>2. a \in Accounts /\ Made(a) /\ "entering" \in Stage
    BY <1>1 DEF StageInv, OwnerInv, Stage
  <1>3. /\ req' \in [Requests -> Request] /\ \A o \in Requests \ {r} : req'[o] = req[o]
        /\ req'[r].at = "entering" /\ req'[r].kind = req[r].kind /\ req'[r].key = req[r].key
        /\ req'[r].acct = a
    BY <1>1, <1>2, GotoFrame DEF SInv
  <1>4. StageInv(r)'
    BY <1>1, <1>2, <1>3 DEF StageInv
  <1>5. OwnerInv(r)'
    BY <1>1, <1>3 DEF OwnerInv, StageInv
  <1>6. CASE UNCHANGED users
    <2>1. AccountHalf'
      BY <1>1, <1>3, <1>5, <1>6, AccountsUntouched DEF SInv, history
    <2> QED
      BY <1>1, <1>3, <1>4, <1>6, <2>1, AccountTypes, AccountStep DEF redis, history
  <1>7. CASE users' = [users EXCEPT ![a].verified = TRUE]
    <2> DEFINE row == [users[a] EXCEPT !.verified = TRUE]
    <2>1. users' = [users EXCEPT ![a] = row]
      BY <1>7
    <2>2. /\ row \in Row /\ row.password = users[a].password /\ row.email = users[a].email
          /\ row.phone = users[a].phone
      BY <1>2, MadeRow DEF Row
    <2> HIDE DEF row, a
    <2>3. /\ users' \in [Accounts -> Row \cup {NoRow}]
          /\ EmailsUnique' /\ LinkingNeedsProof'
          /\ \A o \in Requests : o \notin proven => users'[o] = NoRow
          /\ \A b \in Accounts : /\ users'[b].password = users[b].password
                                 /\ users'[b].email = users[b].email /\ users'[b].phone = users[b].phone
      BY <1>1, <1>2, <2>1, <2>2, SameOwners DEF history
    <2>4. \A o \in Requests : Uncreated(o)' /\ OwnerInv(o)'
      BY <1>1, <1>3, <1>5, <2>3, OwnersKept DEF history
    <2>5. AccountHalf'
      BY <2>3, <2>4 DEF AccountHalf
    <2> QED
      BY <1>1, <1>3, <1>4, <2>3, <2>5, AccountTypes, AccountStep DEF redis, history
  <1> QED
    BY <1>6, <1>7 DEF MarkEmailVerified

LEMMA SuspendKeeps == ASSUME SInv, NEW a \in Accounts, Suspend(a) PROVE SInv'
  <1>1. Live(a) /\ Made(a) /\ UNCHANGED <<identities, redis, req, history>>
    BY FoundIsMade DEF Suspend
  <1>2. PICK row \in Row : /\ users' = [users EXCEPT ![a] = row]
                           /\ row.password = users[a].password /\ row.email = users[a].email
                           /\ row.phone = users[a].phone
    <2>1. users[a] \in Row
      BY MadeRow
    <2>2. CASE users' = [users EXCEPT ![a].active = FALSE]
      <3> DEFINE row == [users[a] EXCEPT !.active = FALSE]
      <3>1. users' = [users EXCEPT ![a] = row]
        BY <2>2
      <3>2. /\ row \in Row /\ row.password = users[a].password /\ row.email = users[a].email
            /\ row.phone = users[a].phone
        BY <2>1 DEF Row
      <3> HIDE DEF row
      <3> QED
        BY <3>1, <3>2
    <2>3. CASE users' = [users EXCEPT ![a].deleted = TRUE]
      <3> DEFINE row == [users[a] EXCEPT !.deleted = TRUE]
      <3>1. users' = [users EXCEPT ![a] = row]
        BY <2>3
      <3>2. /\ row \in Row /\ row.password = users[a].password /\ row.email = users[a].email
            /\ row.phone = users[a].phone
        BY <2>1 DEF Row
      <3> HIDE DEF row
      <3> QED
        BY <3>1, <3>2
    <2> QED
      BY <2>2, <2>3 DEF Suspend
  <1>3. /\ users' \in [Accounts -> Row \cup {NoRow}]
        /\ EmailsUnique' /\ LinkingNeedsProof'
        /\ \A o \in Requests : o \notin proven => users'[o] = NoRow
        /\ \A b \in Accounts : /\ users'[b].password = users[b].password
                               /\ users'[b].email = users[b].email /\ users'[b].phone = users[b].phone
    BY <1>1, <1>2, SameOwners DEF history
  <1>4. \A o \in Requests : Uncreated(o)'
    BY <1>1, <1>3 DEF SInv, AccountHalf, Uncreated, history
  <1>5. \A o \in Requests : OwnerInv(o)'
    <2> SUFFICES ASSUME NEW o \in Requests PROVE OwnerInv(o)'
      OBVIOUS
    <2>1. OwnerInv(o) /\ StageInv(o) /\ o \in Accounts
      BY Names DEF SInv, AccountHalf
    <2> QED
      BY <1>1, <1>3, <2>1 DEF OwnerInv, StageInv, Made, Of, history
  <1>6. CodeHalf'
    BY <1>1 DEF SInv, CodeHalf, Fresh, OnePlace, Counting, Spending, Checking, Of, CodeSpentOnce,
                GuessesBounded, NoImmortalCode, redis, history
  <1>7. TypeOK'
    BY <1>1, <1>3 DEF SInv, TypeOK, redis, history
  <1> QED
    BY <1>1, <1>3, <1>4, <1>5, <1>6, <1>7 DEF SInv, AccountHalf, StageInv

-----------------------------------------------------------------------------
(* The invariant                                                           *)

LEMMA OnlyTimers ==
  ASSUME SInv, UNCHANGED <<accounts, otp, req, history>>,
         cooldown' \in [Phones -> BOOLEAN], failures' \in [Emails -> Nat]
  PROVE  SInv'
  <1>1. CodeHalf'
    BY DEF SInv, CodeHalf, Fresh, OnePlace, Counting, Spending, Checking, Of, CodeSpentOnce,
           GuessesBounded, NoImmortalCode, history
  <1>2. AccountHalf'
    BY DEF SInv, AccountHalf, Uncreated, OwnerInv, Made, Of, EmailsUnique, LinkingNeedsProof,
           accounts, history
  <1>3. TypeOK'
    BY DEF SInv, TypeOK, accounts, history
  <1> QED
    BY <1>1, <1>2, <1>3 DEF SInv, StageInv

LEMMA Stutters == ASSUME SInv, UNCHANGED vars PROVE SInv'
  BY OnlyTimers, Kept DEF vars, redis

LEMMA Step == SInv /\ [Next]_vars => SInv'
  <1> SUFFICES ASSUME SInv, [Next]_vars PROVE SInv'
    OBVIOUS
  <1>1. CASE UNCHANGED vars
    BY <1>1, Stutters
  <1>2. ASSUME NEW r \in Requests, Handle(r) PROVE SInv'
    BY <1>2, ArriveKeeps, CoolingKeeps, StoreKeeps, SendKeeps, ReadKeeps, CountKeeps, BurnKeeps,
       MismatchKeeps, ConsumeKeeps, FindIdentityKeeps, LoadKeeps, ByPhoneKeeps, ByEmailKeeps,
       CreateKeeps, LinkKeeps, MarkKeeps, EnterKeeps, AvailableKeeps, AllowKeeps, FindLoginKeeps,
       ResetKeeps, FailKeeps DEF Handle
  <1>3. ASSUME NEW p \in Phones, ExpireCode(p) PROVE SInv'
    BY <1>3, ExpireCodeKeeps
  <1>4. ASSUME NEW p \in Phones, ExpireCooldown(p) PROVE SInv'
    BY <1>4, OnlyTimers, Kept DEF ExpireCooldown
  <1>5. ASSUME NEW e \in Emails, ExpireLogins(e) PROVE SInv'
    BY <1>5, OnlyTimers, Kept DEF ExpireLogins
  <1>6. ASSUME NEW a \in Accounts, Suspend(a) PROVE SInv'
    BY <1>6, SuspendKeeps
  <1> QED
    BY <1>1, <1>2, <1>3, <1>4, <1>5, <1>6 DEF Next

LEMMA Start0 == Init => SInv
  <1> SUFFICES ASSUME Init PROVE SInv
    OBVIOUS
  <1>1. PICK phone \in Phones \cup {None}, email \in Emails \cup {None} :
          users = [a \in Accounts |->
                     IF a = Office /\ <<phone, email>> # <<None, None>>
                     THEN [phone |-> phone, email |-> email, password |-> email # None,
                           verified |-> FALSE, active |-> TRUE, deleted |-> FALSE]
                     ELSE NoRow]
    BY DEF Init
  <1>2. PICK sent \in BOOLEAN :
          /\ otp = [p \in Phones |-> IF sent THEN [code |-> p, attempts |-> 0, expires |-> TRUE]
                                            ELSE NoCode]
          /\ cooldown = [p \in Phones |-> sent]
    BY DEF Init
  <1>3. /\ identities = [k \in Keys |-> None] /\ failures = [e \in Emails |-> 0]
        /\ req = [r \in Requests |-> NoRequest] /\ entered = {} /\ crowded = {} /\ proven = {}
        /\ spends = [c \in Codes |-> 0] /\ guesses = [c \in Codes |-> 0]
    BY DEF Init
  <1>4. NoRequest \in Request /\ NoRequest.at = "idle"
    BY DEF NoRequest, Request, Stage
  <1>5. /\ users \in [Accounts -> Row \cup {NoRow}]
        /\ \A a \in Accounts \ {Office} : users[a] = NoRow
    <2> DEFINE row == [phone |-> phone, email |-> email, password |-> email # None,
                       verified |-> FALSE, active |-> TRUE, deleted |-> FALSE]
    <2>1. row \in Row
      BY DEF Row
    <2> HIDE DEF row
    <2>2. users = [a \in Accounts |-> IF a = Office /\ <<phone, email>> # <<None, None>>
                                      THEN row ELSE NoRow]
      BY <1>1 DEF row
    <2> QED
      BY <2>1, <2>2
  <1>6. /\ otp \in [Phones -> Pending] /\ cooldown \in [Phones -> BOOLEAN]
        /\ \A p \in Phones : otp[p].code \in {p, None} /\ otp[p].expires /\ otp[p].attempts = 0
    <2>1. NoCode \in Pending /\ NoCode.code = None /\ NoCode.expires /\ NoCode.attempts = 0
      BY DEF NoCode, Pending
    <2>2. \A p \in Phones : [code |-> p, attempts |-> 0, expires |-> TRUE] \in Pending
      BY DEF Pending, Codes
    <2> QED
      BY <1>2, <2>1, <2>2
  <1>7. TypeOK
    BY <1>3, <1>4, <1>5, <1>6 DEF TypeOK
  <1>8. \A r \in Requests : req[r].at = "idle"
    BY <1>3, <1>4
  <1>9. \A r \in Requests : StageInv(r) /\ OwnerInv(r)
    BY <1>8 DEF StageInv, OwnerInv
  <1>10. CodeHalf
    <2>1. \A r \in Requests : \A x : ~Checking(r, x)
      BY <1>8 DEF Checking
    <2>2. \A r \in Requests : Fresh(r)
      BY <1>3, <1>6, <2>1, Names DEF Fresh
    <2>3. OnePlace /\ Counting /\ Spending
      BY <1>3, <1>6, <2>1, Names DEF OnePlace, Counting, Spending, Codes
    <2>4. CodeSpentOnce /\ GuessesBounded /\ NoImmortalCode
      BY <1>3, <1>6, SignInConfig DEF CodeSpentOnce, GuessesBounded, NoImmortalCode
    <2> QED
      BY <2>2, <2>3, <2>4 DEF CodeHalf
  <1>11. AccountHalf
    <2>1. \A r \in Requests : Uncreated(r)
      BY <1>3, <1>5, Names DEF Uncreated
    <2>2. EmailsUnique
      <3> SUFFICES ASSUME NEW a \in Accounts, NEW b \in Accounts, a # b, users[a].email # None
                   PROVE  users[a].email # users[b].email
        BY DEF EmailsUnique
      <3>1. users[b] = NoRow
        BY <1>5 DEF NoRow
      <3> QED
        BY <3>1 DEF NoRow
    <2>3. LinkingNeedsProof
      BY <1>3 DEF LinkingNeedsProof, Keys
    <2> QED
      BY <1>9, <2>1, <2>2, <2>3 DEF AccountHalf
  <1> QED
    BY <1>7, <1>9, <1>10, <1>11 DEF SInv

LEMMA Correct == Spec => []SInv
  BY Start0, Step, PTL DEF Spec

-----------------------------------------------------------------------------
(* What follows from it                                                    *)

\* Every table, key and request keeps its shape (the rows of users and
\* user_identities, the hashes of otp.Store and of the limiter).
THEOREM TypeCorrect == Spec => []TypeOK
  <1>1. SInv => TypeOK
    BY DEF SInv
  <1> QED
    BY <1>1, Correct, PTL

\* Store.Verify accepts a code once, unless two requests check it at once.
THEOREM CodesSpentOnce == Spec => []CodeSpentOnce
  <1>1. SInv => CodeSpentOnce
    BY DEF SInv, CodeHalf
  <1> QED
    BY <1>1, Correct, PTL

\* However many requests guess at once, Store.Verify compares a code with no
\* more guesses than its limit.
THEOREM GuessesAreBounded == Spec => []GuessesBounded
  <1>1. SInv => GuessesBounded
    BY DEF SInv, CodeHalf
  <1> QED
    BY <1>1, Correct, PTL

\* The counter HINCRBY leaves behind when the code expired meanwhile never
\* holds a code.
THEOREM CodesExpire == Spec => []NoImmortalCode
  <1>1. SInv => NoImmortalCode
    BY DEF SInv, CodeHalf
  <1> QED
    BY <1>1, Correct, PTL

\* A provider's subject with an unvouched address only ever opens the account
\* it created (resolveSocialUser).
THEOREM LinkingProven == Spec => []LinkingNeedsProof
  <1>1. SInv => LinkingNeedsProof
    BY DEF SInv, AccountHalf
  <1> QED
    BY <1>1, Correct, PTL

\* Two accounts never have one address, deleted ones included.
THEOREM AddressesAreUnique == Spec => []EmailsUnique
  <1>1. SInv => EmailsUnique
    BY DEF SInv, AccountHalf
  <1> QED
    BY <1>1, Correct, PTL

-----------------------------------------------------------------------------
(* Refinement: the tables, read as the owner of each key                   *)

LEMMA Holder ==
  ASSUME NEW us, NEW e, e # None,
         \A a, b \in Accounts : a # b /\ us[a].email # None => us[a].email # us[b].email
  PROVE  LET held == {a \in Accounts : us[a].password /\ us[a].email = e}
             who == IF held = {} THEN None ELSE CHOOSE a \in held : TRUE
         IN  /\ \A a \in Accounts : us[a].password /\ us[a].email = e => who = a
             /\ (\A a \in Accounts : ~(us[a].password /\ us[a].email = e)) => who = None
  <1> DEFINE held == {a \in Accounts : us[a].password /\ us[a].email = e}
             who == IF held = {} THEN None ELSE CHOOSE a \in held : TRUE
  <1>1. ASSUME NEW a \in held PROVE who = a
    <2>1. who \in held
      BY <1>1
    <2> QED
      BY <1>1, <2>1
  <1>2. held = {} => who = None
    OBVIOUS
  <1> QED
    BY <1>1, <1>2

LEMMA PasswordKey ==
  ASSUME NEW k \in Keys, k[1] = "password"
  PROVE  k[2] \in Emails /\ k[2] # None
  BY SignInConfig DEF Keys

LEMMA OwnerNow ==
  ASSUME EmailsUnique, NEW k \in Keys
  PROVE  /\ k[1] # "password" => Owner[k] = identities[k]
         /\ k[1] = "password" =>
              /\ \A a \in Accounts : users[a].password /\ users[a].email = k[2] => Owner[k] = a
              /\ (\A a \in Accounts : ~(users[a].password /\ users[a].email = k[2])) => Owner[k] = None
  <1>1. CASE k[1] # "password"
    BY <1>1 DEF Owner
  <1>2. CASE k[1] = "password"
    BY <1>2, PasswordKey, Holder DEF Owner, EmailsUnique
  <1> QED
    BY <1>1, <1>2

LEMMA OwnerNext ==
  ASSUME EmailsUnique', NEW k \in Keys
  PROVE  /\ k[1] # "password" => Owner'[k] = identities'[k]
         /\ k[1] = "password" =>
              /\ \A a \in Accounts : users'[a].password /\ users'[a].email = k[2] => Owner'[k] = a
              /\ (\A a \in Accounts : ~(users'[a].password /\ users'[a].email = k[2])) => Owner'[k] = None
  <1>1. CASE k[1] # "password"
    BY <1>1 DEF Owner
  <1>2. CASE k[1] = "password"
    BY <1>2, PasswordKey, Holder DEF Owner, EmailsUnique
  <1> QED
    BY <1>1, <1>2

LEMMA KeyStays ==
  ASSUME EmailsUnique, EmailsUnique', NEW k \in Keys,
         k[1] # "password" => identities'[k] = identities[k],
         k[1] = "password" => \A a \in Accounts :
           (users'[a].password /\ users'[a].email = k[2]) <=> (users[a].password /\ users[a].email = k[2])
  PROVE  Owner'[k] = Owner[k]
  <1>1. CASE k[1] # "password"
    BY <1>1, OwnerNow, OwnerNext
  <1>2. CASE k[1] = "password"
    <2>1. CASE \E a \in Accounts : users[a].password /\ users[a].email = k[2]
      <3>1. PICK a \in Accounts : users[a].password /\ users[a].email = k[2]
        BY <2>1
      <3>2. Owner[k] = a
        BY <1>2, <3>1, OwnerNow
      <3>3. Owner'[k] = a
        BY <1>2, <3>1, OwnerNext
      <3> QED
        BY <3>2, <3>3
    <2>2. CASE \A a \in Accounts : ~(users[a].password /\ users[a].email = k[2])
      BY <1>2, <2>2, OwnerNow, OwnerNext
    <2> QED
      BY <2>1, <2>2
  <1> QED
    BY <1>1, <1>2

LEMMA OwnerIsFunction == Owner = [k \in Keys |-> Owner[k]] /\ Owner' = [k \in Keys |-> Owner'[k]]
  BY DEF Owner

LEMMA SameOwner ==
  ASSUME SInv, SInv', identities' = identities,
         \A a \in Accounts : users'[a].password = users[a].password /\ users'[a].email = users[a].email
  PROVE  Owner' = Owner
  <1>1. \A k \in Keys : Owner'[k] = Owner[k]
    BY KeyStays DEF SInv, AccountHalf
  <1> QED
    BY <1>1, OwnerIsFunction

\* A key that had no owner gets one, the others keep theirs.
LEMMA Claims ==
  ASSUME NEW k \in Keys, NEW a \in Accounts, Owner[k] = None, Owner'[k] = a,
         \A x \in Keys \ {k} : Owner'[x] = Owner[x], entered' = entered
  PROVE  Abs!ANext
  <1>1. Owner' = [Owner EXCEPT ![k] = a]
    BY OwnerIsFunction
  <1> QED
    BY <1>1 DEF Abs!ANext, Abs!Claim

LEMMA CreateClaims ==
  ASSUME SInv, SInv', NEW r \in Requests, CreateAccount(r)
  PROVE  [Abs!ANext]_Abs!avars
  <1>1. /\ req[r].at = "creating" /\ StageInv(r) /\ r \notin proven /\ users[r] = NoRow
        /\ UNCHANGED <<identities, entered>>
    BY DEF CreateAccount, At, SInv, AccountHalf, Uncreated
  <1>2. CASE ~Unique(NewRow(r))
    BY <1>1, <1>2, SameOwner DEF CreateAccount, Abs!avars
  <1>3. CASE Unique(NewRow(r))
    <2> DEFINE k == req[r].key
    <2>1. /\ users' = [users EXCEPT ![r] = NewRow(r)] /\ k \in Keys /\ r \in Accounts
          /\ req[r].kind \in {"verify", "social", "register"} /\ k \in Via(req[r].kind)
      BY <1>1, <1>3, Names DEF CreateAccount, StageInv
    <2>2. /\ users'[r] = NewRow(r) /\ \A a \in Accounts \ {r} : users'[a] = users[a]
      BY <2>1, AccountTypes
    <2>3. ~users[r].password
      BY <1>1 DEF NoRow
    <2>4. ASSUME NEW x \in Keys, x # k \/ ~NewRow(r).password PROVE Owner'[x] = Owner[x]
      <3>1. x[1] = "password" => ~(NewRow(r).password /\ NewRow(r).email = x[2])
        <4> SUFFICES ASSUME x[1] = "password", NewRow(r).password, NewRow(r).email = x[2] PROVE FALSE
          OBVIOUS
        <4>1. k[1] = "password" /\ k[2] = x[2]
          BY <1>1, NewRowFields
        <4>2. x = k
          BY <2>1, <4>1 DEF Keys
        <4> QED
          BY <2>4, <4>2
      <3> QED
        BY <1>1, <2>2, <2>3, <3>1, KeyStays DEF SInv, AccountHalf
    <2>5. CASE ~NewRow(r).password
      <3>1. Owner' = Owner
        BY <2>4, <2>5, OwnerIsFunction
      <3> QED
        BY <1>1, <3>1 DEF Abs!avars
    <2>6. CASE NewRow(r).password
      <3>1. k[1] = "password" /\ NewRow(r).email = k[2]
        BY <1>1, <2>6, NewRowFields
      <3>2. \A a \in Accounts : ~(users[a].password /\ users[a].email = k[2])
        <4> SUFFICES ASSUME NEW a \in Accounts, users[a].password, users[a].email = k[2] PROVE FALSE
          OBVIOUS
        <4>1. Exists(a)
          BY DEF Exists, NoRow
        <4> QED
          BY <1>3, <2>1, <3>1, <4>1, PasswordKey DEF Unique
      <3>3. Owner[k] = None /\ Owner'[k] = r
        BY <2>1, <2>2, <2>6, <3>1, <3>2, OwnerNow, OwnerNext DEF SInv, AccountHalf
      <3> QED
        BY <1>1, <2>1, <2>4, <3>3, Claims
    <2> QED
      BY <2>5, <2>6
  <1> QED
    BY <1>2, <1>3

LEMMA LinkClaims ==
  ASSUME SInv, SInv', NEW r \in Requests, Link(r)
  PROVE  [Abs!ANext]_Abs!avars
  <1> DEFINE k == req[r].key
             a == req[r].acct
  <1>1. /\ req[r].at = "linking" /\ StageInv(r) /\ users' = users /\ entered' = entered
    BY DEF Link, At, SInv, history
  <1>2. k \in Keys /\ a \in Accounts
    BY <1>1, Names DEF StageInv, AllKinds
  <1>3. CASE ~Linkable(k)
    BY <1>1, <1>3, SameOwner DEF Link, Abs!avars
  <1>4. CASE Linkable(k)
    <2>1. /\ identities[k] = None /\ identities'[k] = a
          /\ \A x \in Keys \ {k} : identities'[x] = identities[x]
      BY <1>2, <1>4, AccountTypes DEF Link, Linkable
    <2>2. \A x \in Keys : x # k \/ k[1] = "password" => Owner'[x] = Owner[x]
      BY <1>1, <2>1, KeyStays DEF SInv, AccountHalf
    <2>3. CASE k[1] = "password"
      <3>1. Owner' = Owner
        BY <2>2, <2>3, OwnerIsFunction
      <3> QED
        BY <1>1, <3>1 DEF Abs!avars
    <2>4. CASE k[1] # "password"
      <3>1. Owner[k] = None /\ Owner'[k] = a
        BY <1>2, <2>1, <2>4, OwnerNow, OwnerNext DEF SInv, AccountHalf
      <3> QED
        BY <1>1, <1>2, <2>2, <3>1, Claims
    <2> QED
      BY <2>3, <2>4
  <1> QED
    BY <1>3, <1>4

LEMMA EnterEnters ==
  ASSUME SInv, SInv', NEW r \in Requests, IssueSession(r)
  PROVE  [Abs!ANext]_Abs!avars
  <1> DEFINE k == req[r].key
             a == req[r].acct
  <1>1. /\ req[r].at = "entering" /\ StageInv(r) /\ OwnerInv(r) /\ UNCHANGED <<users, identities>>
        /\ entered' \in {entered \cup {<<k, a>>}, entered}
    BY DEF IssueSession, At, SInv, AccountHalf, accounts
  <1>2. k \in Keys /\ a \in Accounts /\ a # None
    BY <1>1, Names DEF StageInv
  <1>3. Owner' = Owner
    BY <1>1, SameOwner
  <1>4. Owner[k] = a
    <2>1. CASE req[r].kind = "login"
      <3>1. k[1] = "password" /\ users[a].password /\ users[a].email = k[2]
        BY <1>1, <2>1, Names DEF StageInv, OwnerInv, Of
      <3> QED
        BY <1>2, <3>1, OwnerNow DEF SInv, AccountHalf
    <2>2. CASE req[r].kind # "login"
      <3>1. k[1] # "password" /\ identities[k] = a
        BY <1>1, <2>2, Names DEF StageInv, OwnerInv
      <3> QED
        BY <1>2, <3>1, OwnerNow DEF SInv, AccountHalf
    <2> QED
      BY <2>1, <2>2
  <1> QED
    BY <1>1, <1>2, <1>3, <1>4 DEF Abs!ANext, Abs!Enter, Abs!avars

\* Verifying an address, blocking and deleting leave an account its owner.
LEMMA SameWho ==
  ASSUME SInv, NEW c \in Accounts,
         \/ users' = users
         \/ users' = [users EXCEPT ![c].verified = TRUE]
         \/ users' = [users EXCEPT ![c].active = FALSE]
         \/ users' = [users EXCEPT ![c].deleted = TRUE]
  PROVE  \A a \in Accounts : users'[a].password = users[a].password /\ users'[a].email = users[a].email
  <1>1. users[c] \in Row
    BY MadeRow
  <1>2. ASSUME NEW row, users' = [users EXCEPT ![c] = row],
               row.password = users[c].password, row.email = users[c].email
        PROVE  \A a \in Accounts : users'[a].password = users[a].password /\ users'[a].email = users[a].email
    BY <1>2, AccountTypes
  <1>3. CASE users' = [users EXCEPT ![c].verified = TRUE]
    <2>1. users' = [users EXCEPT ![c] = [users[c] EXCEPT !.verified = TRUE]]
      BY <1>3
    <2>2. /\ [users[c] EXCEPT !.verified = TRUE].password = users[c].password
          /\ [users[c] EXCEPT !.verified = TRUE].email = users[c].email
      BY <1>1 DEF Row
    <2> QED
      BY <1>2, <2>1, <2>2
  <1>4. CASE users' = [users EXCEPT ![c].active = FALSE]
    <2>1. users' = [users EXCEPT ![c] = [users[c] EXCEPT !.active = FALSE]]
      BY <1>4
    <2>2. /\ [users[c] EXCEPT !.active = FALSE].password = users[c].password
          /\ [users[c] EXCEPT !.active = FALSE].email = users[c].email
      BY <1>1 DEF Row
    <2> QED
      BY <1>2, <2>1, <2>2
  <1>5. CASE users' = [users EXCEPT ![c].deleted = TRUE]
    <2>1. users' = [users EXCEPT ![c] = [users[c] EXCEPT !.deleted = TRUE]]
      BY <1>5
    <2>2. /\ [users[c] EXCEPT !.deleted = TRUE].password = users[c].password
          /\ [users[c] EXCEPT !.deleted = TRUE].email = users[c].email
      BY <1>1 DEF Row
    <2> QED
      BY <1>2, <2>1, <2>2
  <1> QED
    BY <1>3, <1>4, <1>5

LEMMA OwnersStart == Init => Abs!AInit
  <1> SUFFICES ASSUME Init PROVE Abs!AInit
    OBVIOUS
  <1>1. SInv
    BY Start0
  <1>2. \A k \in Keys : Owner[k] \in Accounts \cup {None}
    <2> SUFFICES ASSUME NEW k \in Keys PROVE Owner[k] \in Accounts \cup {None}
      OBVIOUS
    <2>1. CASE k[1] # "password"
      BY <1>1, <2>1, OwnerNow, AccountTypes DEF SInv, AccountHalf
    <2>2. CASE k[1] = "password"
      BY <1>1, <2>2, OwnerNow DEF SInv, AccountHalf
    <2> QED
      BY <2>1, <2>2
  <1> QED
    BY <1>2, OwnerIsFunction DEF Abs!AInit, Init

LEMMA OwnersStep == SInv /\ SInv' /\ [Next]_vars => [Abs!ANext]_Abs!avars
  <1> SUFFICES ASSUME SInv, SInv', [Next]_vars PROVE [Abs!ANext]_Abs!avars
    OBVIOUS
  <1>1. ASSUME users' = users, identities' = identities, entered' = entered
        PROVE  UNCHANGED Abs!avars
    BY <1>1, SameOwner DEF Abs!avars
  <1>2. CASE UNCHANGED vars
    BY <1>1, <1>2 DEF vars, accounts, history
  <1>3. ASSUME NEW r \in Requests, Handle(r) PROVE [Abs!ANext]_Abs!avars
    <2>1. CASE CreateAccount(r)
      BY <2>1, CreateClaims
    <2>2. CASE Link(r)
      BY <2>2, LinkClaims
    <2>3. CASE IssueSession(r)
      BY <2>3, EnterEnters
    <2>4. CASE MarkEmailVerified(r)
      <3>1. /\ req[r].acct \in Accounts /\ Made(req[r].acct) /\ identities' = identities
            /\ entered' = entered
        BY <2>4 DEF MarkEmailVerified, At, SInv, StageInv, AccountHalf, OwnerInv, history
      <3>2. \A a \in Accounts : users'[a].password = users[a].password /\ users'[a].email = users[a].email
        BY <2>4, <3>1, SameWho DEF MarkEmailVerified
      <3> QED
        BY <3>1, <3>2, SameOwner DEF Abs!avars
    <2>5. CASE \/ Arrive(r) \/ CheckCooldown(r) \/ StoreCode(r) \/ SendCode(r) \/ ReadCode(r)
               \/ CountAttempt(r) \/ Burn(r) \/ Mismatch(r) \/ Consume(r)
      BY <1>1, <2>5 DEF Arrive, CheckCooldown, StoreCode, SendCode, ReadCode, CountAttempt, Burn,
         Mismatch, Consume, accounts, history
    <2>6. CASE \/ FindIdentity(r) \/ LoadAccount(r) \/ FindByPhone(r) \/ FindByEmail(r)
               \/ CheckAvailable(r) \/ AllowLogin(r) \/ FindLogin(r) \/ ResetLogins(r) \/ Fail(r)
      BY <1>1, <2>6 DEF FindIdentity, LoadAccount, FindByPhone, FindByEmail, CheckAvailable,
         AllowLogin, FindLogin, ResetLogins, Fail, accounts, history
    <2> QED
      BY <1>3, <2>1, <2>2, <2>3, <2>4, <2>5, <2>6 DEF Handle
  <1>4. ASSUME NEW p \in Phones, ExpireCode(p) \/ ExpireCooldown(p) PROVE [Abs!ANext]_Abs!avars
    BY <1>1, <1>4 DEF ExpireCode, ExpireCooldown, accounts, history
  <1>5. ASSUME NEW e \in Emails, ExpireLogins(e) PROVE [Abs!ANext]_Abs!avars
    BY <1>1, <1>5 DEF ExpireLogins, accounts, history
  <1>6. ASSUME NEW a \in Accounts, Suspend(a) PROVE [Abs!ANext]_Abs!avars
    <2>1. \A b \in Accounts : users'[b].password = users[b].password /\ users'[b].email = users[b].email
      BY <1>6, SameWho DEF Suspend
    <2> QED
      BY <1>6, <2>1, SameOwner DEF Suspend, history, Abs!avars
  <1> QED
    BY <1>2, <1>3, <1>4, <1>5, <1>6 DEF Next

\* The tables implement the promise: a key belongs to the first account that
\* gets it, for ever, and whoever proves the key enters that account.
THEOREM OneAccount == Spec => OneAccountPerKey
  <1>1. Spec => []SInv
    BY Correct
  <1>2. Init => Abs!AInit
    BY OwnersStart
  <1>3. SInv /\ SInv' /\ [Next]_vars => [Abs!ANext]_Abs!avars
    BY OwnersStep
  <1> QED
    BY <1>1, <1>2, <1>3, PTL DEF Spec, OneAccountPerKey, Abs!ASpec
=============================================================================
