----------------------------- MODULE Broadcast -----------------------------
(***************************************************************************)
(* A broadcast from the back office, the registrations it reaches, and the *)
(* push adapter it reaches them through.                                   *)
(*                                                                         *)
(*   send     new -> resolving -> inserting -> loading -> granting ->      *)
(*            queueing -> pruning -> recording -> answered                 *)
(*   worker   idle -> queued -> waiting -> posting -> done                 *)
(*                                                                         *)
(* The inbox is one transaction; the push, the pruning of registrations    *)
(* and the entry of the history come after it, each on its own.  A send    *)
(* and its workers are goroutines that share one access token behind a     *)
(* mutex, which the one that finds the token stale holds while it mints.   *)
(***************************************************************************)
EXTENDS Integers, FiniteSets, FiniteSetsExt

CONSTANTS
  Users, Devices, Sends,
  Oversized,      \* sends whose text passes the checks and not FCM's limit
  MaxRecipients,  \* maxRecipients
  BatchSize,      \* insertBatchSize
  Concurrency,    \* FCM.concurrency
  AtStart,        \* bound: for whom each device is registered when a run starts
  Restless        \* bound: devices whose registration changes during a run

VARIABLES
  holder,     \* device_tokens.user_id of a token, None when there is no row
  signedOut,  \* the rows with deleted_at set
  inbox,      \* who has the message of a send, once committed
  history,    \* the rows of notification_broadcasts
  send,
  worker,     \* one goroutine per send and device
  fresh,      \* the cached access token is good
  minting,    \* who holds FCM.mu across an exchange
  gone,       \* installations that no longer exist (the world outside)
  reached,    \* devices FCM accepted a message of a send for (outside)
  signedIn    \* who the app last registered a device for (history variable)

registry == <<holder, signedOut, gone, signedIn>>
fcm      == <<worker, fresh, minting, reached>>
vars     == <<registry, inbox, history, send, fcm>>

None == "none"

ASSUME BroadcastConfig ==
  /\ MaxRecipients \in Nat \ {0}
  /\ BatchSize \in Nat \ {0}
  /\ Concurrency \in Nat \ {0}
  /\ Oversized \subseteq Sends
  /\ Restless \subseteq Devices
  /\ AtStart \in [Devices -> Users \cup {None}]
  /\ None \notin Users \cup Devices
  /\ IsFiniteSet(Users) /\ IsFiniteSet(Devices)

Stage == {"new", "resolving", "inserting", "loading", "granting", "queueing",
          "pruning", "recording", "answered", "crashed"}
WorkerStage == {"idle", "queued", "waiting", "posting", "done"}
Entry == [saved: Nat, devices: Nat, sent: Nat, failed: Nat, error: BOOLEAN]

\* A send as the handler's goroutine knows it.  due is a history variable: who
\* matched the audience, however much of it the query returned.
Sending == [at: Stage, push: BOOLEAN, cancelled: BOOLEAN, due: SUBSET Users,
            recipients: SUBSET Users, written: SUBSET Users,
            devices: SUBSET Devices, sent: Nat, failed: Nat,
            invalid: SUBSET Devices, fatal: BOOLEAN, error: BOOLEAN,
            answer: {None, "sent", "refused", "failed"}]

Unsent == [at |-> "new", push |-> FALSE, cancelled |-> FALSE, due |-> {},
           recipients |-> {}, written |-> {}, devices |-> {}, sent |-> 0,
           failed |-> 0, invalid |-> {}, fatal |-> FALSE, error |-> FALSE,
           answer |-> None]

NoEntry == [saved |-> 0, devices |-> 0, sent |-> 0, failed |-> 0, error |-> FALSE]

Underway(b) == send[b].at \notin {"new", "answered", "crashed"}
Running(b) == {t \in Devices : worker[b][t] \in {"waiting", "posting"}}
Queued(b) == {t \in Devices : worker[b][t] = "queued"}

\* Whoever asks for the access token: the send itself, or one of its workers.
Callers == Sends \X (Devices \cup {None})
Waiting(c) == IF c[2] = None THEN send[c[1]].at = "granting"
                             ELSE worker[c[1]][c[2]] = "waiting"

Init ==
  /\ holder = AtStart
  /\ signedOut = {}
  /\ signedIn = AtStart
  /\ gone = {}
  /\ inbox = [b \in Sends |-> {}]
  /\ history = [b \in Sends |-> NoEntry]
  /\ send = [b \in Sends |-> Unsent]
  /\ worker = [b \in Sends |-> [t \in Devices |-> "idle"]]
  /\ fresh = FALSE
  /\ minting = {}
  /\ reached = [b \in Sends |-> {}]

-----------------------------------------------------------------------------
(* Registrations *)

\* Mutant of Revived: deleted_at is not among the columns the upsert assigns.
Revived_Not(t) == signedOut

\* The upsert on the token clears deleted_at.
Revived(t) == signedOut \ {t}

\* The app registers on every launch, for the account that is signed in.
Register(u, t) ==
  /\ t \in Restless \ gone
  /\ holder' = [holder EXCEPT ![t] = u]
  /\ signedOut' = Revived(t)
  /\ signedIn' = [signedIn EXCEPT ![t] = u]
  /\ UNCHANGED <<gone, inbox, history, send, fcm>>

\* WHERE user_id = ? AND token = ?, on rows that are not deleted.
Unregistrable(u, t) == holder[t] = u /\ t \notin signedOut

\* Sign-out; no row is answered like success.  It withdraws the word of the
\* account that sends it and of no other.
Unregister(u, t) ==
  /\ t \in Restless \ gone
  /\ signedOut' = IF Unregistrable(u, t) THEN signedOut \cup {t} ELSE signedOut
  /\ signedIn' = [signedIn EXCEPT ![t] = IF @ = u THEN None ELSE @]
  /\ UNCHANGED <<holder, gone, inbox, history, send, fcm>>

\* The app is removed from the device, and nothing tells the server.
Uninstall(t) ==
  /\ t \in Restless \ gone
  /\ gone' = gone \cup {t}
  /\ UNCHANGED <<holder, signedOut, signedIn, inbox, history, send, fcm>>

-----------------------------------------------------------------------------
(* Service.Send, up to the commit of the inbox *)

Submit(b) ==
  /\ send[b].at = "new"
  /\ \E push \in BOOLEAN :
       send' = [send EXCEPT ![b].at = "resolving", ![b].push = push]
  /\ UNCHANGED <<registry, inbox, history, fcm>>

\* Mutant of Page: without the one past the cap.
Page_Capped(matched) ==
  {s \in SUBSET matched :
     Cardinality(s) = Min({Cardinality(matched), MaxRecipients})}

\* What LIMIT maxRecipients+1 may return of the accounts that match.
Page(matched) ==
  {s \in SUBSET matched :
     Cardinality(s) = Min({Cardinality(matched), MaxRecipients + 1})}

\* Any set of accounts can match: the audience is the operator's, and the
\* status of an account is another module's.
Resolve(b) ==
  /\ send[b].at = "resolving"
  /\ ~send[b].cancelled
  /\ \E matched \in SUBSET Users : \E s \in Page(matched) :
       send' = [send EXCEPT ![b] = IF s = {} \/ Cardinality(s) > MaxRecipients
         THEN [@ EXCEPT !.at = "answered", !.due = matched, !.answer = "refused"]
         ELSE [@ EXCEPT !.at = "inserting", !.due = matched, !.recipients = s]]
  /\ UNCHANGED <<registry, inbox, history, fcm>>

\* One INSERT of CreateInBatches, inside its transaction.
InsertBatch(b) ==
  LET rest == send[b].recipients \ send[b].written IN
  /\ send[b].at = "inserting"
  /\ ~send[b].cancelled
  /\ rest # {}
  /\ \E batch \in SUBSET rest :
       /\ Cardinality(batch) = Min({Cardinality(rest), BatchSize})
       /\ send' = [send EXCEPT ![b].written = @ \cup batch]
  /\ UNCHANGED <<registry, inbox, history, fcm>>

\* COMMIT; its answer may be lost on the way back.
Commit(b) ==
  /\ send[b].at = "inserting"
  /\ send[b].written = send[b].recipients
  /\ ~send[b].cancelled
  /\ inbox' = [inbox EXCEPT ![b] = send[b].written]
  /\ \/ send' = [send EXCEPT ![b].at = IF send[b].push THEN "loading" ELSE "recording"]
     \/ send' = [send EXCEPT ![b].at = "answered", ![b].answer = "failed"]
  /\ UNCHANGED <<registry, history, fcm>>

\* A statement fails, or the client is gone: nothing was committed.
FailEarly(b) ==
  /\ send[b].at \in {"resolving", "inserting"}
  /\ send' = [send EXCEPT ![b].at = "answered", ![b].answer = "failed"]
  /\ UNCHANGED <<registry, inbox, history, fcm>>

-----------------------------------------------------------------------------
(* deliver and FCM.Send *)

Listed(t) == holder[t] # None /\ t \notin signedOut

\* TokensFor the recipients; what goes wrong is written into the result.
LoadDevices(b) ==
  LET found == {t \in Devices : Listed(t) /\ holder[t] \in send[b].recipients} IN
  /\ send[b].at = "loading"
  /\ \/ /\ ~send[b].cancelled
        /\ send' = [send EXCEPT ![b].devices = found,
                      ![b].at = IF found = {} THEN "recording" ELSE "granting"]
     \/ send' = [send EXCEPT ![b].at = "recording", ![b].error = TRUE]
  /\ UNCHANGED <<registry, inbox, history, fcm>>

\* Mutant of Classify: an unknown registration is a device that had a problem.
Classify_KeepsGone(a) ==
  CASE a \in {"denied"} -> "auth" [] a \in {"ok"} -> "sent" [] OTHER -> "other"

\* classify: drop the registration, fix the credentials, or neither.
Classify(a) ==
  CASE a = "ok" -> "sent"
    [] a \in {"unregistered", "invalid_argument"} -> "gone"
    [] a = "denied" -> "auth"
    [] OTHER -> "other"

\* Mutant of Tally: a registration that is gone is not counted.
Tally_SkipsGone(q, t, verdict) ==
  [q EXCEPT !.sent    = @ + IF verdict = "sent" THEN 1 ELSE 0,
            !.failed  = @ + IF verdict \in {"auth", "other"} THEN 1 ELSE 0,
            !.invalid = @ \cup IF verdict = "gone" THEN {t} ELSE {},
            !.fatal   = @ \/ verdict = "auth"]

\* The report, one worker at a time under its own mutex.
Tally(q, t, verdict) ==
  [q EXCEPT !.sent    = @ + IF verdict = "sent" THEN 1 ELSE 0,
            !.failed  = @ + IF verdict = "sent" THEN 0 ELSE 1,
            !.invalid = @ \cup IF verdict = "gone" THEN {t} ELSE {},
            !.fatal   = @ \/ verdict = "auth"]

\* The caller gets the token: the send queues its messages, a worker posts.
Granted(c) ==
  LET b == c[1] t == c[2] IN
  IF t = None
  THEN /\ send' = [send EXCEPT ![b].at = "queueing"]
       /\ worker' = [worker EXCEPT ![b] =
            [d \in Devices |-> IF d \in send[b].devices THEN "queued" ELSE "idle"]]
  ELSE /\ worker' = [worker EXCEPT ![b][t] = "posting"]
       /\ UNCHANGED send

Denied(c, verdict) ==
  LET b == c[1] t == c[2] IN
  IF t = None
  THEN /\ send' = [send EXCEPT ![b].at = "recording", ![b].error = TRUE]
       /\ UNCHANGED worker
  ELSE /\ send' = [send EXCEPT ![b] = Tally(@, t, verdict)]
       /\ worker' = [worker EXCEPT ![b][t] = "done"]

\* FCM.token with a good token: lock, look, unlock.
TakeToken(c) ==
  /\ Waiting(c) /\ minting = {} /\ fresh
  /\ Granted(c)
  /\ UNCHANGED <<registry, inbox, history, fresh, minting, reached>>

\* FCM.token with a stale one: the mutex stays held.
StartMint(c) ==
  /\ Waiting(c) /\ minting = {} /\ ~fresh
  /\ minting' = {c}
  /\ UNCHANGED <<registry, inbox, history, send, worker, fresh, reached>>

\* Mutant of Unlocked: the error paths of FCM.token keep the mutex.
Unlocked_OnSuccess(c, ok) == IF ok THEN minting \ {c} ELSE minting

\* The deferred Unlock.
Unlocked(c, ok) == minting \ {c}

\* The exchange is answered, refused, or fails.
EndMint(c) ==
  /\ c \in minting /\ Waiting(c)
  /\ \/ /\ ~send[c[1]].cancelled
        /\ Granted(c)
        /\ fresh' = TRUE
        /\ minting' = Unlocked(c, TRUE)
     \/ /\ \E verdict \in {"auth", "other"} : Denied(c, verdict)
        /\ minting' = Unlocked(c, FALSE)
        /\ UNCHANGED fresh
  /\ UNCHANGED <<registry, inbox, history, reached>>

SlotFree(b) == Cardinality(Running(b)) < Concurrency

Spawn(b, t) ==
  /\ send[b].at = "queueing"
  /\ worker[b][t] = "queued"
  /\ SlotFree(b)
  /\ worker' = [worker EXCEPT ![b][t] = "waiting"]
  /\ UNCHANGED <<registry, inbox, history, send, fresh, minting, reached>>

\* ctx.Done while messages are left: they are not sent.
GiveUp(b) ==
  /\ send[b].at = "queueing"
  /\ send[b].cancelled
  /\ Queued(b) # {}
  /\ send' = [send EXCEPT ![b].error = TRUE]
  /\ worker' = [worker EXCEPT ![b] =
       [t \in Devices |-> IF t \in Queued(b) THEN "idle" ELSE worker[b][t]]]
  /\ UNCHANGED <<registry, inbox, history, fresh, minting, reached>>

\* What FCM may answer to a message of b for t.
Answers(b, t) ==
  {"denied", "unavailable"}
    \cup (IF b \in Oversized THEN {"invalid_argument"} ELSE {"ok"})
    \cup (IF t \in gone THEN {"unregistered"} ELSE {})

\* FCM answers a worker's request.
Post(b, t) ==
  /\ worker[b][t] = "posting"
  /\ ~send[b].cancelled
  /\ \E a \in Answers(b, t) :
       /\ send' = [send EXCEPT ![b] = Tally(@, t, Classify(a))]
       /\ reached' = [reached EXCEPT ![b] = @ \cup IF a = "ok" THEN {t} ELSE {}]
  /\ worker' = [worker EXCEPT ![b][t] = "done"]
  /\ UNCHANGED <<registry, inbox, history, fresh, minting>>

\* The request times out or its context ends; FCM may have had it.
PostLost(b, t) ==
  /\ worker[b][t] = "posting"
  /\ send' = [send EXCEPT ![b] = Tally(@, t, "other")]
  /\ \E had \in SUBSET ({t} \ IF b \in Oversized THEN {t} ELSE {}) :
       reached' = [reached EXCEPT ![b] = @ \cup had]
  /\ worker' = [worker EXCEPT ![b][t] = "done"]
  /\ UNCHANGED <<registry, inbox, history, fresh, minting>>

\* wg.Wait: every message queued has been answered for.
Finish(b) ==
  /\ send[b].at = "queueing"
  /\ Queued(b) \cup Running(b) = {}
  /\ send' = [send EXCEPT ![b].error = @ \/ send[b].fatal,
                ![b].at = IF send[b].invalid = {} THEN "recording" ELSE "pruning"]
  /\ UNCHANGED <<registry, inbox, history, fcm>>

-----------------------------------------------------------------------------
(* After the push *)

\* DeleteTokens, a hard delete by token; a failure is only logged.
Prune(b) ==
  /\ send[b].at = "pruning"
  /\ \/ /\ ~send[b].cancelled
        /\ holder' = [t \in Devices |-> IF t \in send[b].invalid THEN None ELSE holder[t]]
        /\ signedOut' = signedOut \ send[b].invalid
     \/ UNCHANGED <<holder, signedOut>>
  /\ send' = [send EXCEPT ![b].at = "recording"]
  /\ UNCHANGED <<gone, signedIn, inbox, history, fcm>>

\* RecordBroadcast; a failure is only logged, and the send was done.
Record(b) ==
  /\ send[b].at = "recording"
  /\ \/ /\ ~send[b].cancelled
        /\ history' = [history EXCEPT ![b] =
             [saved |-> Cardinality(send[b].written),
              devices |-> Cardinality(send[b].devices),
              sent |-> send[b].sent, failed |-> send[b].failed, error |-> send[b].error]]
     \/ UNCHANGED history
  /\ send' = [send EXCEPT ![b].at = "answered", ![b].answer = "sent"]
  /\ UNCHANGED <<registry, inbox, fcm>>

-----------------------------------------------------------------------------
(* The world *)

\* The caller disconnects or its deadline passes.
Cancel(b) ==
  /\ Underway(b)
  /\ ~send[b].cancelled
  /\ send' = [send EXCEPT ![b].cancelled = TRUE]
  /\ UNCHANGED <<registry, inbox, history, fcm>>

\* The cached access token gets within refreshMargin of its expiry.
Expire ==
  /\ fresh
  /\ fresh' = FALSE
  /\ UNCHANGED <<registry, inbox, history, send, worker, minting, reached>>

\* The process dies, and with it every goroutine and the cached token.
Crash ==
  /\ \E b \in Sends : Underway(b)
  /\ send' = [b \in Sends |-> IF Underway(b) THEN [send[b] EXCEPT !.at = "crashed"]
                                              ELSE send[b]]
  /\ worker' = [b \in Sends |-> [t \in Devices |-> "idle"]]
  /\ fresh' = FALSE
  /\ minting' = {}
  /\ UNCHANGED <<registry, inbox, history, reached>>

\* What the goroutines of a send do by themselves.
Progress(b) ==
  \/ Resolve(b) \/ InsertBatch(b) \/ Commit(b) \/ FailEarly(b)
  \/ LoadDevices(b) \/ GiveUp(b) \/ Finish(b) \/ Prune(b) \/ Record(b)
  \/ \E t \in Devices : Spawn(b, t) \/ Post(b, t) \/ PostLost(b, t)
  \/ \E t \in Devices \cup {None} :
       TakeToken(<<b, t>>) \/ StartMint(<<b, t>>) \/ EndMint(<<b, t>>)

Next ==
  \/ \E u \in Users, t \in Devices : Register(u, t) \/ Unregister(u, t)
  \/ \E t \in Devices : Uninstall(t)
  \/ \E b \in Sends : Submit(b) \/ Progress(b) \/ Cancel(b)
  \/ Expire \/ Crash

Spec == Init /\ [][Next]_vars

\* The goroutines of a send are scheduled, and the database, FCM and the token
\* endpoint answer or time out.
FairSpec == Spec /\ \A b \in Sends : WF_vars(Progress(b))

-----------------------------------------------------------------------------
(* Properties                                                              *)

Typed ==
  /\ holder \in [Devices -> Users \cup {None}]
  /\ signedOut \subseteq Devices
  /\ inbox \in [Sends -> SUBSET Users]
  /\ history \in [Sends -> Entry]
  /\ send \in [Sends -> Sending]
  /\ worker \in [Sends -> [Devices -> WorkerStage]]
  /\ fresh \in BOOLEAN
  /\ minting \subseteq Callers
  /\ gone \subseteq Devices
  /\ reached \in [Sends -> SUBSET Devices]
  /\ signedIn \in [Devices -> Users \cup {None}]

SlotsBoundWorkers == \A b \in Sends : Cardinality(Running(b)) <= Concurrency
MutexHeldByWaiter == \A c, d \in minting : c = d /\ Waiting(c)

\* Every variable has its type; a send never has more workers than its
\* semaphore has slots, and the mutex is held by one goroutine at most, which
\* is waiting for the token it mints.
TypeOK == Typed /\ SlotsBoundWorkers /\ MutexHeldByWaiter

\* CreateMany: "a partial broadcast impossible".  Whatever fails, is cancelled
\* or dies, everybody who matched the audience has the message or nobody; and
\* everybody has it once the operator was told it was sent.
AllOrNobody ==
  \A b \in Sends :
    /\ inbox[b] \in {{}, send[b].due}
    /\ send[b].answer = "refused" => inbox[b] = {}
    /\ send[b].answer = "sent" => inbox[b] = send[b].due

\* An entry of the history is about a message that is in every inbox.  It
\* counts no delivery FCM did not accept, no device twice, and, when it shows
\* no error and a push was asked for, every device that was addressed.
HistoryHonest ==
  \A b \in Sends : LET e == history[b] IN
    e # NoEntry =>
      /\ inbox[b] # {} /\ e.saved = Cardinality(inbox[b])
      /\ e.sent <= Cardinality(reached[b])
      /\ e.sent + e.failed <= e.devices
      /\ ~e.error => e.sent + e.failed = e.devices

\* Registrations follow the app: while it is installed, a device is listed for
\* the account that signed in on it last, and for nobody once that account
\* signed out, through takeovers by another account, sign-outs of accounts
\* that no longer hold it, and broadcasts that prune.  FCM.classify says a 400
\* "means the token itself is malformed": only dead registrations are dropped.
RegistrationsFollowTheApp ==
  \A t \in Devices \ gone :
    IF Listed(t) THEN signedIn[t] = holder[t] ELSE signedIn[t] = None

\* A send is answered, or died with its process: its workers give back the
\* slots and the mutex on every path, and nobody waits for them for ever.
EverySendEnds ==
  \A b \in Sends : send[b].at = "resolving" ~> ~Underway(b)
=============================================================================
