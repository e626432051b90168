---------------------------- MODULE OrderService ----------------------------
(***************************************************************************)
(* PUT /order/{id}/status as the code runs it: every await of              *)
(* Service.ChangeStatus is a step, so that requests of several operators,  *)
(* changes of shop assignments, database failures and crashes interleave.  *)
(*                                                                         *)
(*   received -FindByID-> loaded -AssignedShopIDs, rules-> applying        *)
(*     -guarded UPDATE-> inserting -INSERT, COMMIT-> committed             *)
(*     -FindByID-> reloaded -AssignedShopIDs-> answered                    *)
(*                                                                         *)
(* The database runs at READ COMMITTED: a guarded UPDATE waits for the row *)
(* lock of an open transaction and then tests its WHERE clause on the row  *)
(* as committed.  A customer reading the timeline of an order of theirs    *)
(* takes two separate statements too.                                      *)
(***************************************************************************)
EXTENDS OrderLifecycle, Sequences

CONSTANTS
  Orders, Staff, typeOf,
  Requests,     \* request slots: how many requests are in flight at once
  Customers,    \* the customers who follow their orders
  Shops,
  shopOf,       \* shopOf[o]: the shop that fulfils o
  ownerOf,      \* ownerOf[o]: the customer who placed o
  SuperAdmins,  \* staff whose role sees every shop
  Births,       \* statuses in which orders may enter the system
  Targets,      \* what a client may send as the new status
  ReasonsSent   \* what it may send as the reason

VARIABLES
  status, history,
  assigned,     \* shop_cashiers: assigned[s] is the set of shops s works in
  rowLock,      \* rowLock[o]: the request whose transaction holds o's row
  req,          \* the in-flight requests
  watch,        \* the in-flight timeline reads of customers
  born,         \* the status each order entered with (history variable)
  everAssigned  \* every assignment there has ever been (history variable)

vars == <<status, history, assigned, rowLock, req, watch, born, everAssigned>>
env  == <<assigned, everAssigned, born>>

NoLock == "unlocked"
None == "none"
Reasons == {"blank", "given", "too_long"}
Entry == [from: AllStatuses, to: AllStatuses, reason: Reasons, actor: Staff]

ASSUME OrderConfig ==
  /\ typeOf  \in [Orders -> OrderTypes]
  /\ shopOf  \in [Orders -> Shops]
  /\ DOMAIN ownerOf = Orders
  /\ SuperAdmins \subseteq Staff
  /\ Births \subseteq AllStatuses
  /\ Targets \subseteq AllStatuses \cup {UnknownStatus}
  /\ ReasonsSent \subseteq Reasons
  /\ NoLock \notin Requests
  /\ None \notin Staff

Stage == {"idle", "received", "loaded", "applying", "inserting", "committed",
          "reloaded", "answered"}
Answer == {None, "ok", "validation", "not_found", "conflict", "internal"}

Request == [at: Stage, actor: Staff \cup {None}, order: Orders \cup {None},
            target: AllStatuses \cup {UnknownStatus, None},
            reason: Reasons \cup {None}, from: AllStatuses \cup {None},
            seen: AllStatuses \cup {None}, answer: Answer]

NoRequest == [at |-> "idle", actor |-> None, order |-> None, target |-> None,
              reason |-> None, from |-> None, seen |-> None, answer |-> None]

Idle(r) == req[r].at \in {"idle", "answered"}

\* The request r ends with answer a.  Only a success keeps what it was about,
\* for the properties to read.
Reply(r, a) ==
  req' = [req EXCEPT ![r] = [(IF a = "ok" THEN req[r] ELSE NoRequest) EXCEPT
                               !.at = "answered", !.answer = a]]

\* Mutant of InScope: every operator sees every shop.
InScope_Any(actor, o) == TRUE

InScope(actor, o) == actor \in SuperAdmins \/ shopOf[o] \in assigned[actor]

\* Mutant of Justified: an empty reason passes.
Justified_Always(q) == TRUE

\* A reason where the target demands one, and never too long a one.
Justified(q) ==
  /\ ReasonRequired(q.target) => q.reason # "blank"
  /\ q.reason # "too_long"

\* The WHERE clause of the guarded UPDATE.
RowMatches(q) == status[q.order] = q.from

\* Mutant of WriteTrail: the audit row is never written.
WriteTrail_Dropped(q) == UNCHANGED history

\* Mutant of WriteTrail: the row takes its from_status from the new status.
WriteTrail_Late(q) ==
  history' = [history EXCEPT ![q.order] =
                Append(@, [from |-> q.target, to |-> q.target,
                           reason |-> q.reason, actor |-> q.actor])]

WriteTrail(q) ==
  history' = [history EXCEPT ![q.order] =
                Append(@, [from |-> q.from, to |-> q.target,
                           reason |-> q.reason, actor |-> q.actor])]

\* Mutant of Release: the transaction is left open.
Release_Never(r) == UNCHANGED rowLock

\* The end of r's transaction, if it has one.
Release(r) == rowLock' = [o \in Orders |-> IF rowLock[o] = r THEN NoLock ELSE rowLock[o]]

\* Mutant of TimelineRows: the newest row is cut off.
TimelineRows_SkipNewest(o) == SubSeq(history[o], 1, Len(history[o]) - 1)

TimelineRows(o) == history[o]

-----------------------------------------------------------------------------
Init ==
  /\ status \in [Orders -> Births]
  /\ born = status
  /\ history = [o \in Orders |-> <<>>]
  /\ assigned \in [Staff -> SUBSET Shops]
  /\ everAssigned = assigned
  /\ rowLock = [o \in Orders |-> NoLock]
  /\ req = [r \in Requests |-> NoRequest]
  /\ watch = [c \in Customers |-> [at |-> "idle"]]

\* An operator sends a change.  A status nobody knows is refused before the
\* order is even read.
Submit(r) ==
  /\ Idle(r)
  /\ \E s \in Staff, o \in Orders, t \in Targets, why \in ReasonsSent :
       \/ ~IsKnownStatus(t) /\ Reply(r, "validation")
       \/ /\ IsKnownStatus(t)
          /\ req' = [req EXCEPT ![r] = [NoRequest EXCEPT
                       !.at = "received", !.actor = s, !.order = o,
                       !.target = t, !.reason = why]]
  /\ UNCHANGED <<status, history, rowLock, watch, env>>

\* FindByID: the status the decision will be based on.
LoadOrder(r) ==
  /\ req[r].at = "received"
  /\ req' = [req EXCEPT ![r].at = "loaded", ![r].from = status[req[r].order]]
  /\ UNCHANGED <<status, history, rowLock, watch, env>>

\* assertInScope, then the rules, on the status that was read.
Decide(r) ==
  LET q == req[r] IN
  /\ q.at = "loaded"
  /\ \/ ~InScope(q.actor, q.order) /\ Reply(r, "not_found")
     \/ /\ InScope(q.actor, q.order)
        /\ \/ q.target = q.from /\ Reply(r, "conflict")
           \/ /\ q.target # q.from
              /\ ~CanTransition(q.from, q.target, typeOf[q.order])
              /\ Reply(r, "conflict")
           \/ /\ CanTransition(q.from, q.target, typeOf[q.order])
              /\ ~Justified(q)
              /\ Reply(r, "validation")
           \/ /\ CanTransition(q.from, q.target, typeOf[q.order])
              /\ Justified(q)
              /\ req' = [req EXCEPT ![r].at = "applying"]
  /\ UNCHANGED <<status, history, rowLock, watch, env>>

\* ApplyStatus, the UPDATE ... WHERE status = from: no row means that
\* somebody else moved the order, a locked row makes the statement wait.
GuardedUpdate(r) ==
  LET q == req[r] IN
  /\ q.at = "applying"
  /\ \/ /\ RowMatches(q)
        /\ rowLock[q.order] = NoLock
        /\ rowLock' = [rowLock EXCEPT ![q.order] = r]
        /\ req' = [req EXCEPT ![r].at = "inserting"]
     \/ /\ ~RowMatches(q)
        /\ Reply(r, "conflict")
        /\ UNCHANGED rowLock
  /\ UNCHANGED <<status, history, watch, env>>

\* The history row is inserted and the transaction commits: both writes
\* become visible at once and the row lock goes.
InsertAndCommit(r) ==
  LET q == req[r] IN
  /\ q.at = "inserting"
  /\ status'  = [status EXCEPT ![q.order] = q.target]
  /\ WriteTrail(q)
  /\ Release(r)
  \* The COMMIT's acknowledgement can be lost: the change is made and the
  \* caller is told it failed.
  /\ \/ req' = [req EXCEPT ![r].at = "committed"]
     \/ Reply(r, "internal")
  /\ UNCHANGED <<watch, env>>

\* The re-read for the response: the order first, its scope second.
ReloadOrder(r) ==
  /\ req[r].at = "committed"
  /\ req' = [req EXCEPT ![r].at = "reloaded", ![r].seen = status[req[r].order]]
  /\ UNCHANGED <<status, history, rowLock, watch, env>>

Respond(r) ==
  /\ req[r].at = "reloaded"
  /\ Reply(r, IF InScope(req[r].actor, req[r].order) THEN "ok" ELSE "not_found")
  /\ UNCHANGED <<status, history, rowLock, watch, env>>

\* A statement fails, or the process serving r dies.  An open transaction is
\* rolled back, which only releases its lock: its writes were never visible.
Abort(r, end) ==
  /\ ~Idle(r)
  /\ end
  /\ Release(r)
  /\ UNCHANGED <<status, history, watch, env>>

DatabaseError(r) == Abort(r, Reply(r, "internal"))

Crash(r) == Abort(r, req' = [req EXCEPT ![r] = NoRequest])

-----------------------------------------------------------------------------
(* The shop module replaces assignment lists at any time.                  *)

Reassign(s) ==
  /\ \E shops \in SUBSET Shops :
       /\ assigned' = [assigned EXCEPT ![s] = shops]
       /\ everAssigned' = [everAssigned EXCEPT ![s] = @ \cup shops]
  /\ UNCHANGED <<status, history, rowLock, req, watch, born>>

(* MyOrderTimeline: the order and its owner first, the rows second.        *)

OpenOrder(c) ==
  /\ watch[c].at = "idle"
  /\ \E o \in Orders :
       /\ ownerOf[o] = c
       /\ watch' = [watch EXCEPT ![c] = [at |-> "opened", order |-> o, seen |-> status[o]]]
  /\ UNCHANGED <<status, history, rowLock, req, env>>

ReadTimeline(c) ==
  /\ watch[c].at = "opened"
  /\ watch' = [watch EXCEPT ![c] =
                 [at |-> "read", order |-> watch[c].order, seen |-> watch[c].seen,
                  rows |-> TimelineRows(watch[c].order)]]
  /\ UNCHANGED <<status, history, rowLock, req, env>>

CloseTimeline(c) ==
  /\ watch[c].at = "read"
  /\ watch' = [watch EXCEPT ![c] = [at |-> "idle"]]
  /\ UNCHANGED <<status, history, rowLock, req, env>>

-----------------------------------------------------------------------------
Serve(r) ==
  \/ LoadOrder(r) \/ Decide(r) \/ GuardedUpdate(r)
  \/ InsertAndCommit(r) \/ ReloadOrder(r) \/ Respond(r)

Next ==
  \/ \E r \in Requests : Submit(r) \/ Serve(r) \/ DatabaseError(r) \/ Crash(r)
  \/ \E s \in Staff : Reassign(s)
  \/ \E c \in Customers : OpenOrder(c) \/ ReadTimeline(c) \/ CloseTimeline(c)

Spec == Init /\ [][Next]_vars

\* The runtime keeps running a handler whose next statement can run, and
\* PostgreSQL grants a row lock to its waiters in turn.
Fairness == \A r \in Requests : WF_vars(Serve(r)) /\ SF_vars(GuardedUpdate(r))

FairSpec == Spec /\ Fairness

-----------------------------------------------------------------------------
(* Properties                                                              *)

\* Every variable holds what its column or field can hold, and a request that
\* has passed a stage carries what that stage read.
TypeOK ==
  /\ status \in [Orders -> AllStatuses]
  /\ born \in [Orders -> AllStatuses]
  /\ history \in [Orders -> Seq(Entry)]
  /\ assigned \in [Staff -> SUBSET Shops]
  /\ everAssigned \in [Staff -> SUBSET Shops]
  /\ rowLock \in [Orders -> Requests \cup {NoLock}]
  /\ req \in [Requests -> Request]
  /\ \A r \in Requests :
       /\ ~Idle(r) => /\ req[r].actor \in Staff
                      /\ req[r].order \in Orders
                      /\ req[r].target \in AllStatuses
                      /\ req[r].reason \in Reasons
       /\ ~Idle(r) /\ req[r].at # "received" => req[r].from \in AllStatuses

\* ApplyStatus writes the status and the audit row together: the rows of an
\* order chain from the status it entered with to the status it has now, so
\* there is never a status with no explanation nor an explanation of a status
\* the order never reached.
HistoryExplainsStatus ==
  \A o \in Orders :
    LET h == history[o] IN
    /\ h = <<>> => status[o] = born[o]
    /\ h # <<>> => h[1].from = born[o] /\ h[Len(h)].to = status[o]
    /\ \A i \in 1..Len(h) - 1 : h[i].to = h[i + 1].from

\* "Two operators acting on the same order at once cannot both succeed": of
\* all the changes decided on one status of an order, whoever decided them and
\* however late they are applied, one is ever recorded.
OneWinner ==
  \A o \in Orders : \A i, j \in 1..Len(history[o]) :
     history[o][i].from = history[o][j].from => i = j

\* The lifecycle filters look at one edge only; what they are for is about the
\* whole life of an order, through every mix of edges: "a delivery is only
\* complete once it has actually been delivered", "nobody delivers a take-away
\* order", and "CANCELED is reachable only up to SEARCHING_DRIVER".
DeliveryRules ==
  \A o \in Orders :
    LET h == history[o]
        Past(set) == \E i \in 1..Len(h) : h[i].to \in set
    IN
    /\ /\ typeOf[o] = "DELIVERY" /\ status[o] = "COMPLETED"
       /\ born[o] \notin {"DELIVERED", "COMPLETED"}
       => Past({"DELIVERED"})
    /\ typeOf[o] = "TAKE_AWAY" /\ born[o] \notin Courier => ~Past(Courier)
    /\ \A i, j \in 1..Len(h) :
         i <= j /\ h[i].from \in Courier \ {"SEARCHING_DRIVER"}
         => h[j].to # "CANCELED"

\* Whoever is recorded as having moved an order sees every shop, or was
\* assigned to that order's shop at some time; assignments that change while
\* the request runs make no difference to that.
RecordedActorsWereAssigned ==
  \A o \in Orders : \A i \in 1..Len(history[o]) :
    LET a == history[o][i].actor IN
    a \in SuperAdmins \/ shopOf[o] \in everAssigned[a]

\* An operator who is answered "order status updated" finds their own change
\* in the trail, and the status they are shown is that change's or one the
\* order moved on to afterwards.
OkMeansRecorded ==
  \A r \in Requests : req[r].answer = "ok" =>
    LET q == req[r]
        h == history[q.order] IN
    \E i \in 1..Len(h) :
      /\ h[i] = [from |-> q.from, to |-> q.target, reason |-> q.reason, actor |-> q.actor]
      /\ \E j \in i..Len(h) : h[j].to = q.seen

\* The customer's tracking screen reads the order and then its timeline; the
\* rows always account for the status that was read before them.
TimelineCoversDetail ==
  \A c \in Customers : watch[c].at = "read" =>
    \/ watch[c].seen = born[watch[c].order]
    \/ \E i \in 1..Len(watch[c].rows) : watch[c].rows[i].to = watch[c].seen

\* The service implements what the module promises: through every
\* interleaving, failure and crash a status and its trail move together,
\* along the lifecycle, justified where that is demanded, and never back.
Abs == INSTANCE OrderAbstract WITH
         Orders <- Orders, Staff <- Staff, typeOf <- typeOf,
         status <- status, history <- history
ImplementsOrder == Abs!ASpec

\* Every request is answered or lost in a crash: no operator is left waiting
\* for a row lock nobody will release.
EveryRequestEnds == \A r \in Requests : (~Idle(r)) ~> Idle(r)
=============================================================================
