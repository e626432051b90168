------------------------- MODULE OrderService_proofs -------------------------
(***************************************************************************)
(* Proofs about OrderService, for every set of orders, operators, shops    *)
(* and requests:                                                           *)
(*   - TypeOK is an invariant;                                             *)
(*   - the service implements OrderAbstract, because a request that holds  *)
(*     the row lock still sees the status its decision was based on        *)
(*     (LockInv) and that decision passed the rules (RulesInv);            *)
(*   - the trail explains the status, and no status of an order is ever    *)
(*     acted on twice, because the lifecycle is acyclic (RankGrows).       *)
(*   - what the trail says of who moved an order, what callers and         *)
(*     customers are told of it, and the rules over an order's whole life  *)
(*     hold because trails only grow (TrailGrows).                         *)
(***************************************************************************)
EXTENDS OrderService, SequenceTheorems, TLAPS

LockInv ==
  \A r \in Requests : req[r].at = "inserting" =>
    /\ rowLock[req[r].order] = r
    /\ status[req[r].order] = req[r].from

RulesInv ==
  \A r \in Requests : req[r].at \in {"applying", "inserting"} =>
    /\ CanTransition(req[r].from, req[r].target, typeOf[req[r].order])
    /\ ReasonRequired(req[r].target) => req[r].reason # "blank"
    /\ req[r].reason # "too_long"

\* Every step of the lifecycle increases the rank: no status is ever
\* revisited, so comparing statuses is as good as comparing versions.
LEMMA RankGrows ==
  ASSUME NEW s \in AllStatuses, NEW t, NEW ty, CanTransition(s, t, ty)
  PROVE  /\ t \in AllStatuses
         /\ Rank[s] \in Nat /\ Rank[t] \in Nat
         /\ Rank[s] < Rank[t]
  BY DEF CanTransition, Transitions, AllStatuses, Rank

\* The screen and the validator cannot disagree about what is allowed.
THEOREM ScreenAgreesWithValidator ==
  ASSUME NEW s \in AllStatuses, NEW t, NEW ty
  PROVE  t \in NextStatuses(s, ty) <=> CanTransition(s, t, ty)
  BY DEF NextStatuses, CanTransition

USE DEF None, NoLock, Justified, RowMatches, WriteTrail, Release

LEMMA TypeInit == Init => TypeOK
  <1> SUFFICES ASSUME Init PROVE TypeOK
    OBVIOUS
  <1>1. NoRequest \in Request
    BY DEF NoRequest, Request, Stage, Answer
  <1>2. \A r \in Requests : Idle(r)
    BY DEF Init, Idle, NoRequest
  <1>3. <<>> \in Seq(Entry)
    BY EmptySeq
  <1> QED
    BY <1>1, <1>2, <1>3, OrderConfig DEF Init, TypeOK

\* Changing one field of a request within its range keeps it a request.
LEMMA FieldTyped ==
  ASSUME NEW q \in Request
  PROVE  /\ \A st \in Stage : [q EXCEPT !.at = st] \in Request
         /\ \A a \in Answer : [q EXCEPT !.answer = a] \in Request
         /\ \A st \in AllStatuses : [q EXCEPT !.from = st] \in Request
         /\ \A st \in AllStatuses : [q EXCEPT !.seen = st] \in Request
  BY DEF Request

LEMMA StageTyped ==
  ASSUME TypeOK, NEW r \in Requests, NEW st \in Stage, req' = [req EXCEPT ![r].at = st]
  PROVE  req' \in [Requests -> Request]
  <1>1. [req[r] EXCEPT !.at = st] \in Request
    BY FieldTyped DEF TypeOK
  <1> QED
    BY <1>1 DEF TypeOK

\* A reply, a crash, or any other step that makes a request idle leaves the
\* requests well-typed.
LEMMA ReplyTyped ==
  ASSUME TypeOK, NEW r \in Requests, NEW a \in Answer, Reply(r, a)
  PROVE  /\ req' \in [Requests -> Request]
         /\ Idle(r)'
         /\ \A x \in Requests : x # r => req'[x] = req[x]
  <1> DEFINE q == IF a = "ok" THEN req[r] ELSE NoRequest
             p == [q EXCEPT !.at = "answered"]
             z == [q EXCEPT !.at = "answered", !.answer = a]
  <1>1. q \in Request
    BY DEF TypeOK, Request, NoRequest, Stage, Answer
  <1>2. p \in Request
    BY <1>1, FieldTyped DEF Stage
  <1>3. z = [p EXCEPT !.answer = a]
    OBVIOUS
  <1>4. z \in Request
    BY <1>2, <1>3, FieldTyped
  <1>5. z.at = "answered"
    BY <1>1 DEF Request
  <1>6. req' = [req EXCEPT ![r] = z]
    BY DEF Reply
  <1> QED
    BY <1>4, <1>5, <1>6 DEF TypeOK, Idle

ReqTyped ==
  \A r \in Requests :
    /\ ~Idle(r) => /\ req[r].actor \in Staff
                   /\ req[r].order \in Orders
                   /\ req[r].target \in AllStatuses
                   /\ req[r].reason \in Reasons
    /\ ~Idle(r) /\ req[r].at # "received" => req[r].from \in AllStatuses

LEMMA ReplyReqTyped ==
  ASSUME TypeOK, NEW r \in Requests, NEW a \in Answer, Reply(r, a)
  PROVE  ReqTyped'
  BY ReplyTyped DEF TypeOK, ReqTyped, Idle

LEMMA TypeNext == TypeOK /\ [Next]_vars => TypeOK'
  <1> SUFFICES ASSUME TypeOK, [Next]_vars PROVE TypeOK'
    OBVIOUS
  <1> USE DEF env
  <1>1. ASSUME NEW r \in Requests, Submit(r) PROVE TypeOK'
    <2>1. CASE Reply(r, "validation")
      <3>1. ReqTyped' /\ req' \in [Requests -> Request]
        BY <2>1, ReplyReqTyped, ReplyTyped DEF Answer
      <3> QED
        BY <1>1, <3>1 DEF Submit, TypeOK, ReqTyped, Idle
    <2>2. ASSUME NEW s \in Staff, NEW o \in Orders, NEW t \in Targets,
                 NEW why \in ReasonsSent, IsKnownStatus(t),
                 req' = [req EXCEPT ![r] = [NoRequest EXCEPT
                           !.at = "received", !.actor = s, !.order = o,
                           !.target = t, !.reason = why]]
          PROVE  TypeOK'
      <3>1. req' \in [Requests -> Request]
        BY <2>2, OrderConfig DEF TypeOK, Request, NoRequest, Stage, Answer, IsKnownStatus
      <3>2. ReqTyped'
        BY <2>2, OrderConfig DEF TypeOK, ReqTyped, Idle, NoRequest, IsKnownStatus
      <3> QED
        BY <1>1, <3>1, <3>2 DEF Submit, TypeOK, ReqTyped, Idle
    <2> QED
      BY <1>1, <2>1, <2>2 DEF Submit
  <1>2. ASSUME NEW r \in Requests, LoadOrder(r) PROVE TypeOK'
    <2> DEFINE p == [req[r] EXCEPT !.at = "loaded"]
    <2>0. status[req[r].order] \in AllStatuses
      BY <1>2 DEF LoadOrder, TypeOK, Idle
    <2>a. p \in Request
      BY FieldTyped DEF TypeOK, Stage
    <2>b. [p EXCEPT !.from = status[req[r].order]] \in Request
      BY <2>0, <2>a, FieldTyped
    <2>1. req' \in [Requests -> Request]
      BY <1>2, <2>b DEF LoadOrder, TypeOK
    <2>2. ReqTyped'
      BY <1>2 DEF LoadOrder, TypeOK, ReqTyped, Idle, Request
    <2> QED
      BY <1>2, <2>1, <2>2 DEF LoadOrder, TypeOK, ReqTyped, Idle
  <1>3. ASSUME NEW r \in Requests, Decide(r) PROVE TypeOK'
    <2>1. CASE \E a \in Answer : Reply(r, a)
      <3>1. ReqTyped' /\ req' \in [Requests -> Request]
        BY <2>1, ReplyReqTyped, ReplyTyped
      <3> QED
        BY <1>3, <3>1 DEF Decide, TypeOK, ReqTyped, Idle
    <2>2. CASE req' = [req EXCEPT ![r].at = "applying"]
      <3>1. req' \in [Requests -> Request]
        BY <2>2, StageTyped DEF Stage
      <3>2. ReqTyped'
        BY <1>3, <2>2 DEF Decide, TypeOK, ReqTyped, Idle, Request
      <3> QED
        BY <1>3, <3>1, <3>2 DEF Decide, TypeOK, ReqTyped, Idle
    <2> QED
      BY <1>3, <2>1, <2>2 DEF Decide, Answer
  <1>4. ASSUME NEW r \in Requests, GuardedUpdate(r) PROVE TypeOK'
    <2>0. req[r].order \in Orders
      BY <1>4 DEF GuardedUpdate, TypeOK, Idle
    <2>1. CASE status[req[r].order] = req[r].from
      <3>1. req' = [req EXCEPT ![r].at = "inserting"]
        BY <1>4, <2>1 DEF GuardedUpdate
      <3>2. req' \in [Requests -> Request]
        BY <3>1, StageTyped DEF Stage
      <3>3. ReqTyped'
        BY <1>4, <3>1 DEF GuardedUpdate, TypeOK, ReqTyped, Idle, Request
      <3>4. rowLock' \in [Orders -> Requests \cup {NoLock}]
        BY <1>4, <2>0, <2>1 DEF GuardedUpdate, TypeOK
      <3> QED
        BY <1>4, <3>2, <3>3, <3>4 DEF GuardedUpdate, TypeOK, ReqTyped, Idle
    <2>2. CASE status[req[r].order] # req[r].from
      <3>1. Reply(r, "conflict")
        BY <1>4, <2>2 DEF GuardedUpdate
      <3>2. ReqTyped' /\ req' \in [Requests -> Request]
        BY <3>1, ReplyReqTyped, ReplyTyped DEF Answer
      <3> QED
        BY <1>4, <2>2, <3>2 DEF GuardedUpdate, TypeOK, ReqTyped, Idle
    <2> QED
      BY <2>1, <2>2
  <1>5. ASSUME NEW r \in Requests, InsertAndCommit(r) PROVE TypeOK'
    <2> DEFINE q == req[r]
               e == [from |-> q.from, to |-> q.target,
                     reason |-> q.reason, actor |-> q.actor]
    <2>1. /\ q.order \in Orders /\ q.target \in AllStatuses
          /\ e \in Entry
      BY <1>5 DEF InsertAndCommit, TypeOK, Idle, Entry
    <2>2. status' \in [Orders -> AllStatuses]
      BY <1>5, <2>1 DEF InsertAndCommit, TypeOK
    <2>3. history' \in [Orders -> Seq(Entry)]
      <3>1. Append(history[q.order], e) \in Seq(Entry)
        BY <2>1, AppendProperties DEF TypeOK
      <3> QED
        BY <1>5, <2>1, <3>1 DEF InsertAndCommit, TypeOK
    <2>4. rowLock' \in [Orders -> Requests \cup {NoLock}]
      BY <1>5, <2>1 DEF InsertAndCommit, TypeOK
    <2>5. ReqTyped' /\ req' \in [Requests -> Request]
      <3>1. CASE Reply(r, "internal")
        BY <3>1, ReplyReqTyped, ReplyTyped DEF Answer
      <3>2. CASE req' = [req EXCEPT ![r].at = "committed"]
        <4>1. req' \in [Requests -> Request]
          BY <3>2, StageTyped DEF Stage
        <4>2. ReqTyped'
          BY <1>5, <3>2 DEF InsertAndCommit, TypeOK, ReqTyped, Idle, Request
        <4> QED
          BY <4>1, <4>2
      <3> QED
        BY <1>5, <3>1, <3>2 DEF InsertAndCommit
    <2> QED
      BY <1>5, <2>2, <2>3, <2>4, <2>5 DEF InsertAndCommit, TypeOK, ReqTyped, Idle
  <1>6. ASSUME NEW r \in Requests, ReloadOrder(r) PROVE TypeOK'
    <2> DEFINE p == [req[r] EXCEPT !.at = "reloaded"]
    <2>0. status[req[r].order] \in AllStatuses
      BY <1>6 DEF ReloadOrder, TypeOK, Idle
    <2>a. p \in Request
      BY FieldTyped DEF TypeOK, Stage
    <2>b. [p EXCEPT !.seen = status[req[r].order]] \in Request
      BY <2>0, <2>a, FieldTyped
    <2>1. req' \in [Requests -> Request]
      BY <1>6, <2>b DEF ReloadOrder, TypeOK
    <2>2. ReqTyped'
      BY <1>6 DEF ReloadOrder, TypeOK, ReqTyped, Idle, Request
    <2> QED
      BY <1>6, <2>1, <2>2 DEF ReloadOrder, TypeOK, ReqTyped, Idle
  <1>7. ASSUME NEW r \in Requests, Respond(r) PROVE TypeOK'
    <2>1. ReqTyped' /\ req' \in [Requests -> Request]
      BY <1>7, ReplyReqTyped, ReplyTyped DEF Respond, Answer
    <2> QED
      BY <1>7, <2>1 DEF Respond, TypeOK, ReqTyped, Idle
  <1>8. ASSUME NEW r \in Requests, DatabaseError(r) PROVE TypeOK'
    <2>1. ReqTyped' /\ req' \in [Requests -> Request]
      BY <1>8, ReplyReqTyped, ReplyTyped DEF DatabaseError, Abort, Answer
    <2> QED
      BY <1>8, <2>1 DEF DatabaseError, Abort, TypeOK, ReqTyped, Idle
  <1>9. ASSUME NEW r \in Requests, Crash(r) PROVE TypeOK'
    <2>1. req' \in [Requests -> Request]
      BY <1>9 DEF Crash, Abort, TypeOK, Request, NoRequest, Stage, Answer
    <2>2. ReqTyped'
      BY <1>9 DEF Crash, Abort, TypeOK, ReqTyped, Idle, NoRequest
    <2> QED
      BY <1>9, <2>1, <2>2 DEF Crash, Abort, TypeOK, ReqTyped, Idle
  <1>10. ASSUME NEW s \in Staff, Reassign(s) PROVE TypeOK'
    BY <1>10 DEF Reassign, TypeOK, Idle
  <1>11. ASSUME NEW c \in Customers, OpenOrder(c) \/ ReadTimeline(c) \/ CloseTimeline(c)
         PROVE  TypeOK'
    BY <1>11 DEF OpenOrder, ReadTimeline, CloseTimeline, TypeOK, Idle
  <1>12. CASE UNCHANGED vars
    BY <1>12 DEF vars, TypeOK, Idle
  <1> QED
    BY <1>1, <1>2, <1>3, <1>4, <1>5, <1>6, <1>7, <1>8, <1>9, <1>10, <1>11, <1>12
    DEF Next, Serve

\* TypeOK holds of every reachable state of the service.
THEOREM TypeCorrect == Spec => []TypeOK
  BY TypeInit, TypeNext, PTL DEF Spec

-----------------------------------------------------------------------------
(* A request between its UPDATE and its COMMIT                             *)

Inv == TypeOK /\ LockInv /\ RulesInv

\* Steps that touch neither a status nor a lock, and move at most one request,
\* to a stage that claims nothing.
LEMMA QuietStep ==
  ASSUME Inv, NEW r \in Requests,
         UNCHANGED <<status, rowLock>>,
         req' \in [Requests -> Request],
         \A x \in Requests : x # r => req'[x] = req[x],
         req'[r].at \notin {"applying", "inserting"}
  PROVE  (LockInv /\ RulesInv)'
  BY DEF Inv, LockInv, RulesInv

LEMMA InvInit == Init => Inv
  BY TypeInit DEF Init, Inv, LockInv, RulesInv, NoRequest

LEMMA InvNext == Inv /\ [Next]_vars => Inv'
  <1> SUFFICES ASSUME Inv, [Next]_vars PROVE (LockInv /\ RulesInv)'
    BY TypeNext DEF Inv
  <1>t. TypeOK /\ TypeOK'
    BY TypeNext DEF Inv
  <1>q. req \in [Requests -> Request] /\ req' \in [Requests -> Request]
    BY <1>t DEF TypeOK
  <1> USE DEF env
  <1>1. ASSUME NEW r \in Requests, Submit(r) PROVE (LockInv /\ RulesInv)'
    <2>1. UNCHANGED <<status, rowLock>>
      BY <1>1 DEF Submit
    <2>2. \A x \in Requests : x # r => req'[x] = req[x]
      BY <1>1, <1>q DEF Submit, Reply
    <2>3. req'[r].at \notin {"applying", "inserting"}
      BY <1>1, <1>q DEF Submit, Reply, NoRequest
    <2> QED
      BY <1>q, <2>1, <2>2, <2>3, QuietStep
  <1>2. ASSUME NEW r \in Requests,
               LoadOrder(r) \/ ReloadOrder(r) \/ Respond(r)
        PROVE  (LockInv /\ RulesInv)'
    <2>1. UNCHANGED <<status, rowLock>>
      BY <1>2 DEF LoadOrder, ReloadOrder, Respond
    <2>2. \A x \in Requests : x # r => req'[x] = req[x]
      BY <1>2, <1>q DEF LoadOrder, ReloadOrder, Respond, Reply
    <2>3. req'[r].at \notin {"applying", "inserting"}
      <3>1. CASE LoadOrder(r) \/ ReloadOrder(r)
        BY <3>1, <1>q DEF LoadOrder, ReloadOrder, Request
      <3>2. CASE Respond(r)
        BY <3>2, <1>t, ReplyTyped DEF Respond, Answer, Idle
      <3> QED
        BY <1>2, <3>1, <3>2
    <2> QED
      BY <1>q, <2>1, <2>2, <2>3, QuietStep
  <1>3. ASSUME NEW r \in Requests, Decide(r) PROVE (LockInv /\ RulesInv)'
    <2>1. UNCHANGED <<status, rowLock>>
      BY <1>3 DEF Decide
    <2>2. CASE \E a \in Answer : Reply(r, a)
      <3>1. \A x \in Requests : x # r => req'[x] = req[x]
        BY <2>2, <1>t, ReplyTyped
      <3>2. req'[r].at \notin {"applying", "inserting"}
        BY <2>2, <1>t, ReplyTyped DEF Idle
      <3> QED
        BY <1>q, <2>1, <3>1, <3>2, QuietStep
    <2>3. CASE /\ CanTransition(req[r].from, req[r].target, typeOf[req[r].order])
               /\ ReasonRequired(req[r].target) => req[r].reason # "blank"
               /\ req[r].reason # "too_long"
               /\ req' = [req EXCEPT ![r].at = "applying"]
      <3>1. \A x \in Requests : x # r => req'[x] = req[x]
        BY <2>3, <1>q
      <3>2. /\ req'[r].at = "applying"
            /\ req'[r].from = req[r].from /\ req'[r].target = req[r].target
            /\ req'[r].order = req[r].order /\ req'[r].reason = req[r].reason
        BY <2>3, <1>q DEF Request
      <3>3. LockInv'
        BY <2>1, <3>1, <3>2 DEF Inv, LockInv
      <3>4. RulesInv'
        BY <2>3, <3>1, <3>2 DEF Inv, RulesInv
      <3> QED
        BY <3>3, <3>4
    <2> QED
      BY <1>3, <2>2, <2>3 DEF Decide, Answer
  <1>4. ASSUME NEW r \in Requests, GuardedUpdate(r) PROVE (LockInv /\ RulesInv)'
    <2>0. req[r].order \in Orders
      BY <1>4, <1>t DEF GuardedUpdate, TypeOK, Idle
    <2>1. CASE status[req[r].order] = req[r].from
      <3>1. req' = [req EXCEPT ![r].at = "inserting"]
        BY <1>4, <2>1 DEF GuardedUpdate
      <3>2. \A x \in Requests : x # r => req'[x] = req[x]
        BY <3>1, <1>q
      <3>3. /\ req'[r].at = "inserting"
            /\ req'[r].from = req[r].from /\ req'[r].target = req[r].target
            /\ req'[r].order = req[r].order /\ req'[r].reason = req[r].reason
        BY <3>1, <1>q DEF Request
      <3>4. /\ rowLock' = [rowLock EXCEPT ![req[r].order] = r]
            /\ rowLock[req[r].order] = NoLock
            /\ status' = status
        BY <1>4, <2>1 DEF GuardedUpdate
      <3>5. RulesInv'
        <4>1. req[r].at = "applying"
          BY <1>4 DEF GuardedUpdate
        <4> QED
          BY <3>2, <3>3, <4>1 DEF Inv, RulesInv
      <3>6. LockInv'
        <4> SUFFICES ASSUME NEW x \in Requests, req'[x].at = "inserting"
                     PROVE  /\ rowLock'[req'[x].order] = x
                            /\ status'[req'[x].order] = req'[x].from
          BY DEF LockInv
        <4>1. CASE x = r
          BY <4>1, <2>0, <2>1, <3>3, <3>4, <1>t DEF TypeOK
        <4>2. CASE x # r
          <5>1. req'[x] = req[x] /\ rowLock[req[x].order] = x
            BY <4>2, <3>2 DEF Inv, LockInv
          <5>2. req[x].order # req[r].order
            BY <5>1, <3>4, OrderConfig
          <5> QED
            BY <5>1, <5>2, <3>4, <1>t DEF Inv, LockInv, TypeOK, Idle
        <4> QED
          BY <4>1, <4>2
      <3> QED
        BY <3>5, <3>6
    <2>2. CASE status[req[r].order] # req[r].from
      <3>1. Reply(r, "conflict") /\ UNCHANGED <<status, rowLock>>
        BY <1>4, <2>2 DEF GuardedUpdate
      <3>2. /\ \A x \in Requests : x # r => req'[x] = req[x]
            /\ req'[r].at \notin {"applying", "inserting"}
        BY <3>1, <1>q DEF Reply, NoRequest
      <3> QED
        BY <1>q, <3>1, <3>2, QuietStep
    <2> QED
      BY <2>1, <2>2
  <1>5. ASSUME NEW r \in Requests, InsertAndCommit(r) PROVE (LockInv /\ RulesInv)'
    <2>1. /\ req[r].at = "inserting" /\ req[r].order \in Orders
          /\ rowLock[req[r].order] = r
      BY <1>5, <1>t DEF InsertAndCommit, TypeOK, Idle, Inv, LockInv
    <2>2. /\ \A x \in Requests : x # r => req'[x] = req[x]
          /\ req'[r].at \notin {"applying", "inserting"}
      <3>1. CASE Reply(r, "internal")
        BY <3>1, <1>t, ReplyTyped DEF Answer, Idle
      <3>2. CASE req' = [req EXCEPT ![r].at = "committed"]
        BY <3>2, <1>q DEF Request
      <3> QED
        BY <1>5, <3>1, <3>2 DEF InsertAndCommit
    <2>3. RulesInv'
      BY <2>2 DEF Inv, RulesInv
    <2>4. LockInv'
      <3> SUFFICES ASSUME NEW x \in Requests, req'[x].at = "inserting"
                   PROVE  /\ rowLock'[req'[x].order] = x
                          /\ status'[req'[x].order] = req'[x].from
        BY DEF LockInv
      <3>1. x # r /\ req'[x] = req[x]
        BY <2>2
      <3>2. rowLock[req[x].order] = x /\ req[x].order # req[r].order
        BY <3>1, <2>1 DEF Inv, LockInv
      <3>3. req[x].order \in Orders
        BY <3>1, <1>t DEF TypeOK, Idle
      <3> QED
        BY <1>5, <3>1, <3>2, <3>3, <1>t DEF InsertAndCommit, TypeOK, Inv, LockInv
    <2> QED
      BY <2>3, <2>4
  <1>6. ASSUME NEW r \in Requests, DatabaseError(r) \/ Crash(r)
        PROVE  (LockInv /\ RulesInv)'
    <2>1. /\ \A x \in Requests : x # r => req'[x] = req[x]
          /\ req'[r].at \notin {"applying", "inserting"}
      <3>1. CASE DatabaseError(r)
        BY <3>1, <1>t, ReplyTyped DEF DatabaseError, Abort, Answer, Idle
      <3>2. CASE Crash(r)
        BY <3>2, <1>q DEF Crash, Abort, NoRequest
      <3> QED
        BY <1>6, <3>1, <3>2
    <2>2. RulesInv'
      BY <2>1 DEF Inv, RulesInv
    <2>3. LockInv'
      <3> SUFFICES ASSUME NEW x \in Requests, req'[x].at = "inserting"
                   PROVE  /\ rowLock'[req'[x].order] = x
                          /\ status'[req'[x].order] = req'[x].from
        BY DEF LockInv
      <3>1. x # r /\ req'[x] = req[x] /\ req[x].order \in Orders
        BY <2>1, <1>t DEF TypeOK, Idle
      <3> QED
        BY <1>6, <3>1, <1>t DEF DatabaseError, Crash, Abort, TypeOK, Inv, LockInv
    <2> QED
      BY <2>2, <2>3
  <1>7. ASSUME NEW s \in Staff, Reassign(s) PROVE (LockInv /\ RulesInv)'
    BY <1>7 DEF Reassign, Inv, LockInv, RulesInv
  <1>8. ASSUME NEW c \in Customers, OpenOrder(c) \/ ReadTimeline(c) \/ CloseTimeline(c)
        PROVE  (LockInv /\ RulesInv)'
    BY <1>8 DEF OpenOrder, ReadTimeline, CloseTimeline, Inv, LockInv, RulesInv
  <1>9. CASE UNCHANGED vars
    BY <1>9 DEF vars, Inv, LockInv, RulesInv
  <1> QED
    BY <1>1, <1>2, <1>3, <1>4, <1>5, <1>6, <1>7, <1>8, <1>9 DEF Next, Serve

LEMMA InvCorrect == Spec => []Inv
  BY InvInit, InvNext, PTL DEF Spec

-----------------------------------------------------------------------------
(* The service implements the promise                                      *)

\* The only step that changes a status or a trail is the commit.
LEMMA OnlyCommitWrites ==
  ASSUME [Next]_vars, ~\E r \in Requests : InsertAndCommit(r)
  PROVE  UNCHANGED <<status, history>>
  BY DEF Next, Serve, vars, Submit, LoadOrder, Decide, GuardedUpdate, ReloadOrder,
         Respond, DatabaseError, Crash, Abort, Reassign, OpenOrder, ReadTimeline,
         CloseTimeline

\* What a commit does, in the terms of the lifecycle: it moves an order from
\* the status it still has, along an edge its type allows, with a reason where
\* one is required.
LEMMA CommitMoves ==
  ASSUME Inv, NEW r \in Requests, InsertAndCommit(r)
  PROVE  LET q == req[r]
             e == [from |-> status[q.order], to |-> q.target,
                   reason |-> q.reason, actor |-> q.actor]
         IN /\ q.order \in Orders /\ q.actor \in Staff
            /\ q.target \in AllStatuses /\ q.reason \in Reasons
            /\ CanTransition(status[q.order], q.target, typeOf[q.order])
            /\ ReasonRequired(q.target) => q.reason = "given"
            /\ q.reason # "too_long"
            /\ status'  = [status EXCEPT ![q.order] = q.target]
            /\ history' = [history EXCEPT ![q.order] = Append(@, e)]
  <1>1. /\ req[r].at = "inserting"
        /\ req[r].order \in Orders /\ req[r].actor \in Staff
        /\ req[r].target \in AllStatuses /\ req[r].reason \in Reasons
    BY DEF InsertAndCommit, Inv, TypeOK, Idle
  <1>2. status[req[r].order] = req[r].from
    BY <1>1 DEF Inv, LockInv
  <1>3. /\ CanTransition(req[r].from, req[r].target, typeOf[req[r].order])
        /\ ReasonRequired(req[r].target) => req[r].reason # "blank"
        /\ req[r].reason # "too_long"
    BY <1>1 DEF Inv, RulesInv
  <1>4. ReasonRequired(req[r].target) => req[r].reason = "given"
    BY <1>1, <1>3 DEF Reasons
  <1> QED
    BY <1>1, <1>2, <1>3, <1>4 DEF InsertAndCommit

\* Every behaviour of the service, with all its interleavings, failures and
\* crashes, is a behaviour of the abstract order.
THEOREM ServiceImplementsOrder == Spec => ImplementsOrder
  <1>0. /\ Abs!AllStatuses = AllStatuses
        /\ \A s : Abs!ReasonRequired(s) <=> ReasonRequired(s)
        /\ \A s, t, ty : Abs!CanTransition(s, t, ty) <=> CanTransition(s, t, ty)
    <2>1. Abs!AllStatuses = AllStatuses
      BY DEF AllStatuses, Abs!AllStatuses
    <2>2. Abs!Transitions = Transitions
      BY <2>1 DEF Transitions, Abs!Transitions
    <2> QED
      BY <2>1, <2>2 DEF CanTransition, Abs!CanTransition, allowedFor, Abs!allowedFor,
                        ReasonRequired, Abs!ReasonRequired
  <1>1. Init => Abs!AInit
    BY <1>0, OrderConfig DEF Init, Abs!AInit
  <1>2. Inv /\ [Next]_vars => [Abs!ANext]_(Abs!avars)
    <2> SUFFICES ASSUME Inv, [Next]_vars PROVE [Abs!ANext]_(Abs!avars)
      OBVIOUS
    <2>1. ASSUME NEW r \in Requests, InsertAndCommit(r) PROVE Abs!ANext
      <3> DEFINE q == req[r]
      <3>1. Abs!Move(q.order, q.target, q.reason, q.actor)
        BY <1>0, <2>1, CommitMoves DEF Abs!Move
      <3>2. /\ q.order \in Orders /\ q.actor \in Staff
            /\ q.target \in AllStatuses /\ q.reason \in Abs!Reasons
        BY <2>1, CommitMoves DEF Abs!Reasons, Reasons
      <3> QED
        BY <1>0, <3>1, <3>2 DEF Abs!ANext
    <2> QED
      BY <2>1, OnlyCommitWrites DEF Abs!avars
  <1> QED
    BY <1>1, <1>2, InvCorrect, PTL DEF Spec, ImplementsOrder, Abs!ASpec

-----------------------------------------------------------------------------
(* The trail                                                               *)

\* What makes the trail's properties inductive: an entry's status is behind,
\* in rank, the entries after it and the status the order has now.
Behind ==
  \A o \in Orders : \A i \in 1..Len(history[o]) :
    /\ Rank[history[o][i].from] < Rank[status[o]]
    /\ \A j \in 1..Len(history[o]) :
         i < j => Rank[history[o][i].from] < Rank[history[o][j].from]

TrailInv == HistoryExplainsStatus /\ Behind

LEMMA TrailInit == Init => TrailInv
  BY DEF Init, TrailInv, HistoryExplainsStatus, Behind

LEMMA TrailStep ==
  ASSUME Inv, TrailInv, NEW r \in Requests, InsertAndCommit(r)
  PROVE  TrailInv'
  <1> DEFINE p == req[r].order
             to == req[r].target
             e == [from |-> status[p], to |-> to,
                   reason |-> req[r].reason, actor |-> req[r].actor]
  <1>1. /\ p \in Orders /\ to \in AllStatuses /\ e \in Entry
        /\ CanTransition(status[p], to, typeOf[p])
        /\ status'  = [status EXCEPT ![p] = to]
        /\ history' = [history EXCEPT ![p] = Append(@, e)]
    BY CommitMoves DEF Inv, TypeOK, Entry
  <1>2. /\ status \in [Orders -> AllStatuses] /\ history \in [Orders -> Seq(Entry)]
        /\ born' = born
    BY DEF Inv, TypeOK, InsertAndCommit, env
  <1>3. \A o \in Orders : o # p => status'[o] = status[o] /\ history'[o] = history[o]
    BY <1>1, <1>2
  <1>4. status'[p] = to /\ history'[p] = Append(history[p], e)
    BY <1>1, <1>2
  <1> DEFINE h == history[p]
             n == Len(h)
  <1> HIDE DEF e, to, p
  <1>5. /\ h \in Seq(Entry) /\ n \in Nat
        /\ Len(history'[p]) = n + 1
        /\ history'[p][n + 1] = e
        /\ \A i \in 1..n : history'[p][i] = h[i]
    BY <1>1, <1>2, <1>4, AppendProperties, LenProperties
  <1>6. e.from = status[p] /\ e.to = to
    BY DEF e
  <1>7. HistoryExplainsStatus'
    <2> SUFFICES ASSUME NEW o \in Orders
                 PROVE  /\ history'[o] = <<>> => status'[o] = born'[o]
                        /\ history'[o] # <<>> =>
                             /\ history'[o][1].from = born'[o]
                             /\ history'[o][Len(history'[o])].to = status'[o]
                        /\ \A i \in 1..Len(history'[o]) - 1 :
                             history'[o][i].to = history'[o][i + 1].from
      BY DEF HistoryExplainsStatus
    <2>1. CASE o # p
      BY <2>1, <1>2, <1>3 DEF TrailInv, HistoryExplainsStatus
    <2>2. CASE o = p
      <3>1. history'[p] # <<>>
        BY <1>5, EmptySeq
      <3>2. history'[p][1].from = born[p]
        <4>1. CASE n = 0
          BY <4>1, <1>1, <1>5, <1>6, EmptySeq DEF TrailInv, HistoryExplainsStatus
        <4>2. CASE n # 0
          <5>1. h # <<>> /\ 1 \in 1..n
            BY <4>2, <1>5
          <5> QED
            BY <5>1, <1>1, <1>5 DEF TrailInv, HistoryExplainsStatus
        <4> QED
          BY <4>1, <4>2
      <3>3. history'[p][n + 1].to = status'[p]
        BY <1>4, <1>5, <1>6
      <3>4. \A i \in 1..n : history'[p][i].to = history'[p][i + 1].from
        <4> TAKE i \in 1..n
        <4>1. CASE i = n
          <5>1. h # <<>> /\ h[n].to = status[p]
            BY <4>1, <1>1, <1>5, EmptySeq DEF TrailInv, HistoryExplainsStatus
          <5> QED
            BY <5>1, <4>1, <1>5, <1>6
        <4>2. CASE i # n
          <5>1. i \in 1..n-1 /\ i + 1 \in 1..n
            BY <4>2, <1>5
          <5>2. h[i].to = h[i + 1].from
            BY <5>1, <1>1 DEF TrailInv, HistoryExplainsStatus
          <5> QED
            BY <5>1, <5>2, <1>5
        <4> QED
          BY <4>1, <4>2
      <3> QED
        BY <2>2, <3>1, <3>2, <3>3, <3>4, <1>2, <1>5
    <2> QED
      BY <2>1, <2>2
  <1>8. Behind'
    <2> SUFFICES ASSUME NEW o \in Orders, NEW i \in 1..Len(history'[o])
                 PROVE  /\ Rank[history'[o][i].from] < Rank[status'[o]]
                        /\ \A j \in 1..Len(history'[o]) :
                             i < j => Rank[history'[o][i].from] < Rank[history'[o][j].from]
      BY DEF Behind
    <2>1. CASE o # p
      BY <2>1, <1>3 DEF TrailInv, Behind
    <2>2. CASE o = p
      <3>1. /\ Rank[status[p]] \in Nat /\ Rank[to] \in Nat
            /\ Rank[status[p]] < Rank[to]
        BY <1>1, <1>2, RankGrows
      <3>2. \A k \in 1..n : /\ Rank[h[k].from] \in Nat
                            /\ Rank[h[k].from] < Rank[status[p]]
        <4> TAKE k \in 1..n
        <4>0. h[k] \in Entry
          <5> HIDE DEF h
          <5> QED
            BY <1>5, ElementOfSeq
        <4>1. h[k].from \in AllStatuses
          BY <4>0 DEF Entry
        <4> QED
          BY <4>1, <1>1 DEF TrailInv, Behind, Rank
      <3>3. CASE i = n + 1
        BY <2>2, <3>1, <3>3, <1>4, <1>5, <1>6
      <3>4. CASE i \in 1..n
        <4>1. history'[p][i].from = h[i].from
          BY <3>4, <1>5
        <4>2. Rank[h[i].from] < Rank[to]
          BY <3>1, <3>2, <3>4
        <4>3. ASSUME NEW j \in 1..n+1, i < j
              PROVE  Rank[h[i].from] < Rank[history'[p][j].from]
          <5>1. CASE j = n + 1
            BY <5>1, <3>2, <3>4, <1>5, <1>6
          <5>2. CASE j \in 1..n
            BY <5>2, <4>3, <3>4, <1>1, <1>5 DEF TrailInv, Behind
          <5> QED
            BY <5>1, <5>2, <1>5
        <4> QED
          BY <2>2, <4>1, <4>2, <4>3, <1>4, <1>5
      <3> QED
        BY <2>2, <3>3, <3>4, <1>5
    <2> QED
      BY <2>1, <2>2
  <1> QED
    BY <1>7, <1>8 DEF TrailInv

LEMMA TrailNext == Inv /\ TrailInv /\ [Next]_vars => TrailInv'
  <1> SUFFICES ASSUME Inv, TrailInv, [Next]_vars PROVE TrailInv'
    OBVIOUS
  <1>1. CASE \E r \in Requests : InsertAndCommit(r)
    BY <1>1, TrailStep
  <1>2. CASE ~\E r \in Requests : InsertAndCommit(r)
    <2>1. UNCHANGED <<status, history>>
      BY <1>2, OnlyCommitWrites
    <2>2. born' = born
      BY DEF Next, Serve, vars, env, Submit, LoadOrder, Decide, GuardedUpdate,
             InsertAndCommit, ReloadOrder, Respond, DatabaseError, Crash, Abort,
             Reassign, OpenOrder, ReadTimeline, CloseTimeline
    <2> QED
      BY <2>1, <2>2 DEF TrailInv, HistoryExplainsStatus, Behind
  <1> QED
    BY <1>1, <1>2

LEMMA TrailCorrect == Spec => []TrailInv
  BY TrailInit, TrailNext, InvCorrect, PTL DEF Spec

\* The rows of an order always chain from the status it entered with to the
\* status it has: no unexplained status and no explanation of a status that
\* was never reached.
THEOREM TrailExplainsStatus == Spec => []HistoryExplainsStatus
  BY TrailCorrect, PTL DEF TrailInv

\* Of all the changes decided on one status of an order, one is recorded.
THEOREM AtMostOneWinner == Spec => []OneWinner
  <1>1. Inv /\ TrailInv => OneWinner
    <2> SUFFICES ASSUME Inv, TrailInv, NEW o \in Orders,
                        NEW i \in 1..Len(history[o]), NEW j \in 1..Len(history[o]),
                        history[o][i].from = history[o][j].from
                 PROVE  i = j
      BY DEF OneWinner
    <2>1. history[o] \in Seq(Entry)
      BY DEF Inv, TypeOK
    <2>a. history[o][i] \in Entry
      BY <2>1, ElementOfSeq
    <2>2. history[o][i].from \in AllStatuses
      BY <2>a DEF Entry
    <2>3. Rank[history[o][i].from] \in Nat
      BY <2>2 DEF Rank
    <2>4. ~(i < j) /\ ~(j < i)
      BY <2>3 DEF TrailInv, Behind
    <2> QED
      BY <2>1, <2>4, LenProperties
  <1> QED
    BY <1>1, InvCorrect, TrailCorrect, PTL

-----------------------------------------------------------------------------
(* What the trail says of those who moved an order                         *)

\* Trails only grow: what is recorded stays, in its place.
LEMMA TrailGrows ==
  ASSUME Inv, [Next]_vars, NEW o \in Orders
  PROVE  /\ Len(history[o]) \in Nat /\ Len(history'[o]) \in Nat
         /\ Len(history[o]) <= Len(history'[o])
         /\ \A i \in 1..Len(history[o]) : history'[o][i] = history[o][i]
  <1>0. history \in [Orders -> Seq(Entry)]
    BY DEF Inv, TypeOK
  <1>a. history[o] \in Seq(Entry) /\ Len(history[o]) \in Nat
    BY <1>0, LenProperties
  <1>1. ASSUME NEW r \in Requests, InsertAndCommit(r)
        PROVE  history'[o] = history[o] \/ \E e \in Entry : history'[o] = Append(history[o], e)
    <2> DEFINE e == [from |-> status[req[r].order], to |-> req[r].target,
                     reason |-> req[r].reason, actor |-> req[r].actor]
    <2>1. /\ req[r].order \in Orders /\ e \in Entry
          /\ history' = [history EXCEPT ![req[r].order] = Append(@, e)]
      BY <1>1, CommitMoves DEF Inv, TypeOK, Entry
    <2> QED
      BY <1>0, <2>1
  <1>2. CASE \E r \in Requests : InsertAndCommit(r)
    <2>1. history'[o] = history[o] \/ \E e \in Entry : history'[o] = Append(history[o], e)
      BY <1>1, <1>2
    <2> QED
      BY <1>a, <2>1, AppendProperties
  <1>3. CASE ~\E r \in Requests : InsertAndCommit(r)
    BY <1>3, <1>a, OnlyCommitWrites
  <1> QED
    BY <1>2, <1>3

\* Who may act was assigned at some time: everybody who is assigned now, every
\* request that passed the scope check, and every entry of a trail.
Allowed(actor, o) == actor \in SuperAdmins \/ shopOf[o] \in everAssigned[actor]

ActorsInv ==
  /\ \A s \in Staff : assigned[s] \subseteq everAssigned[s]
  /\ \A r \in Requests :
       req[r].at \in {"applying", "inserting"} => Allowed(req[r].actor, req[r].order)
  /\ RecordedActorsWereAssigned

\* Nobody loses an assignment from the record of all there ever were.
LEMMA EverGrows ==
  ASSUME Inv, [Next]_vars, NEW s \in Staff, assigned[s] \subseteq everAssigned[s]
  PROVE  everAssigned[s] \subseteq everAssigned'[s] /\ assigned'[s] \subseteq everAssigned'[s]
  <1>1. ASSUME NEW t \in Staff, Reassign(t)
        PROVE  everAssigned[s] \subseteq everAssigned'[s] /\ assigned'[s] \subseteq everAssigned'[s]
    <2>1. PICK shops \in SUBSET Shops :
            /\ assigned' = [assigned EXCEPT ![t] = shops]
            /\ everAssigned' = [everAssigned EXCEPT ![t] = @ \cup shops]
      BY <1>1 DEF Reassign
    <2> QED
      BY <2>1 DEF Inv, TypeOK
  <1>2. CASE ~\E t \in Staff : Reassign(t)
    <2>1. UNCHANGED <<assigned, everAssigned>>
      BY <1>2 DEF Next, Serve, vars, env, Submit, LoadOrder, Decide, GuardedUpdate,
             InsertAndCommit, ReloadOrder, Respond, DatabaseError, Crash, Abort,
             OpenOrder, ReadTimeline, CloseTimeline
    <2> QED
      BY <2>1
  <1> QED
    BY <1>1, <1>2

\* A request gets past the rules only by Decide, which checked the scope, and
\* keeps its operator and order from there on.
LEMMA PastRules ==
  ASSUME Inv, [Next]_vars, NEW r \in Requests, req'[r].at \in {"applying", "inserting"}
  PROVE  /\ req'[r].actor = req[r].actor /\ req'[r].order = req[r].order
         /\ req[r].at \in {"loaded", "applying", "inserting"}
         /\ req[r].at = "loaded" => InScope(req[r].actor, req[r].order)
  <1>t. req \in [Requests -> Request]
    BY DEF Inv, TypeOK
  <1>1. CASE req'[r] = req[r]
    BY <1>1
  <1>2. CASE req'[r] # req[r]
    <2>1. ASSUME NEW x \in Requests, Submit(x) PROVE FALSE
      BY <1>t, <1>2, <2>1 DEF Submit, Reply, NoRequest
    <2>2. ASSUME NEW x \in Requests, LoadOrder(x) \/ ReloadOrder(x) PROVE FALSE
      BY <1>t, <1>2, <2>2 DEF LoadOrder, ReloadOrder, Request
    <2>3. ASSUME NEW x \in Requests, NEW a \in Answer, Reply(x, a) PROVE FALSE
      BY <1>2, <2>3, ReplyTyped DEF Inv, Idle
    <2>4. ASSUME NEW x \in Requests, Decide(x)
          PROVE  /\ x = r /\ req' = [req EXCEPT ![r].at = "applying"]
                 /\ req[r].at = "loaded" /\ InScope(req[r].actor, req[r].order)
      BY <1>t, <1>2, <2>3, <2>4 DEF Decide, Answer
    <2>5. ASSUME NEW x \in Requests, GuardedUpdate(x)
          PROVE  /\ x = r /\ req' = [req EXCEPT ![r].at = "inserting"] /\ req[r].at = "applying"
      BY <1>t, <1>2, <2>3, <2>5 DEF GuardedUpdate, Answer
    <2>6. ASSUME NEW x \in Requests, InsertAndCommit(x) PROVE FALSE
      <3>1. CASE req' = [req EXCEPT ![x].at = "committed"]
        BY <1>t, <1>2, <3>1 DEF Request
      <3> QED
        BY <2>3, <2>6, <3>1 DEF InsertAndCommit, Answer
    <2>7. ASSUME NEW x \in Requests, Respond(x) \/ DatabaseError(x) PROVE FALSE
      BY <2>3, <2>7 DEF Respond, DatabaseError, Abort, Answer
    <2>8. ASSUME NEW x \in Requests, Crash(x) PROVE FALSE
      BY <1>t, <1>2, <2>8 DEF Crash, Abort, NoRequest
    <2>9. ASSUME \/ \E s \in Staff : Reassign(s)
                 \/ \E c \in Customers : OpenOrder(c) \/ ReadTimeline(c) \/ CloseTimeline(c)
                 \/ UNCHANGED vars
          PROVE  FALSE
      BY <1>2, <2>9 DEF Reassign, OpenOrder, ReadTimeline, CloseTimeline, vars
    <2>10. Decide(r) \/ GuardedUpdate(r)
      BY <2>1, <2>2, <2>4, <2>5, <2>6, <2>7, <2>8, <2>9 DEF Next, Serve
    <2> QED
      BY <1>t, <2>4, <2>5, <2>10 DEF Request
  <1> QED
    BY <1>1, <1>2

LEMMA ActorsNext == Inv /\ ActorsInv /\ [Next]_vars => ActorsInv'
  <1> SUFFICES ASSUME Inv, ActorsInv, [Next]_vars PROVE ActorsInv'
    OBVIOUS
  <1>1. \A s \in Staff : everAssigned[s] \subseteq everAssigned'[s]
                         /\ assigned'[s] \subseteq everAssigned'[s]
    BY EverGrows DEF ActorsInv
  <1>2. ASSUME NEW r \in Requests, req'[r].at \in {"applying", "inserting"}
        PROVE  \/ req'[r].actor \in SuperAdmins
               \/ shopOf[req'[r].order] \in everAssigned'[req'[r].actor]
    <2>1. /\ req'[r].actor = req[r].actor /\ req'[r].order = req[r].order
          /\ req[r].at \in {"loaded", "applying", "inserting"}
          /\ req[r].at = "loaded" => InScope(req[r].actor, req[r].order)
      BY <1>2, PastRules
    <2>2. req[r].actor \in Staff
      BY <2>1 DEF Inv, TypeOK, Idle
    <2>3. Allowed(req[r].actor, req[r].order)
      BY <2>1, <2>2 DEF ActorsInv, Allowed, InScope
    <2> QED
      BY <1>1, <2>1, <2>2, <2>3 DEF Allowed
  <1>3. ASSUME NEW o \in Orders, NEW i \in 1..Len(history'[o])
        PROVE  \/ history'[o][i].actor \in SuperAdmins
               \/ shopOf[o] \in everAssigned'[history'[o][i].actor]
    <2>0. /\ Len(history[o]) \in Nat /\ Len(history'[o]) \in Nat
          /\ \A k \in 1..Len(history[o]) : history'[o][k] = history[o][k]
          /\ history \in [Orders -> Seq(Entry)]
      BY TrailGrows DEF Inv, TypeOK
    <2>1. CASE i \in 1..Len(history[o])
      <3>1. history[o][i] \in Entry
        BY <2>0, <2>1, ElementOfSeq
      <3>2. history[o][i].actor \in Staff /\ Allowed(history[o][i].actor, o)
        BY <2>1, <3>1 DEF Entry, ActorsInv, RecordedActorsWereAssigned, Allowed
      <3> QED
        BY <1>1, <2>0, <2>1, <3>2 DEF Allowed
    <2>2. CASE i \notin 1..Len(history[o])
      <3>1. PICK r \in Requests : InsertAndCommit(r)
        BY <2>0, <2>2, OnlyCommitWrites
      <3> DEFINE q == req[r]
                 e == [from |-> status[q.order], to |-> q.target,
                       reason |-> q.reason, actor |-> q.actor]
      <3>2. /\ q.order \in Orders /\ q.actor \in Staff /\ e \in Entry
            /\ history' = [history EXCEPT ![q.order] = Append(@, e)]
        BY <3>1, CommitMoves DEF Inv, TypeOK, Entry
      <3>3. Allowed(q.actor, q.order)
        BY <3>1 DEF InsertAndCommit, ActorsInv
      <3>4. o = q.order
        BY <2>0, <2>2, <3>2
      <3>5. history'[o] = Append(history[o], e)
        BY <2>0, <3>2, <3>4
      <3> HIDE DEF e
      <3>6. history'[o][i] = e
        BY <2>0, <2>2, <3>2, <3>5, AppendProperties
      <3>7. e.actor = q.actor
        BY DEF e
      <3> QED
        BY <1>1, <3>2, <3>3, <3>4, <3>6, <3>7 DEF Allowed
    <2> QED
      BY <2>1, <2>2
  <1> QED
    BY <1>1, <1>2, <1>3 DEF ActorsInv, RecordedActorsWereAssigned, Allowed

\* Whoever is recorded as having moved an order sees every shop or was, at some
\* time, assigned to the shop of that order.
THEOREM ActorsWereAssigned == Spec => []RecordedActorsWereAssigned
  <1>1. Init => ActorsInv
    BY DEF Init, ActorsInv, RecordedActorsWereAssigned, NoRequest
  <1> QED
    BY <1>1, ActorsNext, InvCorrect, PTL DEF Spec, ActorsInv

-----------------------------------------------------------------------------
(* What callers and customers are told                                     *)

\* The trail h has the change q asked for.
Recorded(q, h, i) ==
  h[i] = [from |-> q.from, to |-> q.target, reason |-> q.reason, actor |-> q.actor]

\* ... and the status q was shown is that change's or a later one's.
Told(q, h) ==
  \E i \in 1..Len(h) : Recorded(q, h, i) /\ \E j \in i..Len(h) : h[j].to = q.seen

\* From its commit on a request that will be answered has its change in the
\* trail, from its second read on the status it saw too.
ToldInv ==
  \A r \in Requests :
    /\ req[r].at # "answered" => req[r].answer # "ok"
    /\ req[r].answer = "ok" => req[r].order \in Orders
    /\ req[r].at = "committed" =>
         \E i \in 1..Len(history[req[r].order]) : Recorded(req[r], history[req[r].order], i)
    /\ req[r].at = "reloaded" \/ req[r].answer = "ok" => Told(req[r], history[req[r].order])

\* What one request was told stays true as trails grow.
LEMMA ToldStays ==
  ASSUME Inv, [Next]_vars, NEW o \in Orders, NEW q
  PROVE  /\ (\E i \in 1..Len(history[o]) : Recorded(q, history[o], i)) =>
              \E i \in 1..Len(history'[o]) : Recorded(q, history'[o], i)
         /\ Told(q, history[o]) => Told(q, history'[o])
  <1>1. /\ Len(history[o]) \in Nat /\ Len(history'[o]) \in Nat
        /\ Len(history[o]) <= Len(history'[o])
        /\ \A i \in 1..Len(history[o]) : history'[o][i] = history[o][i]
    BY TrailGrows
  <1> DEFINE m == Len(history[o])
             n == Len(history'[o])
  <1>2. \A i \in 1..m : /\ i \in 1..n /\ history'[o][i] = history[o][i]
                        /\ \A j \in i..m : j \in i..n /\ j \in 1..m
    BY <1>1
  <1> HIDE DEF m, n
  <1>3. (\E i \in 1..m : Recorded(q, history[o], i)) => \E i \in 1..n : Recorded(q, history'[o], i)
    BY <1>2 DEF Recorded
  <1>4. ASSUME NEW i \in 1..m, Recorded(q, history[o], i),
               NEW j \in i..m, history[o][j].to = q.seen
        PROVE  \E k \in 1..n : Recorded(q, history'[o], k) /\ \E l \in k..n : history'[o][l].to = q.seen
    <2>1. i \in 1..n /\ j \in i..n /\ history'[o][j] = history[o][j] /\ history'[o][i] = history[o][i]
      BY <1>2, <1>4
    <2> QED
      BY <1>4, <2>1 DEF Recorded
  <1> QED
    BY <1>3, <1>4 DEF Told, m, n

\* A request about which a step says nothing.
LEMMA OthersTold ==
  ASSUME Inv, ToldInv, [Next]_vars, NEW r \in Requests, req'[r] = req[r]
  PROVE  /\ req'[r].at # "answered" => req'[r].answer # "ok"
         /\ req'[r].answer = "ok" => req'[r].order \in Orders
         /\ req'[r].at = "committed" =>
              \E i \in 1..Len(history'[req'[r].order]) : Recorded(req'[r], history'[req'[r].order], i)
         /\ req'[r].at = "reloaded" \/ req'[r].answer = "ok" =>
              Told(req'[r], history'[req'[r].order])
  <1>1. req[r].at \in {"committed", "reloaded"} => req[r].order \in Orders
    BY DEF Inv, TypeOK, Idle
  <1> DEFINE q == req[r]
             o == req[r].order
  <1>2. ASSUME o \in Orders
        PROVE  /\ (\E i \in 1..Len(history[o]) : Recorded(q, history[o], i)) =>
                    \E i \in 1..Len(history'[o]) : Recorded(q, history'[o], i)
               /\ Told(q, history[o]) => Told(q, history'[o])
    BY <1>2, ToldStays
  <1> QED
    BY <1>1, <1>2 DEF ToldInv

\* An entry is added by a commit and is the last one then.
LEMMA CommitRecords ==
  ASSUME Inv, NEW r \in Requests, InsertAndCommit(r)
  PROVE  \E i \in 1..Len(history'[req[r].order]) : Recorded(req[r], history'[req[r].order], i)
  <1> DEFINE q == req[r]
             o == req[r].order
             e == [from |-> q.from, to |-> q.target, reason |-> q.reason, actor |-> q.actor]
  <1>1. /\ o \in Orders /\ history \in [Orders -> Seq(Entry)] /\ e \in Entry
        /\ history' = [history EXCEPT ![o] = Append(@, e)]
    BY DEF InsertAndCommit, Inv, TypeOK, Idle, Entry
  <1>2. history'[o] = Append(history[o], e) /\ history[o] \in Seq(Entry)
    BY <1>1
  <1> HIDE DEF e
  <1>3. /\ Len(history'[o]) \in Nat \ {0} /\ history'[o][Len(history'[o])] = e
    BY <1>1, <1>2, AppendProperties, LenProperties
  <1> QED
    BY <1>3 DEF Recorded, e

LEMMA ToldNext == Inv /\ TrailInv /\ ToldInv /\ [Next]_vars => ToldInv'
  <1> SUFFICES ASSUME Inv, TrailInv, ToldInv, [Next]_vars, NEW r \in Requests, req'[r] # req[r]
               PROVE  /\ req'[r].at # "answered" => req'[r].answer # "ok"
                      /\ req'[r].answer = "ok" => req'[r].order \in Orders
                      /\ req'[r].at = "committed" =>
                           \E i \in 1..Len(history'[req'[r].order]) :
                             Recorded(req'[r], history'[req'[r].order], i)
                      /\ req'[r].at = "reloaded" \/ req'[r].answer = "ok" =>
                           Told(req'[r], history'[req'[r].order])
    BY OthersTold DEF ToldInv
  <1> DEFINE Goal ==
        /\ req'[r].at # "answered" => req'[r].answer # "ok"
        /\ req'[r].answer = "ok" => req'[r].order \in Orders
        /\ req'[r].at = "committed" =>
             \E i \in 1..Len(history'[req'[r].order]) :
               Recorded(req'[r], history'[req'[r].order], i)
        /\ req'[r].at = "reloaded" \/ req'[r].answer = "ok" =>
             Told(req'[r], history'[req'[r].order])
  <1>t. req \in [Requests -> Request] /\ TypeOK
    BY DEF Inv, TypeOK
  <1>0. req[r].at # "answered" => req[r].answer # "ok"
    BY DEF ToldInv
  <1>1. ASSUME req'[r].at \notin {"committed", "reloaded"}, req'[r].answer # "ok" PROVE Goal
    BY <1>1
  <1>2. ASSUME NEW a \in Answer \ {"ok"}, Reply(r, a) PROVE Goal
    <2>1. req'[r] = [[NoRequest EXCEPT !.at = "answered"] EXCEPT !.answer = a]
      BY <1>t, <1>2 DEF Reply
    <2>2. req'[r].at = "answered" /\ req'[r].answer = a
      BY <2>1 DEF NoRequest
    <2> QED
      BY <1>1, <2>2
  <1>3. ASSUME Submit(r) PROVE Goal
    <2>1. CASE Reply(r, "validation")
      BY <1>2, <2>1 DEF Answer
    <2>2. CASE ~Reply(r, "validation")
      <3>1. req'[r].at = "received" /\ req'[r].answer # "ok"
        BY <1>t, <1>3, <2>2 DEF Submit, NoRequest
      <3> QED
        BY <1>1, <3>1
    <2> QED
      BY <2>1, <2>2
  <1>4. ASSUME LoadOrder(r) PROVE Goal
    <2>1. req'[r].at = "loaded" /\ req'[r].answer = req[r].answer /\ req[r].at = "received"
      BY <1>t, <1>4 DEF LoadOrder, Request
    <2> QED
      BY <1>0, <1>1, <2>1
  <1>5. ASSUME Decide(r) PROVE Goal
    <2>1. CASE req' = [req EXCEPT ![r].at = "applying"]
      <3>1. req'[r].at = "applying" /\ req'[r].answer = req[r].answer /\ req[r].at = "loaded"
        BY <1>t, <1>5, <2>1 DEF Decide, Request
      <3> QED
        BY <1>0, <1>1, <3>1
    <2> QED
      BY <1>2, <1>5, <2>1 DEF Decide, Answer
  <1>6. ASSUME GuardedUpdate(r) PROVE Goal
    <2>1. CASE req' = [req EXCEPT ![r].at = "inserting"]
      <3>1. req'[r].at = "inserting" /\ req'[r].answer = req[r].answer /\ req[r].at = "applying"
        BY <1>t, <1>6, <2>1 DEF GuardedUpdate, Request
      <3> QED
        BY <1>0, <1>1, <3>1
    <2> QED
      BY <1>2, <1>6, <2>1 DEF GuardedUpdate, Answer
  <1>7. ASSUME InsertAndCommit(r) PROVE Goal
    <2>1. CASE req' = [req EXCEPT ![r].at = "committed"]
      <3>1. /\ req'[r].at = "committed" /\ req'[r].answer = req[r].answer /\ req[r].at = "inserting"
            /\ req'[r].order = req[r].order /\ req'[r].from = req[r].from
            /\ req'[r].target = req[r].target /\ req'[r].reason = req[r].reason
            /\ req'[r].actor = req[r].actor
        BY <1>t, <1>7, <2>1 DEF InsertAndCommit, Request
      <3>2. \E i \in 1..Len(history'[req[r].order]) : Recorded(req[r], history'[req[r].order], i)
        BY <1>7, CommitRecords
      <3>3. \E i \in 1..Len(history'[req'[r].order]) : Recorded(req'[r], history'[req'[r].order], i)
        BY <3>1, <3>2 DEF Recorded
      <3> QED
        BY <1>0, <3>1, <3>3
    <2> QED
      BY <1>2, <1>7, <2>1 DEF InsertAndCommit, Answer
  <1>8. ASSUME ReloadOrder(r) PROVE Goal
    <2> DEFINE o == req[r].order
    <2>1. /\ req'[r].at = "reloaded" /\ req'[r].answer = req[r].answer /\ req[r].at = "committed"
          /\ req'[r].order = o /\ req'[r].from = req[r].from
          /\ req'[r].target = req[r].target /\ req'[r].reason = req[r].reason
          /\ req'[r].actor = req[r].actor /\ req'[r].seen = status[o] /\ history' = history
      BY <1>t, <1>8 DEF ReloadOrder, Request
    <2>2. o \in Orders
      BY <1>t, <2>1 DEF TypeOK, Idle
    <2>3. PICK i \in 1..Len(history[o]) : Recorded(req[r], history[o], i)
      BY <2>1 DEF ToldInv
    <2>4. Len(history[o]) \in Nat /\ history[o] # <<>>
      BY <1>t, <2>2, <2>3, LenProperties, EmptySeq DEF TypeOK
    <2>5. history[o][Len(history[o])].to = status[o]
      BY <2>2, <2>4 DEF TrailInv, HistoryExplainsStatus
    <2>6. Len(history[o]) \in i..Len(history[o])
      BY <2>4
    <2>7. Told(req'[r], history'[o])
      BY <2>1, <2>3, <2>5, <2>6 DEF Told, Recorded
    <2> QED
      BY <1>0, <2>1, <2>7
  <1>9. ASSUME Respond(r) PROVE Goal
    <2>1. CASE Reply(r, "ok")
      <3>1. /\ req'[r] = [[req[r] EXCEPT !.at = "answered"] EXCEPT !.answer = "ok"]
            /\ req[r].at = "reloaded" /\ history' = history
        BY <1>t, <1>9, <2>1 DEF Respond, Reply
      <3>2. /\ req'[r].at = "answered" /\ req'[r].answer = "ok"
            /\ req'[r].order = req[r].order /\ req'[r].from = req[r].from
            /\ req'[r].target = req[r].target /\ req'[r].reason = req[r].reason
            /\ req'[r].actor = req[r].actor /\ req'[r].seen = req[r].seen
        BY <1>t, <3>1 DEF Request
      <3>3. req[r].order \in Orders /\ Told(req[r], history[req[r].order])
        BY <1>t, <3>1 DEF ToldInv, TypeOK, Idle
      <3>4. Told(req'[r], history'[req'[r].order])
        BY <3>1, <3>2, <3>3 DEF Told, Recorded
      <3> QED
        BY <3>2, <3>3, <3>4
    <2> QED
      BY <1>2, <1>9, <2>1 DEF Respond, Answer
  <1>10. ASSUME DatabaseError(r) PROVE Goal
    BY <1>2, <1>10 DEF DatabaseError, Abort, Answer
  <1>11. ASSUME Crash(r) PROVE Goal
    <2>1. req'[r].at = "idle" /\ req'[r].answer # "ok"
      BY <1>t, <1>11 DEF Crash, Abort, NoRequest
    <2> QED
      BY <1>1, <2>1
  <1> HIDE DEF Goal
  <1>12. \A x \in Requests : Submit(x) \/ Serve(x) \/ DatabaseError(x) \/ Crash(x) =>
           \A y \in Requests : y # x => req'[y] = req[y]
    BY <1>t DEF Serve, Submit, LoadOrder, Decide, GuardedUpdate, InsertAndCommit, ReloadOrder,
                Respond, DatabaseError, Crash, Abort, Reply
  <1>13. \E x \in Requests : Submit(x) \/ Serve(x) \/ DatabaseError(x) \/ Crash(x)
    BY DEF Next, vars, Reassign, OpenOrder, ReadTimeline, CloseTimeline
  <1>14. Submit(r) \/ Serve(r) \/ DatabaseError(r) \/ Crash(r)
    BY <1>12, <1>13
  <1> QED
    BY <1>3, <1>4, <1>5, <1>6, <1>7, <1>8, <1>9, <1>10, <1>11, <1>14 DEF Serve, Goal

\* An operator who is told their change went through finds it in the trail, and
\* is shown the status it made or one the order moved on to.
THEOREM OkIsRecorded == Spec => []OkMeansRecorded
  <1>1. Init => ToldInv
    BY DEF Init, ToldInv, NoRequest
  <1>2. ToldInv => OkMeansRecorded
    BY DEF ToldInv, OkMeansRecorded, Told, Recorded
  <1> QED
    BY <1>1, <1>2, ToldNext, InvCorrect, TrailCorrect, PTL DEF Spec

\* The trail rows of order o account for the status seen.
Accounts(rows, o, seen) == seen = born[o] \/ \E i \in 1..Len(rows) : rows[i].to = seen

\* Between a customer's two reads the trail can only gain rows.
WatchInv ==
  /\ DOMAIN watch = Customers
  /\ \A c \in Customers :
       /\ watch[c].at \in {"opened", "read"} => watch[c].order \in Orders
       /\ watch[c].at = "opened" => Accounts(history[watch[c].order], watch[c].order, watch[c].seen)
       /\ watch[c].at = "read" => Accounts(watch[c].rows, watch[c].order, watch[c].seen)

LEMMA WatchNext == Inv /\ TrailInv /\ WatchInv /\ [Next]_vars => WatchInv'
  <1> SUFFICES ASSUME Inv, TrailInv, WatchInv, [Next]_vars PROVE WatchInv'
    OBVIOUS
  <1>1. born' = born
    BY DEF Next, Serve, vars, env, Submit, LoadOrder, Decide, GuardedUpdate,
           InsertAndCommit, ReloadOrder, Respond, DatabaseError, Crash, Abort,
           Reassign, OpenOrder, ReadTimeline, CloseTimeline
  <1>2. ASSUME NEW o \in Orders, NEW seen, Accounts(history[o], o, seen)
        PROVE  Accounts(history'[o], o, seen)
    <2>1. /\ Len(history[o]) \in Nat /\ Len(history'[o]) \in Nat
          /\ Len(history[o]) <= Len(history'[o])
          /\ \A i \in 1..Len(history[o]) : history'[o][i] = history[o][i]
      BY TrailGrows
    <2>2. \A i \in 1..Len(history[o]) : i \in 1..Len(history'[o])
      BY <2>1
    <2> QED
      BY <1>2, <2>1, <2>2 DEF Accounts
  <1>3. ASSUME watch' = watch PROVE WatchInv'
    BY <1>1, <1>2, <1>3 DEF WatchInv, Accounts
  <1>4. ASSUME NEW c \in Customers, OpenOrder(c) PROVE WatchInv'
    <2>1. PICK o \in Orders :
            watch' = [watch EXCEPT ![c] = [at |-> "opened", order |-> o, seen |-> status[o]]]
      BY <1>4 DEF OpenOrder
    <2>2. /\ watch'[c].at = "opened" /\ watch'[c].order = o /\ watch'[c].seen = status[o]
          /\ DOMAIN watch' = Customers /\ \A d \in Customers : d # c => watch'[d] = watch[d]
      BY <2>1 DEF WatchInv
    <2>3. Accounts(history[o], o, status[o])
      <3>1. history[o] \in Seq(Entry)
        BY DEF Inv, TypeOK
      <3>2. CASE history[o] = <<>>
        BY <3>2 DEF TrailInv, HistoryExplainsStatus, Accounts
      <3>3. CASE history[o] # <<>>
        <4>1. Len(history[o]) \in 1..Len(history[o])
          BY <3>1, <3>3, EmptySeq, LenProperties
        <4> QED
          BY <3>3, <4>1 DEF TrailInv, HistoryExplainsStatus, Accounts
      <3> QED
        BY <3>2, <3>3
    <2>4. history' = history
      BY <1>4 DEF OpenOrder
    <2> QED
      BY <1>1, <2>2, <2>3, <2>4 DEF WatchInv, Accounts
  <1>5. ASSUME NEW c \in Customers, ReadTimeline(c) PROVE WatchInv'
    <2>1. /\ watch[c].at = "opened" /\ history' = history
          /\ watch' = [watch EXCEPT ![c] =
                 [at |-> "read", order |-> watch[c].order, seen |-> watch[c].seen,
                  rows |-> history[watch[c].order]]]
      BY <1>5 DEF ReadTimeline, TimelineRows
    <2>2. /\ watch'[c].at = "read" /\ watch'[c].order = watch[c].order
          /\ watch'[c].seen = watch[c].seen /\ watch'[c].rows = history[watch[c].order]
          /\ DOMAIN watch' = Customers /\ \A d \in Customers : d # c => watch'[d] = watch[d]
      BY <2>1 DEF WatchInv
    <2> QED
      BY <1>1, <2>1, <2>2 DEF WatchInv, Accounts
  <1>6. ASSUME NEW c \in Customers, CloseTimeline(c) PROVE WatchInv'
    <2>1. /\ watch'[c].at = "idle" /\ history' = history
          /\ DOMAIN watch' = Customers /\ \A d \in Customers : d # c => watch'[d] = watch[d]
      BY <1>6 DEF CloseTimeline, WatchInv
    <2> QED
      BY <1>1, <2>1 DEF WatchInv, Accounts
  <1>7. watch' = watch \/ \E c \in Customers : OpenOrder(c) \/ ReadTimeline(c) \/ CloseTimeline(c)
    BY DEF Next, Serve, vars, Submit, LoadOrder, Decide, GuardedUpdate, InsertAndCommit,
           ReloadOrder, Respond, DatabaseError, Crash, Abort, Reassign
  <1> QED
    BY <1>3, <1>4, <1>5, <1>6, <1>7

\* The timeline a customer is shown always accounts for the status shown above
\* it, although the two are read one after the other.
THEOREM TimelineCovers == Spec => []TimelineCoversDetail
  <1>1. Init => WatchInv
    BY DEF Init, WatchInv
  <1>2. WatchInv => TimelineCoversDetail
    BY DEF WatchInv, TimelineCoversDetail, Accounts
  <1> QED
    BY <1>1, <1>2, WatchNext, InvCorrect, TrailCorrect, PTL DEF Spec

-----------------------------------------------------------------------------
(* The rules over the whole life of an order                               *)

Past(h, set) == \E i \in 1..Len(h) : h[i].to \in set

\* The rules of one order, given its trail and its status.
Rules(o, h, now) ==
  /\ /\ typeOf[o] = "DELIVERY" /\ now = "COMPLETED"
     /\ born[o] \notin {"DELIVERED", "COMPLETED"}
     => Past(h, {"DELIVERED"})
  /\ typeOf[o] = "TAKE_AWAY" /\ born[o] \notin Courier => ~Past(h, Courier)
  /\ \A i, j \in 1..Len(h) :
       i <= j /\ h[i].from \in Courier \ {"SEARCHING_DRIVER"} => h[j].to # "CANCELED"

\* A status the order did not enter with is one the trail has reached.
LEMMA Reached ==
  ASSUME Inv, TrailInv, NEW o \in Orders, NEW set, status[o] \in set, born[o] \notin set
  PROVE  Past(history[o], set)
  <1>1. history[o] \in Seq(Entry) /\ history[o] # <<>>
    BY DEF Inv, TypeOK, TrailInv, HistoryExplainsStatus
  <1>2. Len(history[o]) \in 1..Len(history[o])
    BY <1>1, EmptySeq, LenProperties
  <1> QED
    BY <1>1, <1>2 DEF TrailInv, HistoryExplainsStatus, Past

\* The edges the rules are about.
LEMMA Edges ==
  ASSUME NEW s \in AllStatuses, NEW t, NEW ty, CanTransition(s, t, ty)
  PROVE  /\ t = "COMPLETED" /\ ty = "DELIVERY" => s = "DELIVERED"
         /\ t \in Courier /\ ty = "TAKE_AWAY" => s \in Courier
         /\ t = "CANCELED" => Rank[s] <= 5
         /\ s # "COMPLETED"
  <1>1. ty = "DELIVERY" => ty # "TAKE_AWAY"
    OBVIOUS
  <1> QED
    BY <1>1 DEF CanTransition, allowedFor, Transitions, AllStatuses, Courier, Rank

LEMMA RulesStep ==
  ASSUME Inv, TrailInv, DeliveryRules, NEW r \in Requests, InsertAndCommit(r)
  PROVE  DeliveryRules'
  <1> DEFINE p == req[r].order
             to == req[r].target
             e == [from |-> status[p], to |-> to,
                   reason |-> req[r].reason, actor |-> req[r].actor]
  <1>1. /\ p \in Orders /\ to \in AllStatuses /\ e \in Entry
        /\ CanTransition(status[p], to, typeOf[p])
        /\ status'  = [status EXCEPT ![p] = to]
        /\ history' = [history EXCEPT ![p] = Append(@, e)]
    BY CommitMoves DEF Inv, TypeOK, Entry
  <1>2. /\ status \in [Orders -> AllStatuses] /\ history \in [Orders -> Seq(Entry)]
        /\ born' = born
    BY DEF Inv, TypeOK, InsertAndCommit, env
  <1>3. \A o \in Orders : o # p => status'[o] = status[o] /\ history'[o] = history[o]
    BY <1>1, <1>2
  <1>4. status'[p] = to /\ history'[p] = Append(history[p], e)
    BY <1>1, <1>2
  <1> DEFINE h == history[p]
             n == Len(h)
  <1> HIDE DEF e, to, p
  <1>5. /\ h \in Seq(Entry) /\ n \in Nat
        /\ Len(history'[p]) = n + 1
        /\ history'[p][n + 1] = e
        /\ \A i \in 1..n : history'[p][i] = h[i]
    BY <1>1, <1>2, <1>4, AppendProperties, LenProperties
  <1>6. e.from = status[p] /\ e.to = to
    BY DEF e
  <1>7. /\ to = "COMPLETED" /\ typeOf[p] = "DELIVERY" => status[p] = "DELIVERED"
        /\ to \in Courier /\ typeOf[p] = "TAKE_AWAY" => status[p] \in Courier
        /\ to = "CANCELED" => Rank[status[p]] <= 5
        /\ status[p] \in AllStatuses
    BY <1>1, <1>2, Edges
  <1>8. \A set : Past(h, set) => Past(history'[p], set)
    BY <1>5 DEF Past
  <1>9. Rules(p, h, status[p])
    BY <1>1 DEF DeliveryRules, Rules, Past
  <1>10. Rules(p, history'[p], to)
    <2>1. /\ typeOf[p] = "DELIVERY" /\ to = "COMPLETED" /\ born[p] \notin {"DELIVERED", "COMPLETED"}
          => Past(history'[p], {"DELIVERED"})
      BY <1>1, <1>7, <1>8, Reached
    <2>2. typeOf[p] = "TAKE_AWAY" /\ born[p] \notin Courier => ~Past(history'[p], Courier)
      <3> SUFFICES ASSUME typeOf[p] = "TAKE_AWAY", born[p] \notin Courier,
                          NEW i \in 1..n + 1, history'[p][i].to \in Courier
                   PROVE  FALSE
        BY <1>5 DEF Past
      <3>1. ~Past(h, Courier)
        BY <1>9 DEF Rules
      <3>2. i = n + 1
        BY <1>5, <3>1 DEF Past
      <3> QED
        BY <1>1, <1>5, <1>6, <1>7, <3>1, <3>2, Reached
    <2>3. ASSUME NEW i \in 1..n + 1, NEW j \in 1..n + 1, i <= j,
                 history'[p][i].from \in Courier \ {"SEARCHING_DRIVER"}
          PROVE  history'[p][j].to # "CANCELED"
      <3>1. CASE j \in 1..n
        <4>1. i \in 1..n /\ history'[p][i] = h[i] /\ history'[p][j] = h[j]
          BY <1>5, <2>3, <3>1
        <4> QED
          BY <2>3, <3>1, <4>1, <1>9 DEF Rules
      <3>2. CASE j = n + 1 /\ i = n + 1
        BY <1>5, <1>6, <1>7, <2>3, <3>2 DEF Rank, AllStatuses, Courier
      <3>3. CASE j = n + 1 /\ i \in 1..n
        <4>1. history'[p][i] = h[i] /\ Rank[h[i].from] < Rank[status[p]]
          BY <1>1, <1>5, <3>3 DEF TrailInv, Behind
        <4>2. Rank[h[i].from] >= 6 /\ Rank[h[i].from] \in Nat /\ Rank[status[p]] \in Nat
          <5>1. h[i].from \in Courier \ {"SEARCHING_DRIVER"}
            BY <2>3, <4>1
          <5> QED
            BY <1>7, <5>1 DEF Rank, AllStatuses, Courier
        <4> QED
          BY <1>5, <1>6, <1>7, <3>3, <4>1, <4>2
      <3> QED
        BY <1>5, <3>1, <3>2, <3>3
    <2> QED
      BY <1>5, <2>1, <2>2, <2>3 DEF Rules
  <1>11. \A o \in Orders : o # p => Rules(o, history'[o], status'[o])
    BY <1>3 DEF DeliveryRules, Rules, Past
  <1>12. \A o \in Orders : Rules(o, history'[o], status'[o])
    BY <1>4, <1>10, <1>11
  <1> QED
    BY <1>2, <1>12 DEF DeliveryRules, Rules, Past

\* Over its whole life a delivery order is not completed before it was
\* delivered, a take-away order never goes to a courier, and no order is
\* canceled once it had a driver.
THEOREM LifelongRules == Spec => []DeliveryRules
  <1>1. Init => DeliveryRules
    BY DEF Init, DeliveryRules
  <1>2. Inv /\ TrailInv /\ DeliveryRules /\ [Next]_vars => DeliveryRules'
    <2> SUFFICES ASSUME Inv, TrailInv, DeliveryRules, [Next]_vars PROVE DeliveryRules'
      OBVIOUS
    <2>1. CASE \E r \in Requests : InsertAndCommit(r)
      BY <2>1, RulesStep
    <2>2. CASE ~\E r \in Requests : InsertAndCommit(r)
      <3>1. UNCHANGED <<status, history>>
        BY <2>2, OnlyCommitWrites
      <3>2. born' = born
        BY DEF Next, Serve, vars, env, Submit, LoadOrder, Decide, GuardedUpdate,
               InsertAndCommit, ReloadOrder, Respond, DatabaseError, Crash, Abort,
               Reassign, OpenOrder, ReadTimeline, CloseTimeline
      <3> QED
        BY <3>1, <3>2 DEF DeliveryRules
    <2> QED
      BY <2>1, <2>2
  <1> QED
    BY <1>1, <1>2, InvCorrect, TrailCorrect, PTL DEF Spec
=============================================================================
