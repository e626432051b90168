---------------------- MODULE CustomerAddress_proofs -----------------------
(***************************************************************************)
(* Proofs about CustomerAddress: the types, that a customer who does not   *)
(* race with themself has one default and keeps within the cap, that no    *)
(* request touches a row of somebody else, and that an edit keeps what it  *)
(* did not send.                                                           *)
(*                                                                         *)
(* Shape says which rows a request can have in its hands at its stage,     *)
(* Holds that those rows are locked and its customer's own, and Knows that *)
(* what it read still holds while no other request of the customer has     *)
(* been in flight.                                                         *)
(***************************************************************************)
EXTENDS CustomerAddress, FiniteSetTheorems, WellFoundedInduction, TLAPS

Shape(q) ==
  /\ q.at # "answered" => q.user \in Users
  /\ q.inserted = {} \/ (q.kind = "create" /\ q.at = "committing")
  /\ q.removed = {} \/ (q.kind = "delete" /\ q.at \in {"choosing", "promoting", "committing"})
  /\ q.demoted = {} \/ (q.kind = "default" /\ q.at \in {"promoting", "committing"})
  /\ q.promoted = {} \/ q.at = "committing"
  /\ q.at \in {"counting", "inserting"} => q.kind = "create"
  /\ q.at \in {"loading", "deleting", "choosing"} => q.kind = "delete"
  /\ q.at \in {"scanning", "demoting"} => q.kind = "default"
  /\ q.at = "promoting" => q.kind \in {"delete", "default"}
  /\ q.at = "committing" => q.kind \in {"create", "delete", "default"}

\* The rows in a request's hands.
Hands(q) == q.inserted \cup q.removed \cup q.demoted \cup q.promoted

Holds(r) ==
  /\ \A a \in Hands(req[r]) : rowLock[a] = r /\ owner[a] = req[r].user
  /\ req[r].promoted \subseteq saved \cup req[r].inserted
  /\ req[r].at = "writing" => req[r].id \in Addresses /\ owner[req[r].id] = req[r].user

\* What a request relies on, of the rows S and the defaults D of its customer.
Knowing(q, S, D, text) ==
  /\ q.at = "inserting" => Cardinality(S) < MaxPerUser /\ (q.flag <=> S = {})
  /\ q.at = "committing" /\ q.kind = "create" =>
       /\ Cardinality(S) < MaxPerUser
       /\ \E a : q.inserted = {a} /\ q.promoted = IF S = {} THEN {a} ELSE {}
  /\ q.at = "deleting" => q.id \in S /\ (q.flag <=> q.id \in D)
  /\ q.at = "choosing" => q.removed = {q.id} /\ q.id \in D
  /\ q.at = "promoting" /\ q.kind = "delete" =>
       q.removed = {q.id} /\ q.id \in D /\ q.next \in S \ {q.id}
  /\ q.at = "committing" /\ q.kind = "delete" =>
       /\ q.removed = {q.id}
       /\ \/ q.id \notin D /\ q.promoted = {}
          \/ q.id \in D /\ S = {q.id} /\ q.promoted = {}
          \/ q.id \in D /\ \E n \in S \ {q.id} : q.promoted = {n}
  /\ q.at = "demoting" => q.found = D
  /\ q.at = "promoting" /\ q.kind = "default" => q.demoted = D
  /\ q.at = "committing" /\ q.kind = "default" =>
       q.demoted = D /\ \E n \in S : q.promoted = {n}
  /\ q.at = "writing" => q.seen = text[q.id]

Knows(r) ==
  \A u \in Users \ overlapped :
    req[r].user = u => Knowing(req[r], SavedBy(u), DefaultsOf(u), content)

InOrder(S, D) == (S # {} => \E d : D = {d}) /\ Cardinality(S) <= MaxPerUser

Overlap ==
  \A r, s \in Requests :
    r # s /\ req[r].user = req[s].user /\ req[r].user # None => req[r].user \in overlapped

IInv ==
  /\ TypeOK
  /\ \A r \in Requests : Shape(req[r]) /\ Holds(r) /\ Knows(r)
  /\ Overlap
  /\ \A u \in Users \ overlapped : InOrder(SavedBy(u), DefaultsOf(u))

-----------------------------------------------------------------------------
(* Data                                                                    *)

\* The newest of some rows is one of them.
LEMMA NewestIn ==
  ASSUME NEW rows \in SUBSET Addresses
  PROVE  /\ rows = {} => Newest(rows) = 0
         /\ rows # {} => Newest(rows) \in rows
  <1>1. CASE rows = {}
    BY <1>1 DEF Newest
  <1>2. CASE rows # {}
    <2> DEFINE R == OpToRel(<, Nat)
    <2>1. IsWellFoundedOn(R, Nat)
      BY NatLessThanWellFounded
    <2>2. \A x, y \in Nat : x < y => <<x, y>> \in R
      BY DEF OpToRel
    <2> HIDE DEF R
    <2> DEFINE T == {LastAddress - a : a \in rows}
    <2>3. rows \subseteq Nat /\ \A a \in rows : a <= LastAddress /\ LastAddress - a \in Nat
      BY AddressConfig DEF Addresses
    <2>4. T \subseteq Nat /\ T # {}
      BY <1>2, <2>3
    <2>5. PICK x \in T : \A y \in T : ~ (<<y, x>> \in R)
      <3> HIDE DEF T
      <3> QED BY <2>1, <2>4, WFMin
    <2>6. PICK a \in rows : x = LastAddress - a
      BY <2>5
    <2>7. \A b \in rows : a >= b
      <3> SUFFICES ASSUME NEW b \in rows, ~(a >= b) PROVE FALSE
        OBVIOUS
      <3>1. LastAddress - b \in T /\ LastAddress - b < x
        BY <2>6, AddressConfig DEF Addresses
      <3> QED BY <3>1, <2>2, <2>4, <2>5
    <2> QED BY <1>2, <2>7 DEF Newest, Max
  <1> QED BY <1>1, <1>2

\* What a request sees is what is its customer's, but for what it has in hands.
LEMMA Seeing ==
  ASSUME NEW q, NEW u, q.user = u
  PROVE  /\ Visible(q) = (SavedBy(u) \cup {a \in q.inserted : owner[a] = u}) \ q.removed
         /\ VisibleDefaults(q) = ((DefaultsOf(u) \ q.demoted) \cup q.promoted) \cap Visible(q)
  BY DEF Visible, VisibleDefaults, Mine, SavedBy, DefaultsOf

\* The sets of rows are finite.
LEMMA FewRows ==
  ASSUME NEW S \in SUBSET Addresses
  PROVE  IsFiniteSet(S) /\ Cardinality(S) \in Nat
  <1>1. IsFiniteSet(Addresses)
    BY AddressConfig, FS_Interval DEF Addresses
  <1> QED BY <1>1, FS_Subset, FS_CardinalityType

\* What a commit makes of the rows and defaults of its customer is in order.
LEMMA CommitInOrder ==
  ASSUME NEW q, NEW S \in SUBSET Addresses, NEW D \in SUBSET S, NEW text,
         InOrder(S, D), Shape(q), q.at = "committing", Knowing(q, S, D, text),
         Hands(q) \subseteq Addresses
  PROVE  InOrder((S \cup q.inserted) \ q.removed, ((D \ q.demoted) \cup q.promoted) \ q.removed)
  <1> DEFINE NS == (S \cup q.inserted) \ q.removed
             ND == ((D \ q.demoted) \cup q.promoted) \ q.removed
  <1>1. IsFiniteSet(S) /\ Cardinality(S) \in Nat /\ Cardinality(S) <= MaxPerUser /\ MaxPerUser \in Nat
    BY FewRows, AddressConfig DEF InOrder
  <1>2. CASE q.kind = "create"
    <2>1. q.removed = {} /\ q.demoted = {} /\ Cardinality(S) < MaxPerUser
      BY <1>2 DEF Shape, Knowing
    <2>2. PICK a : q.inserted = {a} /\ q.promoted = IF S = {} THEN {a} ELSE {}
      BY <1>2 DEF Knowing
    <2>3. NS = S \cup {a} /\ ND = D \cup q.promoted
      BY <2>1, <2>2
    <2>4. Cardinality(S \cup {a}) <= MaxPerUser
      <3>1. Cardinality(S \cup {a}) = IF a \in S THEN Cardinality(S) ELSE Cardinality(S) + 1
        BY <1>1, FS_AddElement
      <3> QED BY <3>1, <1>1, <2>1
    <2>5. \E d : ND = {d}
      <3>1. CASE S = {}
        BY <3>1, <2>2, <2>3
      <3>2. CASE S # {}
        BY <3>2, <2>2, <2>3 DEF InOrder
      <3> QED BY <3>1, <3>2
    <2> QED BY <2>3, <2>4, <2>5 DEF InOrder
  <1>3. CASE q.kind = "delete"
    <2>1. q.inserted = {} /\ q.demoted = {} /\ q.removed = {q.id}
      BY <1>3 DEF Shape, Knowing
    <2>2. NS = S \ {q.id} /\ ND = (D \cup q.promoted) \ {q.id}
      BY <2>1
    <2>3. Cardinality(NS) <= MaxPerUser
      <3>1. NS \in SUBSET S
        BY <2>2
      <3>2. Cardinality(NS) <= Cardinality(S) /\ Cardinality(NS) \in Nat
        BY <3>1, <1>1, FS_Subset, FewRows
      <3> QED BY <3>2, <1>1
    <2>4. NS # {} => \E d : ND = {d}
      <3>1. CASE q.id \notin D /\ q.promoted = {}
        BY <3>1, <2>2 DEF InOrder
      <3>2. CASE S = {q.id}
        BY <3>2, <2>2
      <3>3. CASE q.id \in D /\ \E n \in S \ {q.id} : q.promoted = {n}
        <4>1. D = {q.id}
          BY <3>3 DEF InOrder
        <4> QED BY <3>3, <4>1, <2>2
      <3> QED BY <1>3, <3>1, <3>2, <3>3 DEF Knowing
    <2> QED BY <2>3, <2>4 DEF InOrder
  <1>4. CASE q.kind = "default"
    <2>1. q.inserted = {} /\ q.removed = {} /\ q.demoted = D
      BY <1>4 DEF Shape, Knowing
    <2>2. PICK n \in S : q.promoted = {n}
      BY <1>4 DEF Knowing
    <2>3. NS = S /\ ND = {n}
      BY <2>1, <2>2
    <2> QED BY <1>1, <2>3 DEF InOrder
  <1> QED BY <1>2, <1>3, <1>4 DEF Shape
-----------------------------------------------------------------------------
(* Frames                                                                  *)

\* Whatever a request has in hands is there.
LEMMA InHand ==
  ASSUME TypeOK, NEW r \in Requests, Shape(req[r]), Holds(r)
  PROVE  /\ req[r] \in Request /\ Hands(req[r]) \subseteq Addresses
         /\ \A a \in Hands(req[r]) : owner[a] \in Users /\ rowLock[a] = r
  <1>1. req[r] \in Request
    BY DEF TypeOK
  <1>2. Hands(req[r]) \subseteq Addresses
    BY <1>1 DEF Request, Hands
  <1>3. Hands(req[r]) # {} => req[r].user \in Users
    BY DEF Shape, Hands
  <1> QED BY <1>1, <1>2, <1>3 DEF Holds

\* A step of one request that changes rows of its own customer only.
LEMMA Stepped ==
  ASSUME IInv, NEW r \in Requests, NEW now \in Request, req[r].at # "answered",
         req' = [req EXCEPT ![r] = now], overlapped' = overlapped,
         owner' \in [Addresses -> Users \cup {None}],
         saved' \subseteq {a \in Addresses : owner'[a] # None}, defaults' \subseteq saved',
         content' \in [Addresses -> [Fields -> Values]],
         rowLock' \in [Addresses -> Requests \cup {None}],
         Shape(now), now.user \in {req[r].user, None},
         \A s \in Requests \ {r} : \A a \in Addresses :
           owner[a] # None /\ rowLock[a] = s => rowLock'[a] = s,
         \A a \in Addresses : owner[a] \notin {None, req[r].user} =>
           content'[a] = content[a] /\ (a \in saved' <=> a \in saved) /\ (a \in defaults' <=> a \in defaults),
         \A a \in Addresses : owner[a] # None => owner'[a] = owner[a],
         \A a \in Addresses : owner[a] = None => owner'[a] \in {None, req[r].user},
         \A s \in Requests \ {r} : req[s].promoted \subseteq saved' \cup req[s].inserted,
         Holds(r)', Knows(r)',
         \A u \in Users \ overlapped : u = req[r].user => InOrder(SavedBy(u), DefaultsOf(u))'
  PROVE  IInv'
  <1>1. req \in [Requests -> Request] /\ Shape(req[r]) /\ req[r].user \in Users
    BY DEF IInv, TypeOK, Shape
  <1>2. req' \in [Requests -> Request] /\ req'[r] = now /\ \A s \in Requests \ {r} : req'[s] = req[s]
    BY <1>1
  <1>3. TypeOK'
    BY <1>2 DEF IInv, TypeOK
  <1>4. \A u \in Users \ {req[r].user} : SavedBy(u)' = SavedBy(u) /\ DefaultsOf(u)' = DefaultsOf(u)
    <2> SUFFICES ASSUME NEW u \in Users, u # req[r].user
                 PROVE  SavedBy(u)' = SavedBy(u) /\ DefaultsOf(u)' = DefaultsOf(u)
      OBVIOUS
    <2>1. \A a \in Addresses : owner'[a] = u <=> owner[a] = u
      BY AddressConfig
    <2>2. saved \subseteq Addresses /\ saved' \subseteq Addresses /\ defaults \subseteq Addresses
          /\ defaults' \subseteq Addresses
      BY DEF IInv, TypeOK
    <2> QED BY <2>1, <2>2, AddressConfig DEF SavedBy, DefaultsOf
  <1>5. \A s \in Requests \ {r} : Shape(req'[s]) /\ Holds(s)'
    <2> SUFFICES ASSUME NEW s \in Requests, s # r PROVE Shape(req'[s]) /\ Holds(s)'
      OBVIOUS
    <2>1. TypeOK /\ Shape(req[s]) /\ Holds(s) /\ req'[s] = req[s]
      BY <1>2 DEF IInv
    <2>2. /\ req[s] \in Request /\ Hands(req[s]) \subseteq Addresses
          /\ \A a \in Hands(req[s]) : owner[a] \in Users /\ rowLock[a] = s
      BY <2>1, InHand
    <2>3. \A a \in Hands(req[s]) : rowLock'[a] = s /\ owner'[a] = req[s].user
      BY <2>1, <2>2, AddressConfig DEF Holds
    <2>4. req[s].at = "writing" => req[s].id \in Addresses /\ owner'[req[s].id] = req[s].user
      BY <2>1, AddressConfig DEF Holds, Shape
    <2>5. req[s].promoted \subseteq saved' \cup req[s].inserted
      OBVIOUS
    <2> QED BY <2>1, <2>3, <2>4, <2>5 DEF Holds
  <1>6. \A s \in Requests \ {r} : Knows(s)'
    <2> SUFFICES ASSUME NEW s \in Requests, s # r, NEW u \in Users, u \notin overlapped, req[s].user = u
                 PROVE  Knowing(req[s], SavedBy(u)', DefaultsOf(u)', content')
      BY <1>2 DEF Knows
    <2>1. u # req[r].user
      BY AddressConfig DEF IInv, Overlap
    <2>2. Knowing(req[s], SavedBy(u), DefaultsOf(u), content) /\ Holds(s)
      BY DEF IInv, Knows
    <2>3. req[s].at = "writing" => content'[req[s].id] = content[req[s].id]
      BY <2>1, <2>2, AddressConfig DEF Holds
    <2>4. SavedBy(u)' = SavedBy(u) /\ DefaultsOf(u)' = DefaultsOf(u)
      BY <1>4, <2>1
    <2> QED BY <2>2, <2>3, <2>4 DEF Knowing
  <1>7. Overlap'
    BY <1>2 DEF IInv, Overlap
  <1>8. \A u \in Users \ overlapped : InOrder(SavedBy(u), DefaultsOf(u))'
    <2> SUFFICES ASSUME NEW u \in Users, u \notin overlapped
                 PROVE  InOrder(SavedBy(u), DefaultsOf(u))'
      OBVIOUS
    <2>1. CASE u = req[r].user
      BY <2>1
    <2>2. CASE u # req[r].user
      <3>1. SavedBy(u)' = SavedBy(u) /\ DefaultsOf(u)' = DefaultsOf(u) /\ InOrder(SavedBy(u), DefaultsOf(u))
        BY <1>4, <2>2 DEF IInv
      <3> QED BY <3>1 DEF InOrder
    <2> QED BY <2>1, <2>2
  <1> QED BY <1>2, <1>3, <1>5, <1>6, <1>7, <1>8 DEF IInv

\* A step that leaves the table alone.
LEMMA Quiet ==
  ASSUME IInv, NEW r \in Requests, NEW now \in Request, req[r].at # "answered",
         req' = [req EXCEPT ![r] = now], UNCHANGED <<table, overlapped>>,
         rowLock' \in [Addresses -> Requests \cup {None}],
         \A s \in Requests \ {r} : \A a \in Addresses : rowLock[a] = s => rowLock'[a] = s,
         Shape(now), now.user \in {req[r].user, None},
         \A a \in Hands(now) : rowLock'[a] = r /\ owner[a] = now.user,
         now.promoted \subseteq saved \cup now.inserted,
         now.at = "writing" => now.id \in Addresses /\ owner[now.id] = now.user,
         \A u \in Users \ overlapped : now.user = u =>
           Knowing(now, SavedBy(u), DefaultsOf(u), content)
  PROVE  IInv'
  <1>1. UNCHANGED <<owner, saved, defaults, content>>
    BY DEF table
  <1>2. req'[r] = now
    BY DEF IInv, TypeOK
  <1>3. \A u : SavedBy(u)' = SavedBy(u) /\ DefaultsOf(u)' = DefaultsOf(u)
    BY <1>1 DEF SavedBy, DefaultsOf
  <1>4. Holds(r)'
    BY <1>1, <1>2 DEF Holds
  <1>5. Knows(r)'
    BY <1>1, <1>2, <1>3 DEF Knows
  <1>6. \A u \in Users \ overlapped : u = req[r].user => InOrder(SavedBy(u), DefaultsOf(u))'
    BY <1>3 DEF IInv, InOrder
  <1>7. \A s \in Requests \ {r} : req[s].promoted \subseteq saved' \cup req[s].inserted
    BY <1>1 DEF IInv, Holds
  <1>8. /\ owner' \in [Addresses -> Users \cup {None}]
        /\ saved' \subseteq {a \in Addresses : owner'[a] # None} /\ defaults' \subseteq saved'
        /\ content' \in [Addresses -> [Fields -> Values]]
    BY <1>1 DEF IInv, TypeOK
  <1> QED BY <1>1, <1>4, <1>5, <1>6, <1>7, <1>8, Stepped

\* An answer lets go of everything.
LEMMA Replied ==
  ASSUME IInv, NEW r \in Requests, req[r].at # "answered",
         NEW answer \in {"ok", "not_found", "too_many", "failed"}, Reply(r, answer),
         UNCHANGED <<table, overlapped>>, UNCHANGED rowLock \/ Release(r)
  PROVE  IInv'
  <1> DEFINE now == [NoRequest EXCEPT !.answer = answer]
  <1>1. now \in Request /\ now.at = "answered" /\ now.user = None /\ now.id = 0 /\ Hands(now) = {}
        /\ now.promoted = {}
    BY DEF NoRequest, Request, Stage, Unedited, Values, Hands
  <1>2. Shape(now)
    BY DEF NoRequest, Shape
  <1>3. rowLock \in [Addresses -> Requests \cup {None}]
    BY DEF IInv, TypeOK
  <1>4. /\ rowLock' \in [Addresses -> Requests \cup {None}]
        /\ \A s \in Requests \ {r} : \A a \in Addresses : rowLock[a] = s => rowLock'[a] = s
    BY <1>3, AddressConfig DEF Release
  <1>5. \A u \in Users \ overlapped : now.user # u
    BY <1>1, AddressConfig
  <1>6. req' = [req EXCEPT ![r] = now]
    BY DEF Reply
  <1> HIDE DEF now
  <1> QED BY <1>1, <1>2, <1>4, <1>5, <1>6, Quiet
-----------------------------------------------------------------------------
(* The steps                                                               *)

\* Nothing is in flight at first, and after a crash.
AtRest ==
  /\ TypeOK
  /\ req = [r \in Requests |-> NoRequest]
  /\ \A u \in Users \ overlapped : InOrder(SavedBy(u), DefaultsOf(u))

LEMMA Resting ==
  AtRest => IInv
  <1> SUFFICES ASSUME TypeOK, req = [r \in Requests |-> NoRequest],
                      \A u \in Users \ overlapped : InOrder(SavedBy(u), DefaultsOf(u))
               PROVE  IInv
    BY DEF AtRest
  <1>1. Shape(NoRequest) /\ Hands(NoRequest) = {} /\ NoRequest.user = None
        /\ NoRequest.at = "answered" /\ NoRequest.promoted = {}
    BY DEF NoRequest, Shape, Hands
  <1>2. \A r \in Requests : req[r] = NoRequest
    OBVIOUS
  <1>3. \A r \in Requests : Shape(req[r]) /\ Holds(r) /\ Knows(r)
    BY <1>1, <1>2, AddressConfig DEF Holds, Knows
  <1>4. Overlap
    BY <1>1, <1>2 DEF Overlap
  <1> QED BY <1>3, <1>4 DEF IInv

LEMMA InitIInv ==
  Init => IInv
  <1> SUFFICES ASSUME Init PROVE IInv
    OBVIOUS
  <1>1. NoRequest \in Request /\ Unedited \in [Fields -> Values]
    BY DEF NoRequest, Request, Stage, Unedited, Values
  <1>2. TypeOK
    BY <1>1 DEF Init, TypeOK
  <1>3. \A u \in Users \ overlapped : InOrder(SavedBy(u), DefaultsOf(u))
    <2>1. \A u : SavedBy(u) = {}
      BY DEF Init, SavedBy
    <2>2. Cardinality({}) <= MaxPerUser
      BY FS_EmptySet, AddressConfig
    <2> QED BY <2>1, <2>2 DEF InOrder
  <1> QED BY <1>2, <1>3, Resting DEF Init, AtRest

\* A new request has nothing in hands and has read nothing.
LEMMA Received ==
  ASSUME IInv, NEW r \in Requests, NEW q \in Request, Receive(r, q),
         q.at \in {"counting", "loading", "scanning", "reading"}, Shape(q),
         Hands(q) = {}, q.user \in Users
  PROVE  IInv'
  <1>1. UNCHANGED <<owner, saved, defaults, content, rowLock>>
    BY DEF Receive, table
  <1>2. req' \in [Requests -> Request] /\ req'[r] = q /\ \A s \in Requests \ {r} : req'[s] = req[s]
    BY DEF Receive, IInv, TypeOK
  <1>3. overlapped \subseteq overlapped' /\ overlapped' \subseteq Users
    BY DEF Receive, IInv, TypeOK
  <1>4. TypeOK'
    BY <1>1, <1>2, <1>3 DEF IInv, TypeOK
  <1>5. \A u : SavedBy(u)' = SavedBy(u) /\ DefaultsOf(u)' = DefaultsOf(u)
    BY <1>1 DEF SavedBy, DefaultsOf
  <1>6. Shape(req'[r]) /\ Holds(r)' /\ Knows(r)'
    <2>1. q.promoted = {}
      BY DEF Hands
    <2>2. Holds(r)'
      BY <1>2, <2>1 DEF Holds
    <2>3. Knows(r)'
      BY <1>2 DEF Knows, Knowing
    <2> QED BY <1>2, <2>2, <2>3
  <1>7. \A s \in Requests \ {r} : Shape(req'[s]) /\ Holds(s)' /\ Knows(s)'
    <2> SUFFICES ASSUME NEW s \in Requests, s # r PROVE Shape(req'[s]) /\ Holds(s)' /\ Knows(s)'
      OBVIOUS
    <2>1. req'[s] = req[s] /\ Shape(req[s]) /\ Holds(s) /\ Knows(s)
      BY <1>2 DEF IInv
    <2>2. Holds(s)'
      BY <1>1, <2>1 DEF Holds
    <2>3. Knows(s)'
      BY <1>1, <1>3, <1>5, <2>1 DEF Knows
    <2> QED BY <2>1, <2>2, <2>3
  <1>8. Overlap'
    <2> SUFFICES ASSUME NEW s \in Requests, NEW t \in Requests, s # t, req'[s].user = req'[t].user,
                        req'[s].user # None
                 PROVE  req'[s].user \in overlapped'
      BY DEF Overlap
    <2>1. CASE s # r /\ t # r
      BY <2>1, <1>2, <1>3 DEF IInv, Overlap
    <2>2. CASE s = r \/ t = r
      BY <2>2, <1>2 DEF Receive
    <2> QED BY <2>1, <2>2
  <1>9. \A u \in Users \ overlapped' : InOrder(SavedBy(u), DefaultsOf(u))'
    BY <1>3, <1>5 DEF IInv, InOrder
  <1> QED BY <1>4, <1>6, <1>7, <1>8, <1>9 DEF IInv

LEMMA AskSteps ==
  ASSUME IInv, NEW r \in Requests, Ask(r)
  PROVE  IInv'
  <1>1. PICK u \in Users :
          \/ Receive(r, [NoRequest EXCEPT !.at = "counting", !.kind = "create", !.user = u])
             /\ "create" \in Kinds
          \/ \E a \in Addresses :
               \/ Receive(r, [NoRequest EXCEPT !.at = "loading", !.kind = "delete",
                                               !.user = u, !.id = a]) /\ "delete" \in Kinds
               \/ Receive(r, [NoRequest EXCEPT !.at = "scanning", !.kind = "default",
                                               !.user = u, !.id = a]) /\ "default" \in Kinds
               \/ \E p \in Patches :
                    Receive(r, [NoRequest EXCEPT !.at = "reading", !.kind = "edit",
                                !.user = u, !.id = a, !.patch = p]) /\ "edit" \in Kinds
    BY DEF Ask
  <1>2. NoRequest \in Request /\ NoRequest.inserted = {} /\ NoRequest.removed = {}
        /\ NoRequest.demoted = {} /\ NoRequest.promoted = {}
    BY DEF NoRequest, Request, Stage, Unedited, Values
  <1>3. CASE Receive(r, [NoRequest EXCEPT !.at = "counting", !.kind = "create", !.user = u])
             /\ "create" \in Kinds
    <2> DEFINE q == [NoRequest EXCEPT !.at = "counting", !.kind = "create", !.user = u]
    <2>1. q \in Request /\ q.at = "counting" /\ q.kind = "create" /\ q.user = u
      BY <1>2, <1>3 DEF Request, Stage
    <2>2. q.inserted = {} /\ q.removed = {} /\ q.demoted = {} /\ q.promoted = {}
      BY <1>2 DEF NoRequest
    <2>3. Receive(r, q)
      BY <1>3
    <2> HIDE DEF q
    <2>4. Shape(q) /\ Hands(q) = {}
      BY <2>1, <2>2 DEF Shape, Hands
    <2> QED BY <2>1, <2>3, <2>4, Received
  <1>4. ASSUME NEW a \in Addresses, "delete" \in Kinds,
               Receive(r, [NoRequest EXCEPT !.at = "loading", !.kind = "delete",
                                            !.user = u, !.id = a])
        PROVE  IInv'
    <2> DEFINE q == [NoRequest EXCEPT !.at = "loading", !.kind = "delete", !.user = u, !.id = a]
    <2>1. q \in Request /\ q.at = "loading" /\ q.kind = "delete" /\ q.user = u
      BY <1>2, <1>4 DEF Request, Stage
    <2>2. q.inserted = {} /\ q.removed = {} /\ q.demoted = {} /\ q.promoted = {}
      BY <1>2 DEF NoRequest
    <2>3. Receive(r, q)
      BY <1>4
    <2> HIDE DEF q
    <2>4. Shape(q) /\ Hands(q) = {}
      BY <2>1, <2>2 DEF Shape, Hands
    <2> QED BY <2>1, <2>3, <2>4, Received
  <1>5. ASSUME NEW a \in Addresses, "default" \in Kinds,
               Receive(r, [NoRequest EXCEPT !.at = "scanning", !.kind = "default",
                                            !.user = u, !.id = a])
        PROVE  IInv'
    <2> DEFINE q == [NoRequest EXCEPT !.at = "scanning", !.kind = "default", !.user = u, !.id = a]
    <2>1. q \in Request /\ q.at = "scanning" /\ q.kind = "default" /\ q.user = u
      BY <1>2, <1>5 DEF Request, Stage
    <2>2. q.inserted = {} /\ q.removed = {} /\ q.demoted = {} /\ q.promoted = {}
      BY <1>2 DEF NoRequest
    <2>3. Receive(r, q)
      BY <1>5
    <2> HIDE DEF q
    <2>4. Shape(q) /\ Hands(q) = {}
      BY <2>1, <2>2 DEF Shape, Hands
    <2> QED BY <2>1, <2>3, <2>4, Received
  <1>6. ASSUME NEW a \in Addresses, NEW p \in Patches, "edit" \in Kinds,
               Receive(r, [NoRequest EXCEPT !.at = "reading", !.kind = "edit",
                                            !.user = u, !.id = a, !.patch = p])
        PROVE  IInv'
    <2> DEFINE q == [NoRequest EXCEPT !.at = "reading", !.kind = "edit",
                                      !.user = u, !.id = a, !.patch = p]
    <2>0. p \in SUBSET Fields
      BY AddressConfig
    <2>1. q \in Request /\ q.at = "reading" /\ q.kind = "edit" /\ q.user = u
      BY <1>2, <1>6, <2>0 DEF Request, Stage
    <2>2. q.inserted = {} /\ q.removed = {} /\ q.demoted = {} /\ q.promoted = {}
      BY <1>2 DEF NoRequest
    <2>3. Receive(r, q)
      BY <1>6
    <2> HIDE DEF q
    <2>4. Shape(q) /\ Hands(q) = {}
      BY <2>1, <2>2 DEF Shape, Hands
    <2> QED BY <2>1, <2>3, <2>4, Received
  <1> QED BY <1>1, <1>3, <1>4, <1>5, <1>6
\* What is known of a request in flight.
LEMMA InFlight ==
  ASSUME IInv, NEW r \in Requests, req[r].at # "answered"
  PROVE  /\ req[r] \in Request /\ Shape(req[r]) /\ Holds(r) /\ Knows(r)
         /\ req[r].user \in Users /\ req[r].user # None
         /\ Hands(req[r]) \subseteq Addresses
         /\ rowLock \in [Addresses -> Requests \cup {None}]
         /\ saved \subseteq Addresses /\ defaults \subseteq saved
         /\ Visible(req[r]) \subseteq Addresses
  <1>1. TypeOK /\ Shape(req[r]) /\ Holds(r) /\ Knows(r)
    BY DEF IInv
  <1>2. req[r] \in Request /\ Hands(req[r]) \subseteq Addresses
    BY <1>1, InHand
  <1>3. req[r].user \in Users /\ req[r].user # None
    BY <1>1, AddressConfig DEF Shape
  <1>4. saved \subseteq Addresses /\ defaults \subseteq saved
        /\ rowLock \in [Addresses -> Requests \cup {None}]
    BY <1>1 DEF TypeOK
  <1>5. Visible(req[r]) \subseteq Addresses
    BY <1>2, <1>4 DEF Visible, Hands
  <1> QED BY <1>1, <1>2, <1>3, <1>4, <1>5

LEMMA CountRowsSteps ==
  ASSUME IInv, NEW r \in Requests, CountRows(r)
  PROVE  IInv'
  <1>1. req[r].at = "counting" /\ UNCHANGED <<table, rowLock, overlapped>>
    BY DEF CountRows
  <1>2. CASE Reply(r, "too_many")
    BY <1>1, <1>2, Replied
  <1>3. CASE UnderCap(req[r])
             /\ req' = [req EXCEPT ![r].at = "inserting", ![r].flag = FirstOne(req[r])]
    <2> DEFINE now == [req[r] EXCEPT !.at = "inserting", !.flag = FirstOne(req[r])]
    <2>1. PICK u \in Users : req[r].user = u
      BY <1>1, InFlight
    <2>2. /\ req[r] \in Request /\ Shape(req[r]) /\ rowLock \in [Addresses -> Requests \cup {None}]
      BY <1>1, InFlight
    <2>3. now \in Request /\ now.at = "inserting" /\ (now.flag <=> FirstOne(req[r]))
          /\ now.user = u /\ now.kind = req[r].kind
          /\ now.inserted = req[r].inserted /\ now.removed = req[r].removed
          /\ now.demoted = req[r].demoted /\ now.promoted = req[r].promoted
      BY <2>1, <2>2 DEF Request, Stage, FirstOne
    <2>4. req' = [req EXCEPT ![r] = now]
      BY <1>3, <2>2
    <2> HIDE DEF now
    <2>5. Shape(now) /\ Hands(now) = {} /\ now.promoted = {}
      BY <1>1, <2>1, <2>2, <2>3 DEF Shape, Hands
    <2>6. Visible(req[r]) = SavedBy(u)
      BY <1>1, <2>1, <2>2, Seeing DEF Shape
    <2>7. Knowing(now, SavedBy(u), DefaultsOf(u), content)
      BY <1>3, <2>3, <2>6 DEF Knowing, UnderCap, FirstOne
    <2> QED BY <1>1, <2>1, <2>2, <2>3, <2>4, <2>5, <2>7, Quiet
  <1> QED BY <1>2, <1>3 DEF CountRows

LEMMA InsertRowSteps ==
  ASSUME IInv, NEW r \in Requests, InsertRow(r)
  PROVE  IInv'
  <1>1. req[r].at = "inserting" /\ UNCHANGED <<saved, defaults, content, overlapped>>
    BY DEF InsertRow
  <1>2. PICK a \in Addresses :
          /\ owner[a] = None
          /\ owner' = [owner EXCEPT ![a] = req[r].user]
          /\ Lock(r, {a})
          /\ req' = [req EXCEPT ![r].at = "committing", ![r].id = a, ![r].inserted = {a},
                                ![r].promoted = IF req[r].flag THEN {a} ELSE {}]
    BY DEF InsertRow
  <1> DEFINE now == [req[r] EXCEPT !.at = "committing", !.id = a, !.inserted = {a},
                                   !.promoted = IF req[r].flag THEN {a} ELSE {}]
  <1>3. PICK u \in Users : req[r].user = u
    BY <1>1, InFlight
  <1>4. /\ req[r] \in Request /\ Shape(req[r]) /\ rowLock \in [Addresses -> Requests \cup {None}]
        /\ Knows(r) /\ u # None /\ TypeOK
    BY <1>1, <1>3, InFlight DEF IInv
  <1>5. now \in Request /\ now.at = "committing" /\ now.id = a /\ now.user = u
        /\ now.kind = req[r].kind /\ now.inserted = {a} /\ now.removed = req[r].removed
        /\ now.demoted = req[r].demoted /\ now.promoted = IF req[r].flag THEN {a} ELSE {}
    BY <1>3, <1>4 DEF Request, Stage
  <1>6. req' = [req EXCEPT ![r] = now] /\ req \in [Requests -> Request]
    BY <1>2, <1>4 DEF TypeOK
  <1> HIDE DEF now
  <1>7. req'[r] = now
    BY <1>6
  <1>8. Shape(now) /\ Hands(now) = {a} /\ now.kind = "create"
    BY <1>1, <1>4, <1>5 DEF Shape, Hands
  <1>9. /\ owner' \in [Addresses -> Users \cup {None}] /\ owner'[a] = u
        /\ \A b \in Addresses : b # a => owner'[b] = owner[b]
    BY <1>2, <1>3, <1>4 DEF TypeOK
  <1>10. /\ saved' \subseteq {b \in Addresses : owner'[b] # None} /\ defaults' \subseteq saved'
         /\ content' \in [Addresses -> [Fields -> Values]] /\ a \notin saved
    BY <1>1, <1>2, <1>4, <1>9 DEF TypeOK
  <1>11. /\ rowLock' \in [Addresses -> Requests \cup {None}] /\ rowLock'[a] = r
         /\ \A b \in Addresses : b # a => rowLock'[b] = rowLock[b]
    BY <1>2, <1>4 DEF Lock
  <1>12. SavedBy(u)' = SavedBy(u) /\ DefaultsOf(u)' = DefaultsOf(u)
    <2>1. \A b \in saved : b \in Addresses /\ b # a /\ owner'[b] = owner[b]
      BY <1>4, <1>9, <1>10 DEF TypeOK
    <2>2. defaults \subseteq saved
      BY <1>4 DEF TypeOK
    <2> QED BY <1>1, <2>1, <2>2 DEF SavedBy, DefaultsOf
  <1>13. Holds(r)'
    BY <1>5, <1>7, <1>8, <1>9, <1>11 DEF Holds
  <1>14. Knows(r)'
    <2>1. ASSUME u \notin overlapped
          PROVE  Knowing(now, SavedBy(u), DefaultsOf(u), content)
      <3>1. Cardinality(SavedBy(u)) < MaxPerUser /\ (req[r].flag <=> SavedBy(u) = {})
        BY <1>1, <1>3, <1>4, <2>1 DEF Knows, Knowing
      <3>2. now.inserted = {a} /\ now.promoted = IF SavedBy(u) = {} THEN {a} ELSE {}
        BY <3>1, <1>5
      <3> QED BY <3>1, <3>2, <1>5, <1>8 DEF Knowing
    <2> QED BY <1>1, <1>5, <1>7, <1>12, <2>1 DEF Knows
  <1>15. \A v \in Users \ overlapped : v = req[r].user => InOrder(SavedBy(v), DefaultsOf(v))'
    BY <1>3, <1>12 DEF IInv, InOrder
  <1>16. \A s \in Requests \ {r} : req[s].promoted \subseteq saved' \cup req[s].inserted
    BY <1>1 DEF IInv, Holds
  <1>17. /\ \A b \in Addresses : owner[b] # None => owner'[b] = owner[b]
         /\ \A b \in Addresses : owner[b] = None => owner'[b] \in {None, req[r].user}
         /\ \A s \in Requests \ {r} : \A b \in Addresses :
              owner[b] # None /\ rowLock[b] = s => rowLock'[b] = s
    BY <1>2, <1>3, <1>9, <1>11
  <1> QED BY <1>1, <1>3, <1>5, <1>6, <1>8, <1>9, <1>10, <1>11, <1>13, <1>14, <1>15, <1>16,
             <1>17, Stepped

LEMMA LoadRowSteps ==
  ASSUME IInv, NEW r \in Requests, LoadRow(r)
  PROVE  IInv'
  <1>1. req[r].at = "loading" /\ UNCHANGED <<table, rowLock, overlapped>>
    BY DEF LoadRow
  <1>2. CASE Reply(r, "not_found")
    BY <1>1, <1>2, Replied
  <1>3. CASE /\ req[r].id \in Visible(req[r])
             /\ req' = [req EXCEPT ![r].at = "deleting", ![r].flag = req[r].id \in defaults]
    <2> DEFINE flag == req[r].id \in defaults
               now == [req[r] EXCEPT !.at = "deleting", !.flag = flag]
    <2>0. flag \in BOOLEAN /\ (flag <=> req[r].id \in defaults)
          /\ req' = [req EXCEPT ![r].at = "deleting", ![r].flag = flag]
      BY <1>3
    <2> HIDE DEF flag
    <2>1. PICK u \in Users : req[r].user = u
      BY <1>1, InFlight
    <2>2. /\ req[r] \in Request /\ Shape(req[r]) /\ rowLock \in [Addresses -> Requests \cup {None}]
      BY <1>1, InFlight
    <2>3. now \in Request /\ now.at = "deleting" /\ now.flag = flag
          /\ now.user = u /\ now.kind = req[r].kind /\ now.id = req[r].id
          /\ now.inserted = req[r].inserted /\ now.removed = req[r].removed
          /\ now.demoted = req[r].demoted /\ now.promoted = req[r].promoted
      BY <2>0, <2>1, <2>2 DEF Request, Stage
    <2>4. req' = [req EXCEPT ![r] = now]
      BY <2>0, <2>2
    <2> HIDE DEF now
    <2>5. Shape(now) /\ Hands(now) = {} /\ now.promoted = {}
      BY <1>1, <2>1, <2>2, <2>3 DEF Shape, Hands
    <2>6. Visible(req[r]) = SavedBy(u)
      <3>1. req[r].inserted = {} /\ req[r].removed = {}
        BY <1>1, <2>2 DEF Shape
      <3>2. Visible(req[r])
              = (SavedBy(u) \cup {a \in req[r].inserted : owner[a] = u}) \ req[r].removed
        BY <2>1, Seeing
      <3> QED BY <3>1, <3>2
    <2>7. Knowing(now, SavedBy(u), DefaultsOf(u), content)
      BY <1>3, <2>0, <2>3, <2>6 DEF Knowing, SavedBy, DefaultsOf
    <2> QED BY <1>1, <2>1, <2>2, <2>3, <2>4, <2>5, <2>7, Quiet
  <1> QED BY <1>2, <1>3 DEF LoadRow

LEMMA DeleteRowSteps ==
  ASSUME IInv, NEW r \in Requests, DeleteRow(r)
  PROVE  IInv'
  <1>1. req[r].at = "deleting" /\ UNCHANGED <<table, overlapped>> /\ Free(r, {req[r].id})
    BY DEF DeleteRow
  <1>2. CASE Reply(r, "not_found") /\ UNCHANGED rowLock
    BY <1>1, <1>2, Replied
  <1>3. CASE /\ req[r].id \in Visible(req[r])
             /\ Lock(r, {req[r].id})
             /\ req' = [req EXCEPT ![r].removed = {req[r].id},
                          ![r].at = IF req[r].flag THEN "choosing" ELSE "committing"]
    <2> DEFINE now == [req[r] EXCEPT !.removed = {req[r].id},
                          !.at = IF req[r].flag THEN "choosing" ELSE "committing"]
    <2>1. PICK u \in Users : req[r].user = u
      BY <1>1, InFlight
    <2>2. /\ req[r] \in Request /\ Shape(req[r]) /\ Knows(r) /\ req[r].id \in Addresses
          /\ rowLock \in [Addresses -> Requests \cup {None}]
      BY <1>1, <1>3, InFlight
    <2>3. now \in Request /\ now.at = (IF req[r].flag THEN "choosing" ELSE "committing")
          /\ now.user = u /\ now.kind = req[r].kind /\ now.id = req[r].id
          /\ now.inserted = req[r].inserted /\ now.removed = {req[r].id}
          /\ now.demoted = req[r].demoted /\ now.promoted = req[r].promoted
      BY <2>1, <2>2 DEF Request, Stage
    <2>4. req' = [req EXCEPT ![r] = now]
      BY <1>3, <2>2
    <2> HIDE DEF now
    <2>5. Shape(now) /\ Hands(now) = {req[r].id} /\ now.promoted = {} /\ now.kind = "delete"
      BY <1>1, <2>1, <2>2, <2>3 DEF Shape, Hands
    <2>6. owner[req[r].id] = u
      BY <1>3, <2>1 DEF Visible, Mine
    <2>7. /\ rowLock' \in [Addresses -> Requests \cup {None}] /\ rowLock'[req[r].id] = r
          /\ \A s \in Requests \ {r} : \A a \in Addresses : rowLock[a] = s => rowLock'[a] = s
      BY <1>1, <1>3, <2>2, AddressConfig DEF Lock, Free
    <2>8. ASSUME u \notin overlapped
          PROVE  Knowing(now, SavedBy(u), DefaultsOf(u), content)
      <3>1. req[r].flag <=> req[r].id \in DefaultsOf(u)
        BY <1>1, <2>1, <2>2, <2>8 DEF Knows, Knowing
      <3> QED BY <3>1, <2>3, <2>5 DEF Knowing
    <2>9. now.at # "writing" /\ now.user \in {req[r].user, None}
      BY <2>1, <2>3
    <2>10. \A a \in Hands(now) : rowLock'[a] = r /\ owner[a] = now.user
      BY <2>3, <2>5, <2>6, <2>7
    <2>11. \A v \in Users \ overlapped : now.user = v =>
             Knowing(now, SavedBy(v), DefaultsOf(v), content)
      BY <2>3, <2>8
    <2> QED BY <1>1, <2>3, <2>4, <2>5, <2>7, <2>9, <2>10, <2>11, Quiet
  <1> QED BY <1>2, <1>3 DEF DeleteRow

LEMMA ChooseNextSteps ==
  ASSUME IInv, NEW r \in Requests, ChooseNext(r)
  PROVE  IInv'
  <1> DEFINE rows == Visible(req[r])
             next == Newest(rows)
             now == [req[r] EXCEPT !.next = next,
                                   !.at = IF next = 0 THEN "committing" ELSE "promoting"]
  <1>1. req[r].at = "choosing" /\ UNCHANGED <<table, rowLock, overlapped>>
        /\ req' = [req EXCEPT ![r].next = next,
                              ![r].at = IF next = 0 THEN "committing" ELSE "promoting"]
    BY DEF ChooseNext
  <1>2. PICK u \in Users : req[r].user = u
    BY <1>1, InFlight
  <1>3. /\ req[r] \in Request /\ Shape(req[r]) /\ Knows(r) /\ Holds(r)
        /\ rows \in SUBSET Addresses /\ rowLock \in [Addresses -> Requests \cup {None}]
    BY <1>1, InFlight
  <1>4. (rows = {} => next = 0) /\ (rows # {} => next \in rows /\ next # 0)
    <2> HIDE DEF rows
    <2>1. (rows = {} => next = 0) /\ (rows # {} => next \in rows)
      BY <1>3, NewestIn
    <2> QED BY <2>1, <1>3, AddressConfig DEF Addresses
  <1>5. rows = (SavedBy(u) \cup {a \in req[r].inserted : owner[a] = u}) \ req[r].removed
    BY <1>2, Seeing
  <1> HIDE DEF rows, next
  <1>6. now \in Request /\ now.at = (IF next = 0 THEN "committing" ELSE "promoting")
        /\ now.user = u /\ now.kind = req[r].kind /\ now.id = req[r].id /\ now.next = next
        /\ now.inserted = req[r].inserted /\ now.removed = req[r].removed
        /\ now.demoted = req[r].demoted /\ now.promoted = req[r].promoted
    BY <1>2, <1>3, <1>4 DEF Request, Stage
  <1>7. req' = [req EXCEPT ![r] = now]
    BY <1>1, <1>3
  <1> HIDE DEF now
  <1>8. Shape(now) /\ Hands(now) = Hands(req[r]) /\ now.promoted = {} /\ now.kind = "delete"
        /\ req[r].inserted = {}
    BY <1>1, <1>2, <1>3, <1>6 DEF Shape, Hands
  <1>9. ASSUME u \notin overlapped
        PROVE  Knowing(now, SavedBy(u), DefaultsOf(u), content)
    <2>1. req[r].removed = {req[r].id} /\ req[r].id \in DefaultsOf(u)
      BY <1>1, <1>2, <1>3, <1>9 DEF Knows, Knowing
    <2>2. rows = SavedBy(u) \ {req[r].id}
      BY <1>5, <1>8, <2>1
    <2>3. req[r].id \in SavedBy(u)
      BY <2>1 DEF IInv, TypeOK, SavedBy, DefaultsOf
    <2>4. CASE next = 0
      <3>1. SavedBy(u) = {req[r].id}
        BY <2>2, <2>3, <2>4, <1>4
      <3> QED BY <3>1, <2>1, <2>4, <1>6, <1>8 DEF Knowing
    <2>5. CASE next # 0
      <3>1. next \in SavedBy(u) \ {req[r].id}
        BY <2>2, <2>5, <1>4
      <3> QED BY <3>1, <2>1, <2>5, <1>6, <1>8 DEF Knowing
    <2> QED BY <2>4, <2>5
  <1>10. now.at # "writing" /\ now.user \in {req[r].user, None}
    BY <1>2, <1>6
  <1>11. \A a \in Hands(now) : rowLock'[a] = r /\ owner[a] = now.user
    BY <1>1, <1>2, <1>3, <1>6, <1>8 DEF Holds
  <1>12. \A v \in Users \ overlapped : now.user = v =>
           Knowing(now, SavedBy(v), DefaultsOf(v), content)
    BY <1>6, <1>9
  <1> QED BY <1>1, <1>3, <1>6, <1>7, <1>8, <1>10, <1>11, <1>12, Quiet
LEMMA ScanDefaultsSteps ==
  ASSUME IInv, NEW r \in Requests, ScanDefaults(r)
  PROVE  IInv'
  <1> DEFINE found == VisibleDefaults(req[r])
             now == [req[r] EXCEPT !.at = "demoting", !.found = found]
  <1>1. req[r].at = "scanning" /\ UNCHANGED <<table, rowLock, overlapped>>
        /\ req' = [req EXCEPT ![r].at = "demoting", ![r].found = found]
    BY DEF ScanDefaults
  <1>2. PICK u \in Users : req[r].user = u
    BY <1>1, InFlight
  <1>3. /\ req[r] \in Request /\ Shape(req[r]) /\ found \in SUBSET Addresses
        /\ rowLock \in [Addresses -> Requests \cup {None}]
    BY <1>1, InFlight DEF VisibleDefaults
  <1>4. req[r].inserted = {} /\ req[r].removed = {} /\ req[r].demoted = {} /\ req[r].promoted = {}
        /\ req[r].kind = "default"
    BY <1>1, <1>3 DEF Shape
  <1>5. found = DefaultsOf(u)
    <2>1. /\ Visible(req[r])
               = (SavedBy(u) \cup {a \in req[r].inserted : owner[a] = u}) \ req[r].removed
          /\ found = ((DefaultsOf(u) \ req[r].demoted) \cup req[r].promoted) \cap Visible(req[r])
      BY <1>2, Seeing
    <2>2. DefaultsOf(u) \subseteq SavedBy(u)
      BY DEF IInv, TypeOK, DefaultsOf, SavedBy
    <2> QED BY <1>4, <2>1, <2>2
  <1> HIDE DEF found
  <1>6. now \in Request /\ now.at = "demoting" /\ now.user = u /\ now.kind = req[r].kind
        /\ now.found = found /\ now.inserted = req[r].inserted /\ now.removed = req[r].removed
        /\ now.demoted = req[r].demoted /\ now.promoted = req[r].promoted
    BY <1>2, <1>3 DEF Request, Stage
  <1>7. req' = [req EXCEPT ![r] = now]
    BY <1>1, <1>3
  <1> HIDE DEF now
  <1>8. Shape(now) /\ Hands(now) = {} /\ now.promoted = {}
    BY <1>2, <1>4, <1>6 DEF Shape, Hands
  <1>9. Knowing(now, SavedBy(u), DefaultsOf(u), content)
    BY <1>5, <1>6 DEF Knowing
  <1> QED BY <1>1, <1>2, <1>3, <1>6, <1>7, <1>8, <1>9, Quiet

LEMMA DemoteDefaultsSteps ==
  ASSUME IInv, NEW r \in Requests, DemoteDefaults(r)
  PROVE  IInv'
  <1> DEFINE down == Demoted(req[r])
             now == [req[r] EXCEPT !.at = "promoting", !.next = req[r].id,
                                   !.demoted = down, !.found = {}]
  <1>1. req[r].at = "demoting" /\ UNCHANGED <<table, overlapped>> /\ Free(r, req[r].found)
        /\ Lock(r, down)
        /\ req' = [req EXCEPT ![r].at = "promoting", ![r].next = req[r].id,
                              ![r].demoted = down, ![r].found = {}]
    BY DEF DemoteDefaults
  <1>2. PICK u \in Users : req[r].user = u
    BY <1>1, InFlight
  <1>3. /\ req[r] \in Request /\ Shape(req[r]) /\ Knows(r) /\ Visible(req[r]) \subseteq Addresses
        /\ rowLock \in [Addresses -> Requests \cup {None}]
    BY <1>1, InFlight
  <1>4. req[r].inserted = {} /\ req[r].removed = {} /\ req[r].demoted = {} /\ req[r].promoted = {}
        /\ req[r].kind = "default"
    BY <1>1, <1>3 DEF Shape
  <1>5. down = req[r].found \cap DefaultsOf(u)
    <2>1. /\ Visible(req[r])
               = (SavedBy(u) \cup {a \in req[r].inserted : owner[a] = u}) \ req[r].removed
          /\ VisibleDefaults(req[r])
               = ((DefaultsOf(u) \ req[r].demoted) \cup req[r].promoted) \cap Visible(req[r])
      BY <1>2, Seeing
    <2>2. DefaultsOf(u) \subseteq SavedBy(u)
      BY DEF IInv, TypeOK, DefaultsOf, SavedBy
    <2> QED BY <1>4, <2>1, <2>2 DEF Demoted
  <1>6. down \in SUBSET Addresses /\ \A a \in down : owner[a] = u
    BY <1>5, <1>3 DEF DefaultsOf, Request
  <1>7. down \subseteq req[r].found
    BY <1>5
  <1> HIDE DEF down
  <1>8. now \in Request /\ now.at = "promoting" /\ now.user = u /\ now.kind = req[r].kind
        /\ now.inserted = req[r].inserted /\ now.removed = req[r].removed
        /\ now.demoted = down /\ now.promoted = req[r].promoted
    BY <1>2, <1>3, <1>6 DEF Request, Stage
  <1>9. req' = [req EXCEPT ![r] = now]
    BY <1>1, <1>3
  <1> HIDE DEF now
  <1>10. Shape(now) /\ Hands(now) = down /\ now.promoted = {}
    BY <1>2, <1>4, <1>8 DEF Shape, Hands
  <1>11. ASSUME u \notin overlapped
         PROVE  Knowing(now, SavedBy(u), DefaultsOf(u), content)
    <2>1. req[r].found = DefaultsOf(u)
      BY <1>1, <1>2, <1>3, <1>11 DEF Knows, Knowing
    <2> QED BY <2>1, <1>4, <1>5, <1>8 DEF Knowing
  <1>12. /\ rowLock' \in [Addresses -> Requests \cup {None}]
         /\ \A a \in down : rowLock'[a] = r
         /\ \A s \in Requests \ {r} : \A a \in Addresses : rowLock[a] = s => rowLock'[a] = s
    BY <1>1, <1>3, <1>6, <1>7, AddressConfig DEF Lock, Free
  <1>13. now.at # "writing" /\ now.user \in {req[r].user, None}
    BY <1>2, <1>8
  <1>14. \A a \in Hands(now) : rowLock'[a] = r /\ owner[a] = now.user
    BY <1>6, <1>8, <1>10, <1>12
  <1>15. \A v \in Users \ overlapped : now.user = v =>
           Knowing(now, SavedBy(v), DefaultsOf(v), content)
    BY <1>8, <1>11
  <1> QED BY <1>1, <1>8, <1>9, <1>10, <1>12, <1>13, <1>14, <1>15, Quiet

\* What a request that is about to promote knows of the rows it sees.
LEMMA Promoting ==
  ASSUME IInv, NEW r \in Requests, req[r].at = "promoting", NEW u \in Users, req[r].user = u,
         u \notin overlapped
  PROVE  /\ req[r].kind = "delete" =>
              /\ req[r].removed = {req[r].id} /\ req[r].id \in DefaultsOf(u)
              /\ req[r].next \in SavedBy(u) \ {req[r].id}
              /\ req[r].next \in Visible(req[r])
         /\ req[r].kind = "default" =>
              req[r].demoted = DefaultsOf(u) /\ Visible(req[r]) = SavedBy(u)
  <1>1. Shape(req[r]) /\ Knowing(req[r], SavedBy(u), DefaultsOf(u), content)
    BY InFlight DEF Knows
  <1>2. Visible(req[r])
          = (SavedBy(u) \cup {a \in req[r].inserted : owner[a] = u}) \ req[r].removed
    BY Seeing
  <1>3. req[r].inserted = {} /\ (req[r].kind = "default" => req[r].removed = {})
    BY <1>1 DEF Shape
  <1> QED BY <1>1, <1>2, <1>3 DEF Knowing

LEMMA PromoteRowSteps ==
  ASSUME IInv, NEW r \in Requests, PromoteRow(r)
  PROVE  IInv'
  <1>1. req[r].at = "promoting" /\ UNCHANGED <<table, overlapped>> /\ Free(r, {req[r].next})
    BY DEF PromoteRow
  <1>2. PICK u \in Users : req[r].user = u
    BY <1>1, InFlight
  <1>3. /\ req[r] \in Request /\ Shape(req[r]) /\ Holds(r) /\ Visible(req[r]) \subseteq Addresses
        /\ rowLock \in [Addresses -> Requests \cup {None}]
    BY <1>1, InFlight
  <1>4. req[r].inserted = {} /\ req[r].promoted = {} /\ req[r].kind \in {"delete", "default"}
    BY <1>1, <1>3 DEF Shape
  <1>5. CASE /\ req[r].next \in Visible(req[r])
             /\ Lock(r, {req[r].next})
             /\ req' = [req EXCEPT ![r].at = "committing", ![r].promoted = {req[r].next}]
    <2> DEFINE now == [req[r] EXCEPT !.at = "committing", !.promoted = {req[r].next}]
    <2>1. req[r].next \in Addresses
      BY <1>3, <1>5
    <2>2. now \in Request /\ now.at = "committing" /\ now.user = u /\ now.kind = req[r].kind
          /\ now.inserted = req[r].inserted /\ now.removed = req[r].removed
          /\ now.demoted = req[r].demoted /\ now.promoted = {req[r].next} /\ now.id = req[r].id
      BY <1>2, <1>3, <2>1 DEF Request, Stage
    <2>3. req' = [req EXCEPT ![r] = now]
      BY <1>3, <1>5
    <2> HIDE DEF now
    <2>4. Shape(now) /\ Hands(now) = Hands(req[r]) \cup {req[r].next}
      BY <1>1, <1>2, <1>3, <1>4, <2>2 DEF Shape, Hands
    <2>5. /\ rowLock' \in [Addresses -> Requests \cup {None}] /\ rowLock'[req[r].next] = r
          /\ \A s \in Requests : \A a \in Addresses : rowLock[a] = s => rowLock'[a] = s
      BY <1>1, <1>3, <1>5, <2>1, AddressConfig DEF Lock, Free
    <2>6. owner[req[r].next] = u /\ req[r].next \in saved
      BY <1>2, <1>4, <1>5 DEF Visible, Mine
    <2>7. \A a \in Hands(now) : rowLock'[a] = r /\ owner[a] = now.user
      <3>1. \A a \in Hands(req[r]) : a \in Addresses /\ rowLock[a] = r /\ owner[a] = u
        BY <1>1, <1>2, InFlight DEF Holds
      <3> QED BY <2>2, <2>4, <2>5, <2>6, <3>1
    <2>8. ASSUME u \notin overlapped
          PROVE  Knowing(now, SavedBy(u), DefaultsOf(u), content)
      <3>1. CASE req[r].kind = "delete"
        BY <1>1, <1>2, <2>2, <2>8, <3>1, Promoting DEF Knowing
      <3>2. CASE req[r].kind = "default"
        BY <1>1, <1>2, <1>5, <2>2, <2>8, <3>2, Promoting DEF Knowing
      <3> QED BY <1>4, <3>1, <3>2
    <2>9. now.at # "writing" /\ now.user \in {req[r].user, None}
          /\ now.promoted \subseteq saved \cup now.inserted
      BY <1>2, <2>2, <2>6
    <2>10. \A v \in Users \ overlapped : now.user = v =>
             Knowing(now, SavedBy(v), DefaultsOf(v), content)
      BY <2>2, <2>8
    <2> QED BY <1>1, <2>2, <2>3, <2>4, <2>5, <2>7, <2>9, <2>10, Quiet
  <1>6. CASE /\ req[r].next \notin Visible(req[r]) /\ req[r].kind = "delete"
             /\ req' = [req EXCEPT ![r].at = "committing"]
             /\ UNCHANGED rowLock
    <2> DEFINE now == [req[r] EXCEPT !.at = "committing"]
    <2>1. now \in Request /\ now.at = "committing" /\ now.user = u /\ now.kind = req[r].kind
          /\ now.inserted = req[r].inserted /\ now.removed = req[r].removed
          /\ now.demoted = req[r].demoted /\ now.promoted = req[r].promoted
      BY <1>2, <1>3 DEF Request, Stage
    <2>2. req' = [req EXCEPT ![r] = now]
      BY <1>3, <1>6
    <2> HIDE DEF now
    <2>3. Shape(now) /\ Hands(now) = Hands(req[r]) /\ now.promoted = {}
      BY <1>1, <1>2, <1>3, <1>4, <2>1 DEF Shape, Hands
    <2>4. u \in overlapped
      BY <1>1, <1>2, <1>6, Promoting
    <2>5. now.at # "writing" /\ now.user \in {req[r].user, None}
      BY <1>2, <2>1
    <2>6. \A a \in Hands(now) : rowLock'[a] = r /\ owner[a] = now.user
      BY <1>2, <1>3, <1>6, <2>1, <2>3 DEF Holds
    <2>7. \A v \in Users \ overlapped : now.user # v
      BY <2>1, <2>4
    <2> QED BY <1>1, <1>3, <1>6, <2>1, <2>2, <2>3, <2>5, <2>6, <2>7, Quiet
  <1>7. CASE Reply(r, "not_found") /\ Release(r)
    BY <1>1, <1>7, Replied
  <1> QED BY <1>5, <1>6, <1>7 DEF PromoteRow

LEMMA ReadRowSteps ==
  ASSUME IInv, NEW r \in Requests, ReadRow(r)
  PROVE  IInv'
  <1>1. req[r].at = "reading" /\ UNCHANGED <<table, rowLock, overlapped>>
    BY DEF ReadRow
  <1>2. CASE Reply(r, "not_found")
    BY <1>1, <1>2, Replied
  <1>3. CASE /\ req[r].id \in Visible(req[r])
             /\ req' = [req EXCEPT ![r].at = "writing", ![r].seen = content[req[r].id]]
    <2> DEFINE now == [req[r] EXCEPT !.at = "writing", !.seen = content[req[r].id]]
    <2>1. PICK u \in Users : req[r].user = u
      BY <1>1, InFlight
    <2>2. /\ req[r] \in Request /\ Shape(req[r]) /\ req[r].id \in Addresses
          /\ rowLock \in [Addresses -> Requests \cup {None}]
      BY <1>1, <1>3, InFlight
    <2>3. content[req[r].id] \in [Fields -> Values]
      BY <2>2 DEF IInv, TypeOK
    <2>4. now \in Request /\ now.at = "writing" /\ now.user = u /\ now.id = req[r].id
          /\ now.seen = content[req[r].id] /\ now.kind = req[r].kind
          /\ now.inserted = req[r].inserted /\ now.removed = req[r].removed
          /\ now.demoted = req[r].demoted /\ now.promoted = req[r].promoted
      BY <2>1, <2>2, <2>3 DEF Request, Stage
    <2>5. req' = [req EXCEPT ![r] = now]
      BY <1>3, <2>2
    <2> HIDE DEF now
    <2>6. Shape(now) /\ Hands(now) = {} /\ now.promoted = {}
      BY <1>1, <2>1, <2>2, <2>4 DEF Shape, Hands
    <2>7. owner[req[r].id] = u
      BY <1>3, <2>1 DEF Visible, Mine
    <2>8. Knowing(now, SavedBy(u), DefaultsOf(u), content)
      BY <2>4 DEF Knowing
    <2>9. now.id \in Addresses /\ owner[now.id] = now.user
      BY <2>2, <2>4, <2>7
    <2> QED BY <1>1, <2>1, <2>2, <2>4, <2>5, <2>6, <2>8, <2>9, Quiet
  <1> QED BY <1>2, <1>3 DEF ReadRow
LEMMA CommitSteps ==
  ASSUME IInv, NEW r \in Requests, Commit(r)
  PROVE  IInv'
  <1> DEFINE q == req[r]
             now == IF q.kind = "create"
                    THEN [q EXCEPT !.at = "confirming", !.inserted = {}, !.promoted = {}]
                    ELSE [NoRequest EXCEPT !.answer = "ok"]
  <1>1. /\ q.at = "committing"
        /\ saved' = (saved \cup q.inserted) \ q.removed
        /\ defaults' = ((defaults \ q.demoted) \cup q.promoted) \ q.removed
        /\ Release(r)
        /\ UNCHANGED <<owner, content, overlapped>>
    BY DEF Commit
  <1>2. PICK u \in Users : q.user = u
    BY <1>1, InFlight
  <1>3. /\ q \in Request /\ Shape(q) /\ Holds(r) /\ Knows(r) /\ Hands(q) \subseteq Addresses
        /\ rowLock \in [Addresses -> Requests \cup {None}] /\ TypeOK
    BY <1>1, InFlight DEF IInv
  <1>4. \A a \in Hands(q) : a \in Addresses /\ rowLock[a] = r /\ owner[a] = u
    BY <1>2, <1>3 DEF Holds
  <1>5. req' = [req EXCEPT ![r] = now] /\ req'[r] = now
    <2>1. CASE q.kind = "create"
      BY <1>3, <2>1 DEF Commit, TypeOK
    <2>2. CASE q.kind # "create"
      BY <1>3, <2>2 DEF Commit, TypeOK, Reply
    <2> QED BY <2>1, <2>2
  <1>6. /\ now \in Request /\ now.at \in {"confirming", "answered"} /\ now.user \in {u, None}
        /\ Shape(now) /\ Hands(now) = {} /\ now.promoted = {}
    <2>1. CASE q.kind = "create"
      <3>1. now \in Request /\ now.at = "confirming" /\ now.user = u /\ now.inserted = {}
            /\ now.promoted = {} /\ now.removed = q.removed /\ now.demoted = q.demoted
        BY <1>2, <1>3, <2>1 DEF Request, Stage
      <3>2. q.removed = {} /\ q.demoted = {}
        BY <1>3, <2>1 DEF Shape
      <3> HIDE DEF now, q
      <3> QED BY <3>1, <3>2 DEF Shape, Hands
    <2>2. CASE q.kind # "create"
      <3>1. now = [NoRequest EXCEPT !.answer = "ok"]
        BY <2>2
      <3>2. now \in Request /\ now.at = "answered" /\ now.user = None /\ now.inserted = {}
            /\ now.promoted = {} /\ now.removed = {} /\ now.demoted = {}
        BY <3>1 DEF NoRequest, Request, Stage, Unedited, Values
      <3> HIDE DEF now
      <3> QED BY <3>2 DEF Shape, Hands
    <2> QED BY <2>1, <2>2
  <1> HIDE DEF now
  <1>7. q.inserted \subseteq Hands(q) /\ q.removed \subseteq Hands(q) /\ q.demoted \subseteq Hands(q)
        /\ q.promoted \subseteq Hands(q) /\ q.promoted \subseteq saved \cup q.inserted
    BY <1>3 DEF Hands, Holds
  <1>8. /\ owner' \in [Addresses -> Users \cup {None}]
        /\ saved' \subseteq {a \in Addresses : owner'[a] # None} /\ defaults' \subseteq saved'
        /\ content' \in [Addresses -> [Fields -> Values]]
    BY <1>1, <1>2, <1>3, <1>4, <1>7, AddressConfig DEF TypeOK
  <1>9. /\ rowLock' \in [Addresses -> Requests \cup {None}]
        /\ \A s \in Requests \ {r} : \A a \in Addresses : rowLock[a] = s => rowLock'[a] = s
    BY <1>1, <1>3 DEF Release
  <1>10. \A a \in Addresses : owner[a] # u => a \notin Hands(q)
    BY <1>4
  <1>11. \A a \in Addresses : owner[a] \notin {None, u} =>
           content'[a] = content[a] /\ (a \in saved' <=> a \in saved) /\ (a \in defaults' <=> a \in defaults)
    BY <1>1, <1>7, <1>10
  <1>12. \A s \in Requests \ {r} : req[s].promoted \subseteq saved' \cup req[s].inserted
    <2> SUFFICES ASSUME NEW s \in Requests, s # r, NEW a \in req[s].promoted
                 PROVE  a \in saved' \cup req[s].inserted
      OBVIOUS
    <2>1. Holds(s) /\ a \in Hands(req[s])
      BY DEF IInv, Hands
    <2>2. rowLock[a] = s /\ a \in saved \cup req[s].inserted
      BY <2>1 DEF Holds
    <2>3. a \notin q.removed
      BY <1>4, <1>7, <2>2
    <2> QED BY <1>1, <2>2, <2>3
  <1>13. Holds(r)'
    BY <1>5, <1>6 DEF Holds
  <1>14. Knows(r)'
    BY <1>5, <1>6 DEF Knows, Knowing
  <1>15. \A v \in Users \ overlapped : v = q.user => InOrder(SavedBy(v), DefaultsOf(v))'
    <2> SUFFICES ASSUME u \notin overlapped PROVE InOrder(SavedBy(u), DefaultsOf(u))'
      BY <1>2
    <2>1. InOrder(SavedBy(u), DefaultsOf(u)) /\ Knowing(q, SavedBy(u), DefaultsOf(u), content)
      BY <1>2, <1>3 DEF IInv, Knows
    <2>2. SavedBy(u) \in SUBSET Addresses /\ DefaultsOf(u) \in SUBSET SavedBy(u)
      BY <1>3 DEF TypeOK, SavedBy, DefaultsOf
    <2>3. InOrder((SavedBy(u) \cup q.inserted) \ q.removed,
                  ((DefaultsOf(u) \ q.demoted) \cup q.promoted) \ q.removed)
      <3> HIDE DEF q
      <3> QED BY <1>1, <1>3, <2>1, <2>2, CommitInOrder
    <2>4. SavedBy(u)' = (SavedBy(u) \cup q.inserted) \ q.removed
      BY <1>1, <1>4, <1>7 DEF SavedBy
    <2>5. DefaultsOf(u)' = ((DefaultsOf(u) \ q.demoted) \cup q.promoted) \ q.removed
      BY <1>1, <1>4, <1>7 DEF DefaultsOf
    <2> QED BY <2>3, <2>4, <2>5 DEF InOrder
  <1>16. now.user \in {q.user, None} /\ q.at # "answered"
    BY <1>1, <1>2, <1>6
  <1>17. /\ \A a \in Addresses : owner[a] # None => owner'[a] = owner[a]
         /\ \A a \in Addresses : owner[a] = None => owner'[a] \in {None, q.user}
    BY <1>1
  <1>18. \A a \in Addresses : owner[a] \notin {None, q.user} =>
           content'[a] = content[a] /\ (a \in saved' <=> a \in saved) /\ (a \in defaults' <=> a \in defaults)
    BY <1>2, <1>11
  <1>19. overlapped' = overlapped /\ now \in Request /\ Shape(now) /\ req' = [req EXCEPT ![r] = now]
         /\ \A s \in Requests \ {r} : \A a \in Addresses :
              owner[a] # None /\ rowLock[a] = s => rowLock'[a] = s
    BY <1>1, <1>5, <1>6, <1>9
  <1> QED BY <1>8, <1>9, <1>12, <1>13, <1>14, <1>15, <1>16, <1>17, <1>18, <1>19, Stepped

LEMMA WriteRowSteps ==
  ASSUME IInv, NEW r \in Requests, WriteRow(r)
  PROVE  IInv'
  <1>1. req[r].at = "writing" /\ UNCHANGED <<owner, saved, defaults, rowLock, overlapped>>
    BY DEF WriteRow
  <1>2. CASE Reply(r, "not_found") /\ UNCHANGED content
    BY <1>1, <1>2, Replied DEF table
  <1>3. CASE /\ req[r].id \in Visible(req[r])
             /\ content' = [content EXCEPT ![req[r].id] = Merged(req[r])]
             /\ req' = [req EXCEPT ![r].at = "confirming", ![r].patch = {}, ![r].seen = Unedited]
    <2> DEFINE now == [req[r] EXCEPT !.at = "confirming", !.patch = {}, !.seen = Unedited]
    <2>1. PICK u \in Users : req[r].user = u
      BY <1>1, InFlight
    <2>2. /\ req[r] \in Request /\ Shape(req[r]) /\ req[r].id \in Addresses /\ TypeOK
          /\ owner[req[r].id] = u
      BY <1>1, <2>1, InFlight DEF IInv, Holds
    <2>3. now \in Request /\ now.at = "confirming" /\ now.user = u
          /\ now.inserted = req[r].inserted /\ now.removed = req[r].removed
          /\ now.demoted = req[r].demoted /\ now.promoted = req[r].promoted
      BY <2>1, <2>2 DEF Request, Stage, Unedited, Values
    <2>4. req' = [req EXCEPT ![r] = now] /\ req'[r] = now
      BY <1>3, <2>2 DEF TypeOK
    <2> HIDE DEF now
    <2>5. Shape(now) /\ Hands(now) = {} /\ now.promoted = {}
      BY <1>1, <2>1, <2>2, <2>3 DEF Shape, Hands
    <2>6. Merged(req[r]) \in [Fields -> Values]
      BY <2>2 DEF Merged, Values, Request
    <2>7. /\ content' \in [Addresses -> [Fields -> Values]]
          /\ \A a \in Addresses : a # req[r].id => content'[a] = content[a]
      BY <1>3, <2>2, <2>6 DEF TypeOK
    <2>8. \A v : SavedBy(v)' = SavedBy(v) /\ DefaultsOf(v)' = DefaultsOf(v)
      BY <1>1 DEF SavedBy, DefaultsOf
    <2>9. Holds(r)' /\ Knows(r)'
      <3>1. Holds(r)'
        BY <2>3, <2>4, <2>5 DEF Holds
      <3>2. Knows(r)'
        BY <2>3, <2>4 DEF Knows, Knowing
      <3> QED BY <3>1, <3>2
    <2>10. \A v \in Users \ overlapped : v = req[r].user => InOrder(SavedBy(v), DefaultsOf(v))'
      BY <2>8 DEF IInv, InOrder
    <2>11. \A s \in Requests \ {r} : req[s].promoted \subseteq saved' \cup req[s].inserted
      BY <1>1 DEF IInv, Holds
    <2>12. /\ owner' \in [Addresses -> Users \cup {None}]
           /\ saved' \subseteq {a \in Addresses : owner'[a] # None} /\ defaults' \subseteq saved'
           /\ rowLock' \in [Addresses -> Requests \cup {None}]
      BY <1>1, <2>2 DEF TypeOK
    <2>13. \A a \in Addresses : owner[a] \notin {None, req[r].user} =>
             content'[a] = content[a] /\ (a \in saved' <=> a \in saved)
             /\ (a \in defaults' <=> a \in defaults)
      BY <1>1, <2>1, <2>2, <2>7
    <2>14. now.user \in {req[r].user, None} /\ overlapped' = overlapped
      BY <1>1, <2>1, <2>3
    <2>15. /\ \A a \in Addresses : owner[a] # None => owner'[a] = owner[a]
           /\ \A a \in Addresses : owner[a] = None => owner'[a] \in {None, req[r].user}
           /\ \A s \in Requests \ {r} : \A a \in Addresses :
                owner[a] # None /\ rowLock[a] = s => rowLock'[a] = s
      BY <1>1
    <2> QED BY <1>1, <2>3, <2>4, <2>5, <2>7, <2>9, <2>10, <2>11, <2>12, <2>13, <2>14, <2>15, Stepped
  <1> QED BY <1>2, <1>3 DEF WriteRow

LEMMA NextIInv ==
  IInv /\ [Next]_vars => IInv'
  <1> SUFFICES ASSUME IInv, [Next]_vars PROVE IInv'
    OBVIOUS
  <1>1. ASSUME NEW r \in Requests, Work(r) PROVE IInv'
    <2>1. CASE Confirm(r)
      <3>1. PICK answer \in {"ok", "failed"} : Reply(r, answer)
        BY <2>1 DEF Confirm
      <3> QED BY <2>1, <3>1, Replied DEF Confirm
    <2> QED
      BY <1>1, <2>1, CountRowsSteps, InsertRowSteps, LoadRowSteps, DeleteRowSteps, ChooseNextSteps,
         ScanDefaultsSteps, DemoteDefaultsSteps, PromoteRowSteps, CommitSteps, ReadRowSteps,
         WriteRowSteps DEF Work
  <1>2. ASSUME NEW r \in Requests, Fail(r) PROVE IInv'
    BY <1>2, Replied DEF Fail, Idle
  <1>3. CASE Crash
    <2>1. UNCHANGED <<owner, saved, defaults, content, overlapped>>
          /\ req' = [s \in Requests |-> NoRequest] /\ rowLock' = [a \in Addresses |-> None]
      BY <1>3 DEF Crash, table
    <2>2. NoRequest \in Request
      BY DEF NoRequest, Request, Stage, Unedited, Values
    <2>3. TypeOK'
      BY <2>1, <2>2 DEF IInv, TypeOK
    <2>4. \A u \in Users \ overlapped' : InOrder(SavedBy(u), DefaultsOf(u))'
      BY <2>1 DEF IInv, InOrder, SavedBy, DefaultsOf
    <2>5. AtRest'
      BY <2>1, <2>3, <2>4 DEF AtRest
    <2> QED BY <2>5, Resting, PTL
  <1>4. CASE UNCHANGED vars
    <2>1. UNCHANGED <<owner, saved, defaults, content, rowLock, req, overlapped>>
      BY <1>4 DEF vars, table
    <2>2. TypeOK' /\ Overlap'
      BY <2>1 DEF IInv, TypeOK, Overlap
    <2>3. \A u : SavedBy(u)' = SavedBy(u) /\ DefaultsOf(u)' = DefaultsOf(u)
      BY <2>1 DEF SavedBy, DefaultsOf
    <2>4. \A s \in Requests : Shape(req'[s]) /\ Holds(s)'
      BY <2>1 DEF IInv, Holds
    <2>5. \A s \in Requests : Knows(s)'
      BY <2>1, <2>3 DEF IInv, Knows
    <2>6. \A u \in Users \ overlapped' : InOrder(SavedBy(u), DefaultsOf(u))'
      BY <2>1, <2>3 DEF IInv, InOrder
    <2> QED BY <2>2, <2>4, <2>5, <2>6 DEF IInv
  <1> QED BY <1>1, <1>2, <1>3, <1>4, AskSteps DEF Next

\* Only a commit and the UPDATE of an edit change what is stored.
LEMMA Writers ==
  ASSUME Next
  PROVE  \/ UNCHANGED <<saved, defaults, content>>
         \/ \E r \in Requests : Commit(r) \/ WriteRow(r)
  <1>1. ASSUME NEW r \in Requests, Ask(r) PROVE UNCHANGED table
    BY <1>1 DEF Ask, Receive
  <1>2. ASSUME NEW r \in Requests, Work(r)
        PROVE  UNCHANGED <<saved, defaults, content>> \/ Commit(r) \/ WriteRow(r)
    <2>1. CASE CountRows(r) \/ LoadRow(r) \/ DeleteRow(r) \/ ChooseNext(r)
      BY <2>1 DEF CountRows, LoadRow, DeleteRow, ChooseNext, table
    <2>2. CASE ScanDefaults(r) \/ DemoteDefaults(r) \/ PromoteRow(r)
      BY <2>2 DEF ScanDefaults, DemoteDefaults, PromoteRow, table
    <2>3. CASE InsertRow(r) \/ ReadRow(r) \/ Confirm(r)
      BY <2>3 DEF InsertRow, ReadRow, Confirm, table
    <2> QED BY <1>2, <2>1, <2>2, <2>3 DEF Work
  <1>3. ASSUME NEW r \in Requests, Fail(r) PROVE UNCHANGED table
    BY <1>3 DEF Fail
  <1>4. CASE Crash
    BY <1>4 DEF Crash, table
  <1> QED BY <1>1, <1>2, <1>3, <1>4 DEF Next, table

LEMMA AlwaysIInv ==
  Spec => []IInv
  <1> QED BY InitIInv, NextIInv, PTL DEF Spec

-----------------------------------------------------------------------------
(* Theorems                                                                *)

\* Every variable keeps its type: only rows that were inserted are saved, and
\* only saved rows are defaults, whatever the requests do.
THEOREM TypeCorrect ==
  Spec => []TypeOK
  <1>1. IInv => TypeOK
    BY DEF IInv
  <1> QED BY <1>1, AlwaysIInv, PTL

\* A customer whose requests never overlapped has exactly one default while any
\* address is left, and never more than maxAddressesPerUser of them.
THEOREM BookKept ==
  Spec => []BookInOrderUnlessOverlapped
  <1>1. IInv => BookInOrderUnlessOverlapped
    <2> SUFFICES ASSUME IInv, NEW u \in Users, u \notin overlapped
                 PROVE  /\ Cardinality(DefaultsOf(u)) = IF SavedBy(u) = {} THEN 0 ELSE 1
                        /\ Cardinality(SavedBy(u)) <= MaxPerUser
      BY DEF BookInOrderUnlessOverlapped
    <2>1. InOrder(SavedBy(u), DefaultsOf(u)) /\ DefaultsOf(u) \subseteq SavedBy(u)
      BY DEF IInv, TypeOK, SavedBy, DefaultsOf
    <2>2. CASE SavedBy(u) = {}
      <3>1. DefaultsOf(u) = {}
        BY <2>1, <2>2
      <3> QED BY <2>1, <2>2, <3>1, FS_EmptySet DEF InOrder
    <2>3. CASE SavedBy(u) # {}
      <3>1. PICK d : DefaultsOf(u) = {d}
        BY <2>1, <2>3 DEF InOrder
      <3>2. Cardinality({d}) = 1
        BY FS_Singleton
      <3> QED BY <2>1, <2>3, <3>1, <3>2 DEF InOrder
    <2> QED BY <2>2, <2>3
  <1> QED BY <1>1, AlwaysIInv, PTL

\* Whatever statements interleave, an address is saved, deleted, made or unmade
\* the default and edited by a request of its owner only.
THEOREM OthersKept ==
  Spec => OthersUntouched
  <1>1. IInv /\ [Next]_vars => [TouchedByOwner]_vars
    <2> SUFFICES ASSUME IInv, Next, NEW a \in Addresses, Touched(a)
                 PROVE  \E r \in Requests : req[r].user = owner'[a] /\ req'[r] # req[r]
      BY DEF TouchedByOwner
    <2>1. PICK r \in Requests : Commit(r) \/ WriteRow(r)
      BY Writers DEF Touched
    <2>2. /\ req[r].at # "answered" /\ owner' = owner /\ req \in [Requests -> Request]
          /\ content \in [Addresses -> [Fields -> Values]]
      BY <2>1 DEF Commit, WriteRow, IInv, TypeOK
    <2>3. /\ Holds(r) /\ Hands(req[r]) \subseteq Addresses
      BY <2>2, InFlight
    <2>4. CASE Commit(r)
      <3>1. a \in Hands(req[r])
        BY <2>4 DEF Touched, Commit, Hands
      <3>2. req'[r].at \in {"confirming", "answered"} /\ req[r].at = "committing"
        <4>1. CASE req[r].kind = "create"
          BY <2>2, <2>4, <4>1 DEF Commit, Request
        <4>2. CASE req[r].kind # "create"
          <5>1. req'[r] = [NoRequest EXCEPT !.answer = "ok"] /\ req[r].at = "committing"
            BY <2>2, <2>4, <4>2 DEF Commit, Reply
          <5> QED BY <5>1 DEF NoRequest
        <4> QED BY <4>1, <4>2
      <3> QED BY <2>2, <2>3, <3>1, <3>2 DEF Holds
    <2>5. CASE WriteRow(r)
      <3>1. a = req[r].id
        BY <2>2, <2>5 DEF WriteRow, Touched
      <3>2. req'[r].at \in {"confirming", "answered"} /\ req[r].at = "writing"
        <4>1. CASE Reply(r, "not_found")
          <5>1. req'[r] = [NoRequest EXCEPT !.answer = "not_found"] /\ req[r].at = "writing"
            BY <2>2, <2>5, <4>1 DEF WriteRow, Reply
          <5> QED BY <5>1 DEF NoRequest
        <4>2. CASE req[r].id \in Visible(req[r])
          BY <2>2, <2>5, <4>2 DEF WriteRow, Request
        <4> QED BY <2>5, <4>1, <4>2 DEF WriteRow
      <3> QED BY <2>2, <2>3, <3>1, <3>2 DEF Holds
    <2> QED BY <2>1, <2>4, <2>5
  <1> QED BY <1>1, AlwaysIInv, PTL DEF Spec, OthersUntouched

\* An edit leaves every field it did not send as it is stored, unless another
\* request of the customer was in flight at the same time.
THEOREM FieldsStay ==
  Spec => OmittedFieldsKept
  <1>1. IInv /\ [Next]_vars => [FieldsKept]_vars
    <2> SUFFICES ASSUME IInv, Next, NEW r \in Requests, NEW f \in Fields \ req[r].patch,
                        req[r].at = "writing", req'[r].at = "confirming",
                        req[r].user \notin overlapped
                 PROVE  content'[req[r].id][f] = content[req[r].id][f]
      BY DEF FieldsKept
    <2>1. req \in [Requests -> Request] /\ content \in [Addresses -> [Fields -> Values]]
      BY DEF IInv, TypeOK
    <2>2. CASE WriteRow(r)
      <3>1. content' = [content EXCEPT ![req[r].id] = Merged(req[r])]
        BY <2>1, <2>2 DEF WriteRow, Reply, NoRequest
      <3>2. req[r].id \in Addresses /\ req[r].seen = content[req[r].id]
        BY InFlight DEF Holds, Knows, Knowing
      <3>3. Merged(req[r])[f] = req[r].seen[f]
        BY DEF Merged
      <3> QED BY <2>1, <3>1, <3>2, <3>3
    <2>3. CASE content' = content
      BY <2>3
    <2>4. WriteRow(r) \/ content' = content
      <3>1. ASSUME NEW s \in Requests, s # r, WriteRow(s) PROVE FALSE
        BY <2>1, <3>1 DEF WriteRow, Reply
      <3> QED
        BY <3>1, Writers DEF Commit
    <2> QED BY <2>2, <2>3, <2>4
  <1> QED BY <1>1, AlwaysIInv, PTL DEF Spec, OmittedFieldsKept
=============================================================================
