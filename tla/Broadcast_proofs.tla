------------------------- MODULE Broadcast_proofs -------------------------
(***************************************************************************)
(* Proofs about Broadcast: its types, that an inbox is written whole or    *)
(* not at all, that registrations follow the app, and that the history is  *)
(* honest.  The last needs a count kept over all the workers of a push:    *)
(* what was sent and what failed is what the workers that ended reported   *)
(* (Counted).                                                              *)
(***************************************************************************)
EXTENDS Broadcast, FiniteSetTheorems, TLAPS

-----------------------------------------------------------------------------
(* What single operators do *)

\* Tally keeps the type of a send, and all of it but the report.
LEMMA TallyKeeps ==
  ASSUME NEW q \in Sending, NEW t \in Devices, NEW v
  PROVE  /\ Tally(q, t, v) \in Sending
         /\ Tally(q, t, v).at = q.at
         /\ Tally(q, t, v).due = q.due
         /\ Tally(q, t, v).recipients = q.recipients
         /\ Tally(q, t, v).written = q.written
         /\ Tally(q, t, v).answer = q.answer
         /\ Tally(q, t, v).cancelled = q.cancelled
         /\ v # "gone" => Tally(q, t, v).invalid = q.invalid
         /\ Tally(q, t, v).invalid \subseteq q.invalid \cup {t}
<1>1. q.sent + (IF v = "sent" THEN 1 ELSE 0) \in Nat
  BY DEF Sending
<1>2. q.failed + (IF v = "sent" THEN 0 ELSE 1) \in Nat
  BY DEF Sending
<1>3. q.invalid \cup (IF v = "gone" THEN {t} ELSE {}) \in SUBSET Devices
  BY DEF Sending
<1>4. (q.fatal \/ v = "auth") \in BOOLEAN
  OBVIOUS
<1>5. QED
  BY <1>1, <1>2, <1>3, <1>4 DEF Tally, Sending

\* Min of two numbers.
LEMMA MinOfTwo ==
  ASSUME NEW i \in Nat, NEW j \in Nat
  PROVE  Min({i, j}) = IF i <= j THEN i ELSE j
<1> DEFINE m == IF i <= j THEN i ELSE j
<1>1. m \in {i, j} /\ \A y \in {i, j} : m <= y
  OBVIOUS
<1>2. \A x \in {i, j} : (\A y \in {i, j} : x <= y) => x = m
  OBVIOUS
<1>3. QED
  BY <1>1, <1>2 DEF Min

\* A page no larger than the cap is everybody who matched.
LEMMA PageIsWhole ==
  ASSUME NEW matched \in SUBSET Users, NEW s \in Page(matched),
         Cardinality(s) <= MaxRecipients
  PROVE  s = matched
<1>1. IsFiniteSet(matched)
  BY BroadcastConfig, FS_Subset
<1>2. s \subseteq matched /\ IsFiniteSet(s)
  BY <1>1, FS_Subset DEF Page
<1>3. Cardinality(s) \in Nat /\ Cardinality(matched) \in Nat
  BY <1>1, <1>2, FS_CardinalityType
<1>4. Cardinality(s) = Min({Cardinality(matched), MaxRecipients + 1})
  BY DEF Page
<1>5. MaxRecipients + 1 \in Nat
  BY BroadcastConfig
<1>6. Cardinality(s) = Cardinality(matched)
  BY <1>3, <1>4, <1>5, MinOfTwo, BroadcastConfig
<1>7. QED
  BY <1>1, <1>2, <1>6, FS_Subset

-----------------------------------------------------------------------------
(* The inductive invariant *)

Late == {"loading", "granting", "queueing", "pruning", "recording"}

\* What the inbox holds at each stage of a send.
WholeFor(q, i) ==
  /\ q.at \in {"new", "resolving", "inserting"} => i = {} /\ q.answer = None
  /\ q.at = "inserting" => q.recipients = q.due
  /\ q.at \in Late => i = q.due /\ q.answer = None
  /\ q.at = "crashed" => i \in {{}, q.due} /\ q.answer = None
  /\ q.at = "answered" =>
       /\ i \in {{}, q.due}
       /\ q.answer = "refused" => i = {}
       /\ q.answer = "sent" => i = q.due

Whole == \A b \in Sends : WholeFor(send[b], inbox[b])

IInv == TypeOK /\ Whole

LEMMA InitIInv == Init => IInv
<1> SUFFICES ASSUME Init PROVE IInv
  OBVIOUS
<1>1. Unsent \in Sending
  BY DEF Unsent, Sending, Stage
<1>2. NoEntry \in Entry
  BY DEF NoEntry, Entry
<1>3. Typed
  BY <1>1, <1>2, BroadcastConfig DEF Init, Typed, WorkerStage
<1>4. \A b \in Sends : Running(b) = {}
  BY DEF Init, Running
<1>5. SlotsBoundWorkers
  BY <1>4, FS_EmptySet, BroadcastConfig DEF SlotsBoundWorkers
<1>6. MutexHeldByWaiter
  BY DEF Init, MutexHeldByWaiter
<1>7. Whole
  BY DEF Init, Whole, WholeFor, Unsent, Late, None
<1>8. QED
  BY <1>3, <1>5, <1>6, <1>7 DEF IInv, TypeOK

\* Workers that stop, or do not start, keep the bound of the semaphore.
LEMMA FewerWorkers ==
  ASSUME SlotsBoundWorkers, \A b \in Sends : Running(b)' \subseteq Running(b)
  PROVE  SlotsBoundWorkers'
<1> SUFFICES ASSUME NEW b \in Sends
             PROVE  Cardinality(Running(b)') <= Concurrency
  BY DEF SlotsBoundWorkers
<1>1. IsFiniteSet(Running(b))
  BY BroadcastConfig, FS_Subset DEF Running
<1>2. /\ IsFiniteSet(Running(b)') /\ Cardinality(Running(b)') <= Cardinality(Running(b))
  BY <1>1, FS_Subset
<1>3. Cardinality(Running(b)') \in Nat /\ Cardinality(Running(b)) \in Nat
  BY <1>1, <1>2, FS_CardinalityType
<1>4. QED
  BY <1>2, <1>3, BroadcastConfig DEF SlotsBoundWorkers

LEMMA SendTyped == ASSUME IInv, NEW b \in Sends PROVE send[b] \in Sending
BY DEF IInv, TypeOK, Typed

\* A step of one send leaves the others alone.
LEMMA OneSend ==
  ASSUME Typed, NEW b \in Sends, NEW q \in Sending, send' = [send EXCEPT ![b] = q]
  PROVE  /\ send' \in [Sends -> Sending]
         /\ send'[b] = q
         /\ \A c \in Sends : c # b => send'[c] = send[c]
BY DEF Typed

\* One send moves, after its inbox is written.
LEMMA LateMove ==
  ASSUME Whole, NEW b \in Sends, UNCHANGED inbox,
         \A c \in Sends : c # b => send'[c] = send[c],
         send'[b].due = send[b].due, send'[b].answer = send[b].answer,
         send'[b].recipients = send[b].recipients,
         send'[b].at = send[b].at \/ (send[b].at \in Late /\ send'[b].at \in Late)
  PROVE  Whole'
<1> SUFFICES ASSUME NEW c \in Sends PROVE WholeFor(send'[c], inbox'[c])
  BY DEF Whole
<1>1. CASE c # b
  BY <1>1 DEF Whole
<1>2. CASE c = b
  <2>1. WholeFor(send[b], inbox[b])
    BY DEF Whole
  <2>2. QED
    BY <1>2, <2>1 DEF WholeFor, Late
<1>3. QED
  BY <1>1, <1>2

\* Steps that touch nothing the invariant speaks of but the registrations.
LEMMA RegistryStep ==
  ASSUME IInv, UNCHANGED <<inbox, history, send, fcm>>,
         holder' \in [Devices -> Users \cup {None}], signedOut' \subseteq Devices,
         gone' \subseteq Devices, signedIn' \in [Devices -> Users \cup {None}]
  PROVE  IInv'
<1>1. UNCHANGED <<inbox, history, send, worker, fresh, minting, reached>>
  BY DEF fcm
<1>2. Typed'
  BY <1>1 DEF IInv, TypeOK, Typed
<1>3. SlotsBoundWorkers'
  BY <1>1 DEF IInv, TypeOK, SlotsBoundWorkers, Running
<1>4. MutexHeldByWaiter'
  BY <1>1 DEF IInv, TypeOK, MutexHeldByWaiter, Waiting
<1>5. Whole'
  BY <1>1 DEF IInv, Whole
<1>6. QED
  BY <1>2, <1>3, <1>4, <1>5 DEF IInv, TypeOK

-----------------------------------------------------------------------------
(* Steps of the sending goroutine *)

\* It neither starts nor stops a worker, and does not hold the mutex.
LEMMA SendStep ==
  ASSUME IInv, NEW b \in Sends, NEW q \in Sending,
         send' = [send EXCEPT ![b] = q], UNCHANGED fcm,
         send[b].at = "granting" => q.at = "granting",
         holder' \in [Devices -> Users \cup {None}], signedOut' \subseteq Devices,
         UNCHANGED <<gone, signedIn>>,
         inbox' \in [Sends -> SUBSET Users], history' \in [Sends -> Entry]
  PROVE  TypeOK'
<1>1. /\ send' \in [Sends -> Sending] /\ send'[b] = q
      /\ \A c \in Sends : c # b => send'[c] = send[c]
  BY OneSend DEF IInv, TypeOK
<1>2. UNCHANGED <<worker, fresh, minting, reached>>
  BY DEF fcm
<1>3. Typed'
  BY <1>1, <1>2 DEF IInv, TypeOK, Typed
<1>4. SlotsBoundWorkers'
  BY <1>2 DEF IInv, TypeOK, SlotsBoundWorkers, Running
<1>5. ASSUME NEW c \in minting PROVE Waiting(c)'
  <2>1. Waiting(c) /\ c[1] \in Sends
    BY <1>5 DEF IInv, TypeOK, MutexHeldByWaiter, Typed, Callers
  <2>2. QED
    BY <1>1, <1>2, <2>1 DEF Waiting
<1>6. MutexHeldByWaiter'
  BY <1>2, <1>5 DEF IInv, TypeOK, MutexHeldByWaiter
<1>7. QED
  BY <1>3, <1>4, <1>6 DEF TypeOK

\* The inbox of one send, or what is known of it, changes.
LEMMA WholeStep ==
  ASSUME IInv, NEW b \in Sends, NEW q \in Sending, NEW i,
         send' = [send EXCEPT ![b] = q], inbox' = [inbox EXCEPT ![b] = i],
         WholeFor(q, i)
  PROVE  Whole'
<1>1. \A c \in Sends : c # b => send'[c] = send[c] /\ inbox'[c] = inbox[c]
  BY DEF IInv, TypeOK, Typed
<1>2. send'[b] = q /\ inbox'[b] = i
  BY DEF IInv, TypeOK, Typed
<1>3. QED
  BY <1>1, <1>2 DEF IInv, Whole

LEMMA SubmitIInv == ASSUME IInv, NEW b \in Sends, Submit(b) PROVE IInv'
<1>1. PICK push \in BOOLEAN :
        send' = [send EXCEPT ![b].at = "resolving", ![b].push = push]
  BY DEF Submit
<1> DEFINE q == [send[b] EXCEPT !.at = "resolving", !.push = push]
<1>2. q \in Sending
  BY SendTyped DEF Sending, Stage
<1>3. send' = [send EXCEPT ![b] = q]
  BY <1>1 DEF IInv, TypeOK, Typed
<1>4. q.at = "resolving" /\ q.due = send[b].due /\ q.answer = send[b].answer
  BY DEF IInv, TypeOK, Typed, Sending
<1>5. TypeOK'
  BY <1>2, <1>3, <1>4, SendStep DEF Submit, registry, IInv, TypeOK, Typed
<1>6. WholeFor(q, inbox[b])
  BY <1>4 DEF Submit, IInv, Whole, WholeFor, Late
<1>7. inbox' = [inbox EXCEPT ![b] = inbox[b]]
  BY DEF Submit, IInv, TypeOK, Typed
<1>8. Whole'
  BY <1>2, <1>3, <1>6, <1>7, WholeStep
<1>9. QED
  BY <1>5, <1>8 DEF IInv

LEMMA ResolveIInv == ASSUME IInv, NEW b \in Sends, Resolve(b) PROVE IInv'
<1>0. PICK matched \in SUBSET Users : \E s \in Page(matched) :
        send' = [send EXCEPT ![b] = IF s = {} \/ Cardinality(s) > MaxRecipients
         THEN [@ EXCEPT !.at = "answered", !.due = matched, !.answer = "refused"]
         ELSE [@ EXCEPT !.at = "inserting", !.due = matched, !.recipients = s]]
  BY DEF Resolve
<1>1. PICK s \in Page(matched) :
        send' = [send EXCEPT ![b] = IF s = {} \/ Cardinality(s) > MaxRecipients
         THEN [@ EXCEPT !.at = "answered", !.due = matched, !.answer = "refused"]
         ELSE [@ EXCEPT !.at = "inserting", !.due = matched, !.recipients = s]]
  BY <1>0
<1> DEFINE refused == s = {} \/ Cardinality(s) > MaxRecipients
           q == IF refused
                THEN [send[b] EXCEPT !.at = "answered", !.due = matched, !.answer = "refused"]
                ELSE [send[b] EXCEPT !.at = "inserting", !.due = matched, !.recipients = s]
<1>2. s \in SUBSET Users
  BY DEF Page
<1>3. q \in Sending
  BY <1>2, SendTyped DEF Sending, Stage
<1>4. send' = [send EXCEPT ![b] = q]
  BY <1>1 DEF IInv, TypeOK, Typed
<1>5. /\ refused => q.at = "answered" /\ q.answer = "refused"
      /\ ~refused => /\ q.at = "inserting" /\ q.answer = send[b].answer
                     /\ q.recipients = s /\ q.due = matched
  BY DEF IInv, TypeOK, Typed, Sending
<1>6. ~refused => s = matched
  <2>1. IsFiniteSet(s)
    BY <1>2, BroadcastConfig, FS_Subset
  <2>2. Cardinality(s) \in Nat
    BY <2>1, FS_CardinalityType
  <2>3. ~refused => Cardinality(s) <= MaxRecipients
    BY <2>2, BroadcastConfig
  <2>4. QED
    BY <2>3, PageIsWhole
<1>7. send[b].at = "resolving" /\ inbox[b] = {} /\ send[b].answer = None
  BY DEF Resolve, IInv, Whole, WholeFor
<1>8. WholeFor(q, inbox[b])
  BY <1>5, <1>6, <1>7 DEF WholeFor, Late
<1>9. TypeOK'
  BY <1>3, <1>4, <1>7, SendStep DEF Resolve, registry, IInv, TypeOK, Typed
<1>10. inbox' = [inbox EXCEPT ![b] = inbox[b]]
  BY DEF Resolve, IInv, TypeOK, Typed
<1>11. Whole'
  BY <1>3, <1>4, <1>8, <1>10, WholeStep
<1>12. QED
  BY <1>9, <1>11 DEF IInv

LEMMA InsertBatchIInv == ASSUME IInv, NEW b \in Sends, InsertBatch(b) PROVE IInv'
<1>1. PICK batch \in SUBSET (send[b].recipients \ send[b].written) :
        send' = [send EXCEPT ![b].written = @ \cup batch]
  BY DEF InsertBatch
<1> DEFINE q == [send[b] EXCEPT !.written = @ \cup batch]
<1>2. q \in Sending /\ send' = [send EXCEPT ![b] = q]
  <2>1. send[b].written \cup batch \in SUBSET Users
    BY SendTyped DEF Sending
  <2>2. q \in Sending
    BY <2>1, SendTyped DEF Sending
  <2>3. QED
    BY <1>1, <2>2 DEF IInv, TypeOK, Typed
<1>3. /\ q.at = send[b].at /\ q.due = send[b].due /\ q.answer = send[b].answer
      /\ q.recipients = send[b].recipients
  BY DEF IInv, TypeOK, Typed, Sending
<1>4. TypeOK'
  BY <1>2, <1>3, SendStep DEF InsertBatch, registry, IInv, TypeOK, Typed
<1>5. Whole'
  BY <1>2, <1>3, OneSend, LateMove DEF InsertBatch, IInv, TypeOK
<1>6. QED
  BY <1>4, <1>5 DEF IInv

LEMMA CommitIInv == ASSUME IInv, NEW b \in Sends, Commit(b) PROVE IInv'
<1> DEFINE i == send[b].written
<1>1. inbox' = [inbox EXCEPT ![b] = i] /\ i \in SUBSET Users
  BY DEF Commit, IInv, TypeOK, Typed, Sending
<1>2. send[b].at = "inserting" /\ send[b].answer = None /\ i = send[b].due
  BY DEF Commit, IInv, Whole, WholeFor
<1>3. inbox' \in [Sends -> SUBSET Users]
  BY <1>1 DEF IInv, TypeOK, Typed
<1>4. CASE send' = [send EXCEPT ![b].at = IF send[b].push THEN "loading" ELSE "recording"]
  <2> DEFINE q == [send[b] EXCEPT !.at = IF send[b].push THEN "loading" ELSE "recording"]
  <2>1. q \in Sending /\ send' = [send EXCEPT ![b] = q]
    <3>1. q \in Sending
      BY SendTyped DEF Sending, Stage
    <3>2. QED
      BY <1>4, <3>1 DEF IInv, TypeOK, Typed
  <2>2. q.at \in {"loading", "recording"} /\ q.due = i /\ q.answer = None
    BY <1>2 DEF IInv, TypeOK, Typed, Sending
  <2>3. TypeOK'
    BY <1>2, <1>3, <2>1, SendStep DEF Commit, registry, IInv, TypeOK, Typed
  <2>4. WholeFor(q, i)
    BY <2>2 DEF WholeFor, Late
  <2>5. QED
    BY <1>1, <2>1, <2>3, <2>4, WholeStep DEF IInv
<1>5. CASE send' = [send EXCEPT ![b].at = "answered", ![b].answer = "failed"]
  <2> DEFINE q == [send[b] EXCEPT !.at = "answered", !.answer = "failed"]
  <2>1. q \in Sending /\ send' = [send EXCEPT ![b] = q]
    <3>1. q \in Sending
      BY SendTyped DEF Sending, Stage
    <3>2. QED
      BY <1>5, <3>1 DEF IInv, TypeOK, Typed
  <2>2. q.at = "answered" /\ q.due = i /\ q.answer = "failed"
    BY <1>2 DEF IInv, TypeOK, Typed, Sending
  <2>3. TypeOK'
    BY <1>2, <1>3, <2>1, SendStep DEF Commit, registry, IInv, TypeOK, Typed
  <2>4. WholeFor(q, i)
    BY <2>2 DEF WholeFor, Late
  <2>5. QED
    BY <1>1, <2>1, <2>3, <2>4, WholeStep DEF IInv
<1>6. QED
  BY <1>4, <1>5 DEF Commit

LEMMA FailEarlyIInv == ASSUME IInv, NEW b \in Sends, FailEarly(b) PROVE IInv'
<1> DEFINE q == [send[b] EXCEPT !.at = "answered", !.answer = "failed"]
<1>1. q \in Sending /\ send' = [send EXCEPT ![b] = q]
  <2>1. q \in Sending
    BY SendTyped DEF Sending, Stage
  <2>2. QED
    BY <2>1 DEF FailEarly, IInv, TypeOK, Typed
<1>2. q.at = "answered" /\ q.answer = "failed"
  BY SendTyped DEF Sending
<1>3. TypeOK'
  BY <1>1, SendStep DEF FailEarly, registry, IInv, TypeOK, Typed
<1>4. inbox[b] = {}
  BY DEF FailEarly, IInv, Whole, WholeFor
<1>5. WholeFor(q, inbox[b])
  BY <1>2, <1>4 DEF WholeFor, Late
<1>6. inbox' = [inbox EXCEPT ![b] = inbox[b]]
  BY DEF FailEarly, IInv, TypeOK, Typed
<1>7. Whole'
  BY <1>1, <1>5, <1>6, WholeStep
<1>8. QED
  BY <1>3, <1>7 DEF IInv

\* Loading, finishing, pruning and being cancelled move a send that is late, or
\* leave it where it is.
LEMMA LoadDevicesIInv == ASSUME IInv, NEW b \in Sends, LoadDevices(b) PROVE IInv'
<1> DEFINE found == {t \in Devices : Listed(t) /\ holder[t] \in send[b].recipients}
<1>1. PICK q \in Sending :
        /\ send' = [send EXCEPT ![b] = q]
        /\ q.at \in Late /\ q.due = send[b].due /\ q.answer = send[b].answer
        /\ q.recipients = send[b].recipients
  <2>1. CASE send' = [send EXCEPT ![b].devices = found,
                        ![b].at = IF found = {} THEN "recording" ELSE "granting"]
    <3> DEFINE q == [send[b] EXCEPT !.devices = found,
                       !.at = IF found = {} THEN "recording" ELSE "granting"]
    <3>1. q \in Sending /\ q.at \in Late
      BY SendTyped DEF Sending, Stage, Late
    <3>2. send' = [send EXCEPT ![b] = q]
      BY <2>1 DEF IInv, TypeOK, Typed
    <3>3. QED
      BY <3>1, <3>2 DEF IInv, TypeOK, Typed, Sending
  <2>2. CASE send' = [send EXCEPT ![b].at = "recording", ![b].error = TRUE]
    <3> DEFINE q == [send[b] EXCEPT !.at = "recording", !.error = TRUE]
    <3>1. q \in Sending /\ q.at \in Late
      BY SendTyped DEF Sending, Stage, Late
    <3>2. send' = [send EXCEPT ![b] = q]
      BY <2>2 DEF IInv, TypeOK, Typed
    <3>3. QED
      BY <3>1, <3>2 DEF IInv, TypeOK, Typed, Sending
  <2>3. QED
    BY <2>1, <2>2 DEF LoadDevices
<1>2. TypeOK'
  BY <1>1, SendStep DEF LoadDevices, registry, IInv, TypeOK, Typed
<1>3. Whole'
  BY <1>1, OneSend, LateMove DEF LoadDevices, IInv, TypeOK, Late
<1>4. QED
  BY <1>2, <1>3 DEF IInv

LEMMA FinishIInv == ASSUME IInv, NEW b \in Sends, Finish(b) PROVE IInv'
<1> DEFINE q == [send[b] EXCEPT !.error = @ \/ send[b].fatal,
                   !.at = IF send[b].invalid = {} THEN "recording" ELSE "pruning"]
<1>1. q \in Sending /\ q.at \in Late
  BY SendTyped DEF Sending, Stage, Late
<1>2. send' = [send EXCEPT ![b] = q]
  BY DEF Finish, IInv, TypeOK, Typed
<1>3. q.due = send[b].due /\ q.answer = send[b].answer /\ q.recipients = send[b].recipients
  BY DEF IInv, TypeOK, Typed, Sending
<1>4. TypeOK'
  BY <1>1, <1>2, SendStep DEF Finish, registry, IInv, TypeOK, Typed
<1>5. /\ send'[b] = q /\ \A c \in Sends : c # b => send'[c] = send[c]
      /\ UNCHANGED inbox /\ send[b].at \in Late
  BY <1>1, <1>2, OneSend DEF Finish, IInv, TypeOK, Late
<1>6. Whole'
  <2> HIDE DEF q
  <2>1. QED
    BY <1>1, <1>3, <1>5, LateMove DEF IInv
<1>7. QED
  BY <1>4, <1>6 DEF IInv

LEMMA PruneIInv == ASSUME IInv, NEW b \in Sends, Prune(b) PROVE IInv'
<1> DEFINE q == [send[b] EXCEPT !.at = "recording"]
<1>1. q \in Sending /\ q.at \in Late /\ send' = [send EXCEPT ![b] = q]
  BY DEF Prune, IInv, TypeOK, Typed, Sending, Stage, Late
<1>2. q.due = send[b].due /\ q.answer = send[b].answer /\ q.recipients = send[b].recipients
  BY DEF IInv, TypeOK, Typed, Sending
<1>3. holder' \in [Devices -> Users \cup {None}] /\ signedOut' \subseteq Devices
  BY DEF Prune, IInv, TypeOK, Typed
<1>4. TypeOK'
  BY <1>1, <1>3, SendStep DEF Prune, IInv, TypeOK, Typed
<1>5. Whole'
  BY <1>1, <1>2, OneSend, LateMove DEF Prune, IInv, TypeOK, Late
<1>6. QED
  BY <1>4, <1>5 DEF IInv

LEMMA RecordIInv == ASSUME IInv, NEW b \in Sends, Record(b) PROVE IInv'
<1> DEFINE q == [send[b] EXCEPT !.at = "answered", !.answer = "sent"]
           e == [saved |-> Cardinality(send[b].written),
                 devices |-> Cardinality(send[b].devices),
                 sent |-> send[b].sent, failed |-> send[b].failed, error |-> send[b].error]
<1>1. q \in Sending /\ send' = [send EXCEPT ![b] = q]
  BY DEF Record, IInv, TypeOK, Typed, Sending, Stage
<1>2. q.at = "answered" /\ q.answer = "sent" /\ q.due = send[b].due
  BY DEF IInv, TypeOK, Typed, Sending
<1>3. send[b] \in Sending
  BY DEF IInv, TypeOK, Typed
<1>4. Cardinality(send[b].written) \in Nat /\ Cardinality(send[b].devices) \in Nat
  <2>1. send[b].written \subseteq Users /\ send[b].devices \subseteq Devices
    BY <1>3 DEF Sending
  <2>2. QED
    BY <2>1, BroadcastConfig, FS_Subset, FS_CardinalityType
<1>5. e \in Entry
  BY <1>3, <1>4 DEF Entry, Sending
<1>6. history' \in [Sends -> Entry]
  BY <1>5 DEF Record, IInv, TypeOK, Typed
<1>7. TypeOK'
  BY <1>1, <1>6, SendStep DEF Record, registry, IInv, TypeOK, Typed
<1>8. inbox[b] = send[b].due
  BY DEF Record, IInv, Whole, WholeFor, Late
<1>9. WholeFor(q, inbox[b])
  BY <1>2, <1>8 DEF WholeFor, Late
<1>10. inbox' = [inbox EXCEPT ![b] = inbox[b]]
  BY DEF Record, IInv, TypeOK, Typed
<1>11. QED
  BY <1>1, <1>7, <1>9, <1>10, WholeStep DEF IInv

LEMMA CancelIInv == ASSUME IInv, NEW b \in Sends, Cancel(b) PROVE IInv'
<1> DEFINE q == [send[b] EXCEPT !.cancelled = TRUE]
<1>1. q \in Sending /\ send' = [send EXCEPT ![b] = q]
  <2>1. q \in Sending
    BY SendTyped DEF Sending
  <2>2. QED
    BY <2>1 DEF Cancel, IInv, TypeOK, Typed
<1>2. /\ q.at = send[b].at /\ q.due = send[b].due /\ q.answer = send[b].answer
      /\ q.recipients = send[b].recipients
  BY DEF IInv, TypeOK, Typed, Sending
<1>3. TypeOK'
  BY <1>1, <1>2, SendStep DEF Cancel, registry, IInv, TypeOK, Typed
<1>4. Whole'
  BY <1>1, <1>2, OneSend, LateMove DEF Cancel, IInv, TypeOK
<1>5. QED
  BY <1>3, <1>4 DEF IInv

-----------------------------------------------------------------------------
(* Steps of the workers and of the access token *)

\* A worker or the holder of the token moves.  What it does to the slots and
\* to the mutex is left to the steps that use this.
LEMMA WorkerStep ==
  ASSUME IInv, UNCHANGED <<registry, inbox, history>>,
         send' \in [Sends -> Sending],
         worker' \in [Sends -> [Devices -> WorkerStage]],
         fresh' \in BOOLEAN, minting' \subseteq Callers,
         reached' \in [Sends -> SUBSET Devices],
         SlotsBoundWorkers', MutexHeldByWaiter', Whole'
  PROVE  IInv'
BY DEF IInv, TypeOK, Typed, registry

LEMMA CallerTyped ==
  ASSUME NEW c \in Callers
  PROVE  c[1] \in Sends /\ (c[2] \in Devices \/ c[2] = None)
BY DEF Callers

\* What a granted or denied caller does: no worker starts, nobody else's send
\* or worker changes, and the inbox is as complete as it was.
Served(c) ==
  /\ send' \in [Sends -> Sending]
  /\ worker' \in [Sends -> [Devices -> WorkerStage]]
  /\ \A b \in Sends : Running(b)' \subseteq Running(b)
  /\ Whole'

LEMMA GrantedServes ==
  ASSUME IInv, NEW c \in Callers, Waiting(c), Granted(c), UNCHANGED inbox
  PROVE  Served(c)
<1> DEFINE b == c[1]
           t == c[2]
<1>0. b \in Sends /\ (t \in Devices \/ t = None) /\ None \notin Devices
  BY CallerTyped, BroadcastConfig
<1>1. CASE t = None
  <2> DEFINE q == [send[b] EXCEPT !.at = "queueing"]
             w == [d \in Devices |-> IF d \in send[b].devices THEN "queued" ELSE "idle"]
  <2>1. send' = [send EXCEPT ![b].at = "queueing"] /\ worker' = [worker EXCEPT ![b] = w]
    BY <1>1 DEF Granted
  <2>2. q \in Sending
    BY <1>0, SendTyped DEF Sending, Stage
  <2>3. send' = [send EXCEPT ![b] = q]
    BY <1>0, <2>1 DEF IInv, TypeOK, Typed
  <2>4. /\ q.at = "queueing" /\ q.due = send[b].due /\ q.answer = send[b].answer
        /\ q.recipients = send[b].recipients /\ send[b].at = "granting"
    BY <1>0, <1>1, SendTyped DEF Sending, Waiting
  <2>5. Whole' /\ send' \in [Sends -> Sending]
    BY <1>0, <2>2, <2>3, <2>4, OneSend, LateMove DEF IInv, TypeOK, Late
  <2>6. worker' \in [Sends -> [Devices -> WorkerStage]]
    BY <1>0, <2>1 DEF IInv, TypeOK, Typed, WorkerStage
  <2>7. \A e \in Sends : e # b => worker'[e] = worker[e]
    BY <1>0, <2>1 DEF IInv, TypeOK, Typed
  <2>8. worker'[b] = w
    BY <1>0, <2>1 DEF IInv, TypeOK, Typed
  <2>9. Running(b)' = {}
    BY <2>8 DEF Running
  <2>10. \A e \in Sends : Running(e)' \subseteq Running(e)
    BY <2>7, <2>9 DEF Running
  <2>11. QED
    BY <2>5, <2>6, <2>10 DEF Served
<1>2. CASE t \in Devices
  <2>1. worker' = [worker EXCEPT ![b][t] = "posting"] /\ UNCHANGED send
    BY <1>0, <1>2 DEF Granted
  <2>2. worker[b][t] = "waiting"
    BY <1>0, <1>2 DEF Waiting
  <2>3. worker' \in [Sends -> [Devices -> WorkerStage]]
    BY <1>0, <1>2, <2>1 DEF IInv, TypeOK, Typed, WorkerStage
  <2>4. \A e \in Sends, d \in Devices :
          worker'[e][d] = IF e = b /\ d = t THEN "posting" ELSE worker[e][d]
    BY <1>0, <1>2, <2>1 DEF IInv, TypeOK, Typed
  <2>5. \A e \in Sends : Running(e)' \subseteq Running(e)
    BY <2>2, <2>4 DEF Running
  <2>6. QED
    BY <2>1, <2>3, <2>5 DEF Served, IInv, TypeOK, Typed, Whole
<1>3. QED
  BY <1>0, <1>1, <1>2

\* The answer of a worker is counted and the worker is done.
LEMMA CountedServes ==
  ASSUME IInv, NEW b \in Sends, NEW t \in Devices, NEW v, UNCHANGED inbox,
         send' = [send EXCEPT ![b] = Tally(@, t, v)],
         worker' = [worker EXCEPT ![b][t] = "done"]
  PROVE  Served(<<b, t>>)
<1> DEFINE q == Tally(send[b], t, v)
<1>1. /\ q \in Sending /\ q.at = send[b].at /\ q.due = send[b].due
      /\ q.answer = send[b].answer /\ q.recipients = send[b].recipients
  BY SendTyped, TallyKeeps
<1>2. send' = [send EXCEPT ![b] = q]
  BY DEF IInv, TypeOK, Typed
<1>3. Whole' /\ send' \in [Sends -> Sending]
  <2> HIDE DEF q
  <2>1. QED
    BY <1>1, <1>2, OneSend, LateMove DEF IInv, TypeOK
<1>4. worker' \in [Sends -> [Devices -> WorkerStage]]
  BY DEF IInv, TypeOK, Typed, WorkerStage
<1>5. \A e \in Sends, d \in Devices :
        worker'[e][d] = IF e = b /\ d = t THEN "done" ELSE worker[e][d]
  BY DEF IInv, TypeOK, Typed
<1>6. \A e \in Sends : Running(e)' \subseteq Running(e)
  BY <1>5 DEF Running
<1>7. QED
  BY <1>3, <1>4, <1>6 DEF Served

LEMMA DeniedServes ==
  ASSUME IInv, NEW c \in Callers, NEW v, Waiting(c), Denied(c, v), UNCHANGED inbox
  PROVE  Served(c)
<1> DEFINE b == c[1]
           t == c[2]
<1>0. b \in Sends /\ (t \in Devices \/ t = None) /\ None \notin Devices
  BY CallerTyped, BroadcastConfig
<1>1. CASE t = None
  <2> DEFINE q == [send[b] EXCEPT !.at = "recording", !.error = TRUE]
  <2>1. send' = [send EXCEPT ![b].at = "recording", ![b].error = TRUE] /\ UNCHANGED worker
    BY <1>1 DEF Denied
  <2>2. q \in Sending
    <3>1. send[b] \in Sending
      BY <1>0, SendTyped
    <3> HIDE DEF b
    <3>2. QED
      BY <3>1 DEF Sending, Stage
  <2>3. send' = [send EXCEPT ![b] = q]
    BY <1>0, <2>1 DEF IInv, TypeOK, Typed
  <2>4. /\ q.at = "recording" /\ q.due = send[b].due /\ q.answer = send[b].answer
        /\ q.recipients = send[b].recipients /\ send[b].at = "granting"
    BY <1>0, <1>1, SendTyped DEF Sending, Waiting
  <2>5. Whole' /\ send' \in [Sends -> Sending]
    BY <1>0, <2>2, <2>3, <2>4, OneSend, LateMove DEF IInv, TypeOK, Late
  <2>6. QED
    BY <2>1, <2>5 DEF Served, IInv, TypeOK, Typed, Running
<1>2. CASE t \in Devices
  <2>1. /\ send' = [send EXCEPT ![b] = Tally(@, t, v)]
        /\ worker' = [worker EXCEPT ![b][t] = "done"]
    BY <1>0, <1>2 DEF Denied
  <2>2. Served(<<b, t>>)
    BY <1>0, <1>2, <2>1, CountedServes
  <2>3. QED
    BY <2>2 DEF Served
<1>3. QED
  BY <1>0, <1>1, <1>2

LEMMA TakeTokenIInv == ASSUME IInv, NEW c \in Callers, TakeToken(c) PROVE IInv'
<1>1. Served(c) /\ minting' = {}
  BY GrantedServes DEF TakeToken
<1>2. SlotsBoundWorkers' /\ MutexHeldByWaiter'
  BY <1>1, FewerWorkers DEF Served, MutexHeldByWaiter, IInv, TypeOK
<1>3. QED
  BY <1>1, <1>2, WorkerStep DEF TakeToken, Served, IInv, TypeOK, Typed

LEMMA StartMintIInv == ASSUME IInv, NEW c \in Callers, StartMint(c) PROVE IInv'
<1>1. Waiting(c)' /\ minting' = {c} /\ UNCHANGED <<send, worker>>
  BY DEF StartMint, Waiting
<1>2. MutexHeldByWaiter'
  BY <1>1 DEF MutexHeldByWaiter
<1>3. SlotsBoundWorkers' /\ Whole'
  BY <1>1 DEF StartMint, SlotsBoundWorkers, Running, Whole, IInv, TypeOK
<1>4. QED
  BY <1>1, <1>2, <1>3, WorkerStep DEF StartMint, IInv, TypeOK, Typed

\* The holder of the mutex is the only one, and it gives it back.
LEMMA EndMintIInv == ASSUME IInv, NEW c \in Callers, EndMint(c) PROVE IInv'
<1>1. c \in minting /\ Waiting(c) /\ minting \ {c} = {}
  BY DEF EndMint, IInv, TypeOK, MutexHeldByWaiter
<1>2. minting' = {} /\ UNCHANGED <<registry, inbox, history, reached>> /\ fresh' \in BOOLEAN
  BY <1>1 DEF EndMint, Unlocked, IInv, TypeOK, Typed
<1>3. Served(c)
  <2>1. CASE Granted(c)
    BY <1>1, <1>2, <2>1, GrantedServes
  <2>2. CASE \E verdict \in {"auth", "other"} : Denied(c, verdict)
    BY <1>1, <1>2, <2>2, DeniedServes
  <2>3. QED
    BY <2>1, <2>2 DEF EndMint
<1>4. SlotsBoundWorkers' /\ MutexHeldByWaiter'
  BY <1>2, <1>3, FewerWorkers DEF Served, MutexHeldByWaiter, IInv, TypeOK
<1>5. QED
  BY <1>2, <1>3, <1>4, WorkerStep DEF Served, IInv, TypeOK, Typed

\* A step after which nobody who holds the mutex has moved.
LEMMA MutexKept ==
  ASSUME IInv, UNCHANGED minting, \A c \in minting : Waiting(c)'
  PROVE  MutexHeldByWaiter'
BY DEF IInv, TypeOK, MutexHeldByWaiter

LEMMA SpawnIInv == ASSUME IInv, NEW b \in Sends, NEW t \in Devices, Spawn(b, t) PROVE IInv'
<1>1. \A e \in Sends, d \in Devices :
        worker'[e][d] = IF e = b /\ d = t THEN "waiting" ELSE worker[e][d]
  BY DEF Spawn, IInv, TypeOK, Typed
<1>2. worker' \in [Sends -> [Devices -> WorkerStage]]
  BY DEF Spawn, IInv, TypeOK, Typed, WorkerStage
<1>3. SlotsBoundWorkers'
  <2> SUFFICES ASSUME NEW e \in Sends PROVE Cardinality(Running(e)') <= Concurrency
    BY DEF SlotsBoundWorkers
  <2>1. CASE e # b
    <3>1. Running(e)' = Running(e)
      BY <1>1, <2>1 DEF Running
    <3>2. QED
      BY <3>1 DEF IInv, TypeOK, SlotsBoundWorkers
  <2>2. CASE e = b
    <3>1. Running(b)' = Running(b) \cup {t}
      BY <1>1 DEF Running
    <3>2. IsFiniteSet(Running(b))
      BY BroadcastConfig, FS_Subset DEF Running
    <3>3. t \notin Running(b)
      BY DEF Spawn, Running
    <3>4. Cardinality(Running(b)) < Concurrency
      BY DEF Spawn, SlotFree
    <3>5. Cardinality(Running(b)) \in Nat /\ Cardinality(Running(b) \cup {t}) = Cardinality(Running(b)) + 1
      BY <3>2, <3>3, FS_AddElement, FS_CardinalityType
    <3>6. QED
      BY <2>2, <3>1, <3>4, <3>5, BroadcastConfig
  <2>3. QED
    BY <2>1, <2>2
<1>4. MutexHeldByWaiter'
  <2>1. ASSUME NEW c \in minting PROVE Waiting(c)'
    <3>1. Waiting(c) /\ c \in Callers
      BY <2>1 DEF IInv, TypeOK, MutexHeldByWaiter, Typed
    <3>2. QED
      BY <1>1, <3>1, CallerTyped DEF Waiting, Spawn
  <2>2. QED
    BY <2>1, MutexKept DEF Spawn
<1>5. Whole'
  BY DEF Spawn, IInv, Whole
<1>6. QED
  BY <1>2, <1>3, <1>4, <1>5, WorkerStep DEF Spawn, IInv, TypeOK, Typed

LEMMA GiveUpIInv == ASSUME IInv, NEW b \in Sends, GiveUp(b) PROVE IInv'
<1> DEFINE q == [send[b] EXCEPT !.error = TRUE]
           w == [t \in Devices |-> IF t \in Queued(b) THEN "idle" ELSE worker[b][t]]
<1>1. q \in Sending /\ q.at = send[b].at /\ q.due = send[b].due
      /\ q.answer = send[b].answer /\ q.recipients = send[b].recipients
  BY SendTyped DEF Sending
<1>2. send' = [send EXCEPT ![b] = q] /\ worker' = [worker EXCEPT ![b] = w]
  BY DEF GiveUp, IInv, TypeOK, Typed
<1>3. /\ send' \in [Sends -> Sending] /\ send'[b] = q
      /\ \A c \in Sends : c # b => send'[c] = send[c]
  BY <1>1, <1>2, OneSend DEF IInv, TypeOK
<1>4. w \in [Devices -> WorkerStage]
  BY DEF IInv, TypeOK, Typed, WorkerStage
<1>5. worker' \in [Sends -> [Devices -> WorkerStage]]
  BY <1>2, <1>4 DEF IInv, TypeOK, Typed
<1>6. \A e \in Sends, d \in Devices :
        worker'[e][d] = IF e = b /\ d \in Queued(b) THEN "idle" ELSE worker[e][d]
  BY <1>2 DEF IInv, TypeOK, Typed
<1>7. SlotsBoundWorkers'
  <2>1. \A e \in Sends : Running(e)' \subseteq Running(e)
    BY <1>6 DEF Running
  <2>2. QED
    BY <2>1, FewerWorkers DEF IInv, TypeOK
<1>8. MutexHeldByWaiter'
  <2>1. ASSUME NEW c \in minting PROVE Waiting(c)'
    <3>1. Waiting(c) /\ c \in Callers
      BY <2>1 DEF IInv, TypeOK, MutexHeldByWaiter, Typed
    <3>2. QED
      BY <1>1, <1>3, <1>6, <3>1, CallerTyped DEF Waiting, Queued
  <2>2. QED
    BY <2>1, MutexKept DEF GiveUp
<1>9. Whole'
  <2> HIDE DEF q
  <2>1. QED
    BY <1>1, <1>3, LateMove DEF GiveUp, IInv
<1>10. QED
  BY <1>3, <1>5, <1>7, <1>8, <1>9, WorkerStep DEF GiveUp, IInv, TypeOK, Typed

\* FCM answers, or the request is lost: either way the worker is done.
LEMMA AnsweredIInv ==
  ASSUME IInv, NEW b \in Sends, NEW t \in Devices, NEW v,
         worker[b][t] = "posting",
         send' = [send EXCEPT ![b] = Tally(@, t, v)],
         worker' = [worker EXCEPT ![b][t] = "done"],
         reached' \in [Sends -> SUBSET Devices],
         UNCHANGED <<registry, inbox, history, fresh, minting>>
  PROVE  IInv'
<1>1. Served(<<b, t>>)
  BY CountedServes
<1>2. SlotsBoundWorkers'
  BY <1>1, FewerWorkers DEF Served, IInv, TypeOK
<1>3. MutexHeldByWaiter'
  <2>1. \A e \in Sends, d \in Devices :
          worker'[e][d] = IF e = b /\ d = t THEN "done" ELSE worker[e][d]
    BY DEF IInv, TypeOK, Typed
  <2>2. \A e \in Sends : send'[e].at = send[e].at
    BY SendTyped, TallyKeeps DEF IInv, TypeOK, Typed
  <2>3. ASSUME NEW c \in minting PROVE Waiting(c)'
    <3>1. Waiting(c) /\ c \in Callers
      BY <2>3 DEF IInv, TypeOK, MutexHeldByWaiter, Typed
    <3>2. QED
      BY <2>1, <2>2, <3>1, CallerTyped DEF Waiting
  <2>4. QED
    BY <2>3, MutexKept
<1>4. QED
  BY <1>1, <1>2, <1>3, WorkerStep DEF Served, IInv, TypeOK, Typed

LEMMA PostIInv == ASSUME IInv, NEW b \in Sends, NEW t \in Devices, Post(b, t) PROVE IInv'
<1>1. PICK a \in Answers(b, t) :
        /\ send' = [send EXCEPT ![b] = Tally(@, t, Classify(a))]
        /\ reached' = [reached EXCEPT ![b] = @ \cup IF a = "ok" THEN {t} ELSE {}]
  BY DEF Post
<1>2. reached' \in [Sends -> SUBSET Devices]
  BY <1>1 DEF IInv, TypeOK, Typed
<1>3. QED
  BY <1>1, <1>2, AnsweredIInv DEF Post

LEMMA PostLostIInv ==
  ASSUME IInv, NEW b \in Sends, NEW t \in Devices, PostLost(b, t) PROVE IInv'
<1>1. reached' \in [Sends -> SUBSET Devices]
  BY DEF PostLost, IInv, TypeOK, Typed
<1>2. QED
  BY <1>1, AnsweredIInv DEF PostLost

LEMMA ExpireIInv == ASSUME IInv, Expire PROVE IInv'
<1>1. UNCHANGED <<send, worker, minting, inbox>>
  BY DEF Expire
<1>2. SlotsBoundWorkers' /\ MutexHeldByWaiter' /\ Whole'
  BY <1>1 DEF IInv, TypeOK, SlotsBoundWorkers, MutexHeldByWaiter, Running, Waiting, Whole
<1>3. QED
  BY <1>2, WorkerStep DEF Expire, IInv, TypeOK, Typed

\* Whatever was under way leaves its inbox empty or complete.
LEMMA CrashIInv == ASSUME IInv, Crash PROVE IInv'
<1>1. ASSUME NEW b \in Sends
      PROVE  /\ send'[b] \in Sending
             /\ WholeFor(send'[b], inbox'[b])
  <2>1. CASE ~Underway(b)
    BY <2>1, SendTyped DEF Crash, IInv, Whole
  <2>2. CASE Underway(b)
    <3> DEFINE q == [send[b] EXCEPT !.at = "crashed"]
    <3>1. send'[b] = q /\ inbox'[b] = inbox[b]
      BY <2>2 DEF Crash
    <3>2. /\ q \in Sending /\ q.at = "crashed" /\ q.due = send[b].due
          /\ q.answer = send[b].answer
      BY SendTyped DEF Sending, Stage
    <3>3. inbox[b] \in {{}, send[b].due} /\ send[b].answer = None
      BY <2>2, SendTyped DEF IInv, Whole, WholeFor, Underway, Sending, Stage, Late
    <3>4. WholeFor(q, inbox[b])
      BY <3>2, <3>3 DEF WholeFor, Late
    <3>5. QED
      BY <3>1, <3>2, <3>4
  <2>3. QED
    BY <2>1, <2>2
<1>2. send' \in [Sends -> Sending] /\ Whole'
  BY <1>1 DEF Crash, Whole
<1>3. worker' \in [Sends -> [Devices -> WorkerStage]]
  BY DEF Crash, WorkerStage
<1>4. \A b \in Sends : Running(b)' \subseteq Running(b)
  BY DEF Crash, Running
<1>5. SlotsBoundWorkers' /\ MutexHeldByWaiter'
  BY <1>4, FewerWorkers DEF Crash, MutexHeldByWaiter, IInv, TypeOK
<1>6. QED
  BY <1>2, <1>3, <1>5, WorkerStep DEF Crash, IInv, TypeOK, Typed

LEMMA ProgressIInv == ASSUME IInv, NEW b \in Sends, Progress(b) PROVE IInv'
<1>1. CASE \/ Resolve(b) \/ InsertBatch(b) \/ Commit(b) \/ FailEarly(b)
           \/ LoadDevices(b) \/ GiveUp(b) \/ Finish(b) \/ Prune(b) \/ Record(b)
  BY <1>1, ResolveIInv, InsertBatchIInv, CommitIInv, FailEarlyIInv, LoadDevicesIInv,
     GiveUpIInv, FinishIInv, PruneIInv, RecordIInv
<1>2. CASE \E t \in Devices : Spawn(b, t) \/ Post(b, t) \/ PostLost(b, t)
  BY <1>2, SpawnIInv, PostIInv, PostLostIInv
<1>3. CASE \E t \in Devices \cup {None} :
             TakeToken(<<b, t>>) \/ StartMint(<<b, t>>) \/ EndMint(<<b, t>>)
  <2>1. PICK t \in Devices \cup {None} :
             TakeToken(<<b, t>>) \/ StartMint(<<b, t>>) \/ EndMint(<<b, t>>)
    BY <1>3
  <2>2. <<b, t>> \in Callers
    BY DEF Callers
  <2>3. QED
    BY <2>1, <2>2, TakeTokenIInv, StartMintIInv, EndMintIInv
<1>4. QED
  BY <1>1, <1>2, <1>3 DEF Progress

LEMMA RegisterIInv ==
  ASSUME IInv, NEW u \in Users, NEW t \in Devices, Register(u, t) \/ Unregister(u, t)
  PROVE  IInv'
<1>1. UNCHANGED <<inbox, history, send, fcm>>
  BY DEF Register, Unregister
<1>2. /\ holder' \in [Devices -> Users \cup {None}] /\ signedOut' \subseteq Devices
      /\ gone' \subseteq Devices /\ signedIn' \in [Devices -> Users \cup {None}]
  <2>1. CASE Register(u, t)
    BY <2>1 DEF Register, Revived, IInv, TypeOK, Typed
  <2>2. CASE Unregister(u, t)
    <3>1. signedOut' \subseteq Devices /\ UNCHANGED <<holder, gone>>
      BY <2>2 DEF Unregister, IInv, TypeOK, Typed
    <3>2. signedIn' \in [Devices -> Users \cup {None}]
      BY <2>2 DEF Unregister, IInv, TypeOK, Typed
    <3>3. QED
      BY <3>1, <3>2 DEF IInv, TypeOK, Typed
  <2>3. QED
    BY <2>1, <2>2
<1>3. QED
  BY <1>1, <1>2, RegistryStep

LEMMA UninstallIInv == ASSUME IInv, NEW t \in Devices, Uninstall(t) PROVE IInv'
<1>1. /\ holder' \in [Devices -> Users \cup {None}] /\ signedOut' \subseteq Devices
      /\ gone' \subseteq Devices /\ signedIn' \in [Devices -> Users \cup {None}]
  BY DEF Uninstall, IInv, TypeOK, Typed
<1>2. QED
  BY <1>1, RegistryStep DEF Uninstall

LEMMA NextIInv == IInv /\ [Next]_vars => IInv'
<1> SUFFICES ASSUME IInv, [Next]_vars PROVE IInv'
  OBVIOUS
<1>1. CASE \E u \in Users, t \in Devices : Register(u, t) \/ Unregister(u, t)
  BY <1>1, RegisterIInv
<1>2. CASE \E t \in Devices : Uninstall(t)
  BY <1>2, UninstallIInv
<1>3. CASE \E b \in Sends : Submit(b) \/ Progress(b) \/ Cancel(b)
  BY <1>3, SubmitIInv, ProgressIInv, CancelIInv
<1>4. CASE Expire \/ Crash
  BY <1>4, ExpireIInv, CrashIInv
<1>5. CASE UNCHANGED vars
  <2>1. UNCHANGED <<inbox, history, send, fcm, registry>>
    BY <1>5 DEF vars
  <2>2. QED
    BY <2>1, RegistryStep DEF registry, IInv, TypeOK, Typed
<1>6. QED
  BY <1>1, <1>2, <1>3, <1>4, <1>5 DEF Next

LEMMA Invariance == Spec => []IInv
  BY InitIInv, NextIInv, PTL DEF Spec

\* For any accounts, devices, sends and limits: the types hold, a send has no
\* more workers than slots, and whoever holds FCM.mu waits for the token.
THEOREM TypeCorrect == Spec => []TypeOK
<1>1. IInv => TypeOK
  BY DEF IInv
<1>2. QED
  BY <1>1, Invariance, PTL

\* A broadcast is written to everybody who matched, or to nobody, whatever the
\* batch size and wherever it stops; and to everybody if it was answered.
THEOREM InboxIsWhole == Spec => []AllOrNobody
<1>1. IInv => AllOrNobody
  <2> SUFFICES ASSUME IInv, NEW b \in Sends
               PROVE  /\ inbox[b] \in {{}, send[b].due}
                      /\ send[b].answer = "refused" => inbox[b] = {}
                      /\ send[b].answer = "sent" => inbox[b] = send[b].due
    BY DEF AllOrNobody
  <2>1. WholeFor(send[b], inbox[b]) /\ send[b].at \in Stage
    BY SendTyped DEF IInv, Whole, Sending
  <2>2. CASE send[b].at \in {"new", "resolving", "inserting", "crashed"}
    BY <2>1, <2>2 DEF WholeFor, None
  <2>3. CASE send[b].at \in Late
    BY <2>1, <2>3 DEF WholeFor, None
  <2>4. CASE send[b].at = "answered"
    BY <2>1, <2>4 DEF WholeFor
  <2>5. QED
    BY <2>1, <2>2, <2>3, <2>4 DEF Stage, Late
<1>2. QED
  BY <1>1, Invariance, PTL

-----------------------------------------------------------------------------
(* Registrations *)

\* FCM reports as gone what is gone: true as long as every message fits.
Pruned == \A b \in Sends : send[b].invalid \subseteq gone

RInv == IInv /\ Pruned /\ RegistrationsFollowTheApp

\* A step that only adds to the report of one send what FCM may have said.
LEMMA ReportStep ==
  ASSUME RInv, NEW b \in Sends, NEW t \in Devices, NEW v, v = "gone" => t \in gone,
         send' = [send EXCEPT ![b] = Tally(@, t, v)], UNCHANGED registry
  PROVE  Pruned' /\ RegistrationsFollowTheApp'
<1>1. Tally(send[b], t, v).invalid \subseteq gone
  BY SendTyped, TallyKeeps DEF RInv, Pruned
<1>2. \A c \in Sends : send'[c].invalid \subseteq gone
  BY <1>1 DEF RInv, Pruned, IInv, TypeOK, Typed
<1>3. QED
  BY <1>2 DEF Pruned, RInv, RegistrationsFollowTheApp, Listed, registry

\* A step that leaves the reports and the registrations as they are.
LEMMA SilentStep ==
  ASSUME RInv, \A b \in Sends : send'[b].invalid = send[b].invalid, UNCHANGED registry
  PROVE  Pruned' /\ RegistrationsFollowTheApp'
BY DEF RInv, Pruned, RegistrationsFollowTheApp, Listed, registry

LEMMA RegistryRInv ==
  ASSUME RInv, NEW u \in Users, NEW t \in Devices, Register(u, t) \/ Unregister(u, t)
  PROVE  Pruned' /\ RegistrationsFollowTheApp'
<1>1. UNCHANGED <<send, gone>>
  BY DEF Register, Unregister
<1>2. Pruned'
  BY <1>1 DEF RInv, Pruned
<1>3. u # None
  BY BroadcastConfig
<1>4. ASSUME NEW d \in Devices \ gone
      PROVE  IF Listed(d)' THEN signedIn'[d] = holder'[d] ELSE signedIn'[d] = None
  <2>1. IF Listed(d) THEN signedIn[d] = holder[d] ELSE signedIn[d] = None
    BY DEF RInv, RegistrationsFollowTheApp
  <2>2. CASE Register(u, t)
    BY <1>3, <2>1, <2>2 DEF Register, Revived, Listed, RInv, IInv, TypeOK, Typed
  <2>3. CASE Unregister(u, t)
    <3>1. CASE d # t
      BY <2>1, <2>3, <3>1 DEF Unregister, Listed, RInv, IInv, TypeOK, Typed
    <3>2. CASE d = t /\ Unregistrable(u, t)
      BY <1>3, <2>1, <2>3, <3>2
         DEF Unregister, Unregistrable, Listed, RInv, IInv, TypeOK, Typed
    <3>3. CASE d = t /\ ~Unregistrable(u, t)
      BY <1>3, <2>1, <2>3, <3>3
         DEF Unregister, Unregistrable, Listed, RInv, IInv, TypeOK, Typed
    <3>4. QED
      BY <3>1, <3>2, <3>3
  <2>4. QED
    BY <2>2, <2>3
<1>5. QED
  BY <1>1, <1>2, <1>4 DEF RegistrationsFollowTheApp

LEMMA UninstallRInv ==
  ASSUME RInv, NEW t \in Devices, Uninstall(t)
  PROVE  Pruned' /\ RegistrationsFollowTheApp'
<1>1. UNCHANGED <<send, holder, signedOut, signedIn>> /\ gone \subseteq gone'
  BY DEF Uninstall
<1>2. Pruned'
  BY <1>1 DEF RInv, Pruned
<1>3. RegistrationsFollowTheApp'
  BY <1>1 DEF RInv, RegistrationsFollowTheApp, Listed
<1>4. QED
  BY <1>2, <1>3

\* Pruning deletes registrations of installations that are gone, only.
LEMMA PruneRInv ==
  ASSUME RInv, NEW b \in Sends, Prune(b)
  PROVE  Pruned' /\ RegistrationsFollowTheApp'
<1>1. /\ \A t \in Devices \ gone : holder'[t] = holder[t] /\ (t \in signedOut' <=> t \in signedOut)
      /\ UNCHANGED <<gone, signedIn>>
  BY DEF Prune, RInv, Pruned
<1>2. \A c \in Sends : send'[c].invalid = send[c].invalid
  BY SendTyped DEF Prune, RInv, IInv, TypeOK, Typed, Sending
<1>3. Pruned'
  BY <1>1, <1>2 DEF RInv, Pruned
<1>4. RegistrationsFollowTheApp'
  BY <1>1 DEF RInv, RegistrationsFollowTheApp, Listed
<1>5. QED
  BY <1>3, <1>4

LEMMA PostRInv ==
  ASSUME RInv, Oversized = {}, NEW b \in Sends, NEW t \in Devices,
         Post(b, t) \/ PostLost(b, t)
  PROVE  Pruned' /\ RegistrationsFollowTheApp'
<1>1. CASE Post(b, t)
  <2>1. PICK a \in Answers(b, t) : send' = [send EXCEPT ![b] = Tally(@, t, Classify(a))]
    BY <1>1 DEF Post
  <2>2. Classify(a) = "gone" => t \in gone
    BY <2>1 DEF Answers, Classify
  <2>3. QED
    BY <1>1, <2>1, <2>2, ReportStep DEF Post
<1>2. CASE PostLost(b, t)
  <2>1. send' = [send EXCEPT ![b] = Tally(@, t, "other")] /\ UNCHANGED registry
    BY <1>2 DEF PostLost
  <2> DEFINE v == "other"
  <2>2. send' = [send EXCEPT ![b] = Tally(@, t, v)] /\ (v = "gone" => t \in gone)
    BY <2>1
  <2> HIDE DEF v
  <2>3. QED
    BY <2>1, <2>2, ReportStep
<1>3. QED
  BY <1>1, <1>2

LEMMA MintRInv ==
  ASSUME RInv, NEW c \in Callers, TakeToken(c) \/ StartMint(c) \/ EndMint(c)
  PROVE  Pruned' /\ RegistrationsFollowTheApp'
<1>0. c[1] \in Sends /\ (c[2] \in Devices \/ c[2] = None) /\ None \notin Devices
  BY CallerTyped, BroadcastConfig
<1>1. UNCHANGED registry
  BY DEF TakeToken, StartMint, EndMint
<1>2. CASE UNCHANGED send
  BY <1>1, <1>2, SilentStep
<1>3. CASE Granted(c)
  <2>1. UNCHANGED send \/ send' = [send EXCEPT ![c[1]].at = "queueing"]
    BY <1>3 DEF Granted
  <2>2. send \in [Sends -> Sending]
    BY DEF RInv, IInv, TypeOK, Typed
  <2>3. \A b \in Sends : send'[b].invalid = send[b].invalid
    BY <1>0, <2>1, <2>2 DEF Sending
  <2>4. QED
    BY <1>1, <2>3, SilentStep
<1>4. CASE \E verdict \in {"auth", "other"} : Denied(c, verdict)
  <2>1. PICK verdict \in {"auth", "other"} : Denied(c, verdict)
    BY <1>4
  <2>2. CASE c[2] = None
    <3>1. send' = [send EXCEPT ![c[1]].at = "recording", ![c[1]].error = TRUE]
      BY <2>1, <2>2 DEF Denied
    <3>2. send \in [Sends -> Sending]
      BY DEF RInv, IInv, TypeOK, Typed
    <3>3. \A b \in Sends : send'[b].invalid = send[b].invalid
      BY <1>0, <3>1, <3>2 DEF Sending
    <3>4. QED
      BY <1>1, <3>3, SilentStep
  <2>3. CASE c[2] \in Devices
    <3>1. send' = [send EXCEPT ![c[1]] = Tally(@, c[2], verdict)]
      BY <1>0, <2>1, <2>3 DEF Denied
    <3>2. QED
      BY <1>0, <1>1, <2>3, <3>1, ReportStep
  <2>4. QED
    BY <1>0, <2>2, <2>3
<1>5. QED
  BY <1>2, <1>3, <1>4 DEF TakeToken, StartMint, EndMint

\* Every other step of a send leaves its report alone.
LEMMA QuietRInv ==
  ASSUME RInv, NEW b \in Sends,
         \/ Submit(b) \/ Resolve(b) \/ InsertBatch(b) \/ Commit(b) \/ FailEarly(b)
         \/ LoadDevices(b) \/ GiveUp(b) \/ Finish(b) \/ Record(b) \/ Cancel(b)
         \/ \E t \in Devices : Spawn(b, t)
  PROVE  Pruned' /\ RegistrationsFollowTheApp'
<1>1. UNCHANGED registry
  BY DEF Submit, Resolve, InsertBatch, Commit, FailEarly, LoadDevices, GiveUp, Finish,
         Record, Cancel, Spawn
<1>2. send \in [Sends -> Sending]
  BY DEF RInv, IInv, TypeOK, Typed
<1>3. \A c \in Sends : send'[c].invalid = send[c].invalid
  <2>1. CASE Submit(b) \/ InsertBatch(b) \/ FailEarly(b)
    BY <1>2, <2>1 DEF Submit, InsertBatch, FailEarly, Sending
  <2>2. CASE Resolve(b)
    <3>1. PICK matched \in SUBSET Users : \E s \in Page(matched) :
            send' = [send EXCEPT ![b] = IF s = {} \/ Cardinality(s) > MaxRecipients
             THEN [@ EXCEPT !.at = "answered", !.due = matched, !.answer = "refused"]
             ELSE [@ EXCEPT !.at = "inserting", !.due = matched, !.recipients = s]]
      BY <2>2 DEF Resolve
    <3>2. QED
      BY <1>2, <3>1 DEF Sending
  <2>3. CASE Commit(b)
    BY <1>2, <2>3 DEF Commit, Sending
  <2>4. CASE LoadDevices(b)
    BY <1>2, <2>4 DEF LoadDevices, Sending
  <2>5. CASE GiveUp(b) \/ Record(b) \/ Cancel(b)
    BY <1>2, <2>5 DEF GiveUp, Record, Cancel, Sending
  <2>6. CASE Finish(b)
    BY <1>2, <2>6 DEF Finish, Sending
  <2>7. CASE \E t \in Devices : Spawn(b, t)
    BY <2>7 DEF Spawn
  <2>8. QED
    BY <2>1, <2>2, <2>3, <2>4, <2>5, <2>6, <2>7
<1>4. QED
  BY <1>1, <1>3, SilentStep

LEMMA InitRInv == Init => RInv
<1>1. Init => Pruned
  BY DEF Init, Pruned, Unsent
<1>2. Init => RegistrationsFollowTheApp
  BY BroadcastConfig DEF Init, RegistrationsFollowTheApp, Listed
<1>3. QED
  BY <1>1, <1>2, InitIInv DEF RInv

LEMMA NextRInv == ASSUME Oversized = {} PROVE RInv /\ [Next]_vars => RInv'
<1> SUFFICES ASSUME RInv, [Next]_vars PROVE Pruned' /\ RegistrationsFollowTheApp'
  BY NextIInv DEF RInv
<1>1. CASE \E u \in Users, t \in Devices : Register(u, t) \/ Unregister(u, t)
  BY <1>1, RegistryRInv
<1>2. CASE \E t \in Devices : Uninstall(t)
  BY <1>2, UninstallRInv
<1>3. ASSUME NEW b \in Sends, Submit(b) \/ Progress(b) \/ Cancel(b)
      PROVE  Pruned' /\ RegistrationsFollowTheApp'
  <2>1. CASE \E t \in Devices \cup {None} :
               TakeToken(<<b, t>>) \/ StartMint(<<b, t>>) \/ EndMint(<<b, t>>)
    <3>1. PICK t \in Devices \cup {None} :
               TakeToken(<<b, t>>) \/ StartMint(<<b, t>>) \/ EndMint(<<b, t>>)
      BY <2>1
    <3>2. <<b, t>> \in Callers
      BY DEF Callers
    <3>3. QED
      BY <3>1, <3>2, MintRInv
  <2>2. CASE \E t \in Devices : Post(b, t) \/ PostLost(b, t)
    BY <2>2, PostRInv
  <2>3. CASE Prune(b)
    BY <2>3, PruneRInv
  <2>4. CASE \/ Submit(b) \/ Resolve(b) \/ InsertBatch(b) \/ Commit(b) \/ FailEarly(b)
             \/ LoadDevices(b) \/ GiveUp(b) \/ Finish(b) \/ Record(b) \/ Cancel(b)
             \/ \E t \in Devices : Spawn(b, t)
    BY <2>4, QuietRInv
  <2>5. QED
    BY <1>3, <2>1, <2>2, <2>3, <2>4 DEF Progress
<1>4. CASE Expire
  BY <1>4, SilentStep DEF Expire
<1>5. CASE Crash
  <2>1. \A b \in Sends : send'[b].invalid = send[b].invalid
    BY <1>5, SendTyped DEF Crash, RInv, Sending
  <2>2. QED
    BY <1>5, <2>1, SilentStep DEF Crash
<1>6. CASE UNCHANGED vars
  BY <1>6, SilentStep DEF vars
<1>7. QED
  BY <1>1, <1>2, <1>3, <1>4, <1>5, <1>6 DEF Next

\* For any accounts, devices and sends: as long as FCM answers 400 to no live
\* registration, a device is listed for the account that signed in on it last
\* and for nobody after its sign-out, whatever is pruned meanwhile.
THEOREM RegistrationsFollow ==
  ASSUME Oversized = {} PROVE Spec => []RegistrationsFollowTheApp
<1>1. Spec => []RInv
  BY InitRInv, NextRInv, PTL DEF Spec
<1>2. RInv => RegistrationsFollowTheApp
  BY DEF RInv
<1>3. QED
  BY <1>1, <1>2, PTL

-----------------------------------------------------------------------------
(* The history *)

DoneIn(w) == {t \in Devices : w[t] = "done"}

\* Before its messages are queued a send has reported nothing and reached nobody.
EarlyFor(q, w, got) ==
  q.at \in {"new", "resolving", "inserting", "loading", "granting"} =>
    /\ q.sent = 0 /\ q.failed = 0 /\ got = {}
    /\ q.at # "granting" => q.devices = {}
    /\ \A t \in Devices : w[t] = "idle"

\* From then on it has reported the workers that are done, one answer each, and
\* without an error every device has a worker.  Only a send that queues has
\* workers that are not done.
CountFor(q, w, got) ==
  /\ q.at \in {"queueing", "pruning", "recording"} =>
       /\ q.sent + q.failed = Cardinality(DoneIn(w))
       /\ got \subseteq DoneIn(w) /\ q.sent <= Cardinality(got)
       /\ \A t \in Devices : w[t] # "idle" => t \in q.devices
       /\ ~q.error => \A t \in q.devices : w[t] # "idle"
  /\ q.at # "queueing" => \A t \in Devices : w[t] \in {"idle", "done"}

\* What was written is never nothing, and is what the inbox got.
WrittenFor(q, i) ==
  /\ q.at = "inserting" => q.recipients # {}
  /\ q.at \in Late => i # {} /\ q.written = i

\* Who has an entry in the history has been answered.
EntryFor(q, got, i, h) ==
  h # NoEntry =>
    /\ q.at = "answered"
    /\ i # {} /\ h.saved = Cardinality(i)
    /\ h.sent <= Cardinality(got)
    /\ h.sent + h.failed <= h.devices
    /\ ~h.error => h.sent + h.failed = h.devices

CountedFor(q, w, got, i, h) ==
  EarlyFor(q, w, got) /\ CountFor(q, w, got) /\ WrittenFor(q, i) /\ EntryFor(q, got, i, h)

Counted ==
  \A b \in Sends : CountedFor(send[b], worker[b], reached[b], inbox[b], history[b])

CInv == IInv /\ Counted

LEMMA InitCounted == Init => Counted
<1> SUFFICES ASSUME Init, NEW b \in Sends
             PROVE  CountedFor(send[b], worker[b], reached[b], inbox[b], history[b])
  BY DEF Counted
<1>1. /\ send[b] = Unsent /\ reached[b] = {} /\ history[b] = NoEntry
      /\ \A t \in Devices : worker[b][t] = "idle"
  BY DEF Init
<1>2. QED
  BY <1>1 DEF CountedFor, EarlyFor, CountFor, WrittenFor, EntryFor, Unsent, Late

\* A step of one send leaves what is known of the others alone.
LEMMA OneCounted ==
  ASSUME Counted, NEW b \in Sends,
         \A c \in Sends : c # b =>
           /\ send'[c] = send[c] /\ worker'[c] = worker[c] /\ reached'[c] = reached[c]
           /\ inbox'[c] = inbox[c] /\ history'[c] = history[c],
         CountedFor(send'[b], worker'[b], reached'[b], inbox'[b], history'[b])
  PROVE  Counted'
<1> SUFFICES ASSUME NEW c \in Sends
             PROVE  CountedFor(send'[c], worker'[c], reached'[c], inbox'[c], history'[c])
  BY DEF Counted
<1>1. CASE c = b
  BY <1>1
<1>2. CASE c # b
  BY <1>2 DEF Counted
<1>3. QED
  BY <1>1, <1>2

\* A step that only one send knows of.
LEMMA OwnMove ==
  ASSUME CInv, NEW b \in Sends, NEW q \in Sending, send' = [send EXCEPT ![b] = q],
         UNCHANGED <<worker, reached, inbox, history>>,
         CountedFor(q, worker[b], reached[b], inbox[b], history[b])
  PROVE  Counted'
<1>1. send'[b] = q /\ \A c \in Sends : c # b => send'[c] = send[c]
  BY OneSend DEF CInv, IInv, TypeOK
<1>2. CountedFor(send'[b], worker'[b], reached'[b], inbox'[b], history'[b])
  BY <1>1
<1>3. QED
  BY <1>1, <1>2, OneCounted DEF CInv

\* Nobody is done before the messages are queued.
LEMMA NobodyDone ==
  ASSUME NEW w, \A t \in Devices : w[t] # "done"
  PROVE  DoneIn(w) = {} /\ Cardinality(DoneIn(w)) = 0 /\ Cardinality({}) = 0
<1>1. DoneIn(w) = {}
  BY DEF DoneIn
<1>2. QED
  BY <1>1, FS_EmptySet

\* What is known of a send that has not been answered.
LEMMA OpenSend ==
  ASSUME CInv, NEW b \in Sends, send[b].at # "answered"
  PROVE  /\ CountedFor(send[b], worker[b], reached[b], inbox[b], history[b])
         /\ history[b] = NoEntry
         /\ send[b] \in Sending
BY SendTyped DEF CInv, Counted, CountedFor, EntryFor

LEMMA SubmitCounted == ASSUME CInv, NEW b \in Sends, Submit(b) PROVE Counted'
<1>1. PICK push \in BOOLEAN :
        send' = [send EXCEPT ![b].at = "resolving", ![b].push = push]
  BY DEF Submit
<1> DEFINE q == [send[b] EXCEPT !.at = "resolving", !.push = push]
<1>2. /\ q \in Sending /\ q.at = "resolving" /\ q.sent = send[b].sent
      /\ q.failed = send[b].failed /\ q.devices = send[b].devices
      /\ send' = [send EXCEPT ![b] = q]
  BY <1>1, SendTyped DEF Sending, Stage, CInv, IInv, TypeOK, Typed
<1>3. /\ CountedFor(send[b], worker[b], reached[b], inbox[b], history[b])
      /\ history[b] = NoEntry /\ send[b].at = "new"
  BY OpenSend DEF Submit
<1>4. CountedFor(q, worker[b], reached[b], inbox[b], history[b])
  <2> HIDE DEF q
  <2>1. QED
    BY <1>2, <1>3 DEF CountedFor, EarlyFor, CountFor, WrittenFor, EntryFor, Late
<1>5. QED
  <2> HIDE DEF q
  <2>1. QED
    BY <1>2, <1>4, OwnMove DEF Submit, fcm

LEMMA ResolveCounted == ASSUME CInv, NEW b \in Sends, Resolve(b) PROVE Counted'
<1>0. PICK matched \in SUBSET Users : \E s \in Page(matched) :
        send' = [send EXCEPT ![b] = IF s = {} \/ Cardinality(s) > MaxRecipients
         THEN [@ EXCEPT !.at = "answered", !.due = matched, !.answer = "refused"]
         ELSE [@ EXCEPT !.at = "inserting", !.due = matched, !.recipients = s]]
  BY DEF Resolve
<1>1. PICK s \in Page(matched) :
        send' = [send EXCEPT ![b] = IF s = {} \/ Cardinality(s) > MaxRecipients
         THEN [@ EXCEPT !.at = "answered", !.due = matched, !.answer = "refused"]
         ELSE [@ EXCEPT !.at = "inserting", !.due = matched, !.recipients = s]]
  BY <1>0
<1>2. s \subseteq Users
  BY DEF Page
<1>3. /\ CountedFor(send[b], worker[b], reached[b], inbox[b], history[b])
      /\ history[b] = NoEntry /\ send[b].at = "resolving"
  BY OpenSend DEF Resolve
<1>4. CASE s = {} \/ Cardinality(s) > MaxRecipients
  <2> DEFINE q == [send[b] EXCEPT !.at = "answered", !.due = matched, !.answer = "refused"]
  <2>0. send' = [send EXCEPT ![b] = q]
    BY <1>1, <1>4 DEF CInv, IInv, TypeOK, Typed
  <2>1. /\ q \in Sending /\ q.at = "answered" /\ send' = [send EXCEPT ![b] = q]
    BY <1>3, <2>0, OpenSend DEF Sending, Stage
  <2> HIDE DEF q
  <2>2. CountedFor(q, worker[b], reached[b], inbox[b], history[b])
    BY <1>3, <2>1 DEF CountedFor, EarlyFor, CountFor, WrittenFor, EntryFor, Late
  <2>3. QED
    BY <2>1, <2>2, OwnMove DEF Resolve, fcm
<1>5. CASE ~(s = {} \/ Cardinality(s) > MaxRecipients)
  <2> DEFINE q == [send[b] EXCEPT !.at = "inserting", !.due = matched, !.recipients = s]
  <2>0. send' = [send EXCEPT ![b] = q]
    BY <1>1, <1>5 DEF CInv, IInv, TypeOK, Typed
  <2>1. /\ q \in Sending /\ q.at = "inserting" /\ q.recipients = s
        /\ q.sent = send[b].sent /\ q.failed = send[b].failed
        /\ q.devices = send[b].devices /\ send' = [send EXCEPT ![b] = q]
    BY <1>2, <1>3, <2>0, OpenSend DEF Sending, Stage
  <2> HIDE DEF q
  <2>2. CountedFor(q, worker[b], reached[b], inbox[b], history[b])
    BY <1>3, <1>5, <2>1 DEF CountedFor, EarlyFor, CountFor, WrittenFor, EntryFor, Late
  <2>3. QED
    BY <2>1, <2>2, OwnMove DEF Resolve, fcm
<1>6. QED
  BY <1>4, <1>5

LEMMA InsertCounted == ASSUME CInv, NEW b \in Sends, InsertBatch(b) PROVE Counted'
<1>1. PICK batch \in SUBSET (send[b].recipients \ send[b].written) :
        send' = [send EXCEPT ![b].written = @ \cup batch]
  BY DEF InsertBatch
<1> DEFINE q == [send[b] EXCEPT !.written = @ \cup batch]
<1>2. /\ q \in Sending /\ q.at = send[b].at /\ q.sent = send[b].sent
      /\ q.failed = send[b].failed /\ q.devices = send[b].devices
      /\ q.recipients = send[b].recipients
      /\ send' = [send EXCEPT ![b] = q]
  BY <1>1, SendTyped DEF Sending, CInv, IInv, TypeOK, Typed
<1>3. /\ CountedFor(send[b], worker[b], reached[b], inbox[b], history[b])
      /\ history[b] = NoEntry /\ send[b].at = "inserting"
  BY OpenSend DEF InsertBatch
<1> HIDE DEF q
<1>4. CountedFor(q, worker[b], reached[b], inbox[b], history[b])
  BY <1>2, <1>3 DEF CountedFor, EarlyFor, CountFor, WrittenFor, EntryFor, Late
<1>5. QED
  BY <1>2, <1>4, OwnMove DEF InsertBatch, fcm

LEMMA CommitCounted == ASSUME CInv, NEW b \in Sends, Commit(b) PROVE Counted'
<1>1. /\ CountedFor(send[b], worker[b], reached[b], inbox[b], history[b])
      /\ history[b] = NoEntry /\ send[b].at = "inserting" /\ send[b] \in Sending
  BY OpenSend DEF Commit
<1>2. /\ send[b].written = send[b].recipients /\ send[b].written # {}
      /\ inbox'[b] = send[b].written
      /\ \A c \in Sends : c # b => inbox'[c] = inbox[c]
      /\ UNCHANGED <<worker, reached, history>>
  BY <1>1 DEF Commit, CountedFor, WrittenFor, fcm, CInv, IInv, TypeOK, Typed
<1>3. PICK q \in Sending :
        /\ send' = [send EXCEPT ![b] = q]
        /\ q.at \in {"loading", "recording", "answered"} /\ q.sent = send[b].sent
        /\ q.failed = send[b].failed /\ q.devices = send[b].devices
        /\ q.written = send[b].written
  <2>1. CASE send' = [send EXCEPT ![b].at = IF send[b].push THEN "loading" ELSE "recording"]
    <3> DEFINE q == [send[b] EXCEPT !.at = IF send[b].push THEN "loading" ELSE "recording"]
    <3>1. /\ q \in Sending /\ send' = [send EXCEPT ![b] = q]
          /\ q.at \in {"loading", "recording", "answered"} /\ q.sent = send[b].sent
          /\ q.failed = send[b].failed /\ q.devices = send[b].devices
          /\ q.written = send[b].written
      BY <1>1, <2>1 DEF Sending, Stage, CInv, IInv, TypeOK, Typed
    <3> HIDE DEF q
    <3>2. QED
      BY <3>1
  <2>2. CASE send' = [send EXCEPT ![b].at = "answered", ![b].answer = "failed"]
    <3> DEFINE q == [send[b] EXCEPT !.at = "answered", !.answer = "failed"]
    <3>1. /\ q \in Sending /\ send' = [send EXCEPT ![b] = q]
          /\ q.at \in {"loading", "recording", "answered"} /\ q.sent = send[b].sent
          /\ q.failed = send[b].failed /\ q.devices = send[b].devices
          /\ q.written = send[b].written
      BY <1>1, <2>2 DEF Sending, Stage, CInv, IInv, TypeOK, Typed
    <3> HIDE DEF q
    <3>2. QED
      BY <3>1
  <2>3. QED
    BY <2>1, <2>2 DEF Commit
<1>4. send'[b] = q /\ \A c \in Sends : c # b => send'[c] = send[c]
  BY <1>3, OneSend DEF CInv, IInv, TypeOK
<1>5. CountedFor(q, worker[b], reached[b], send[b].written, history[b])
  <2>1. /\ q.sent = 0 /\ q.failed = 0 /\ q.devices = {} /\ reached[b] = {}
        /\ \A t \in Devices : worker[b][t] = "idle"
    BY <1>1, <1>3 DEF CountedFor, EarlyFor
  <2>2. DoneIn(worker[b]) = {} /\ Cardinality({}) = 0
    BY <2>1, NobodyDone
  <2>3. QED
    BY <1>1, <1>2, <1>3, <2>1, <2>2
       DEF CountedFor, EarlyFor, CountFor, WrittenFor, EntryFor, Late
<1>6. QED
  BY <1>2, <1>4, <1>5, OneCounted DEF CInv

LEMMA FailEarlyCounted == ASSUME CInv, NEW b \in Sends, FailEarly(b) PROVE Counted'
<1> DEFINE q == [send[b] EXCEPT !.at = "answered", !.answer = "failed"]
<1>1. /\ CountedFor(send[b], worker[b], reached[b], inbox[b], history[b])
      /\ history[b] = NoEntry /\ send[b].at \in {"resolving", "inserting"}
      /\ send[b] \in Sending
  BY OpenSend DEF FailEarly
<1>2. q \in Sending /\ q.at = "answered" /\ send' = [send EXCEPT ![b] = q]
  BY <1>1 DEF FailEarly, Sending, Stage, CInv, IInv, TypeOK, Typed
<1> HIDE DEF q
<1>3. CountedFor(q, worker[b], reached[b], inbox[b], history[b])
  BY <1>1, <1>2 DEF CountedFor, EarlyFor, CountFor, WrittenFor, EntryFor, Late
<1>4. QED
  BY <1>2, <1>3, OwnMove DEF FailEarly, fcm

LEMMA LoadCounted == ASSUME CInv, NEW b \in Sends, LoadDevices(b) PROVE Counted'
<1> DEFINE found == {t \in Devices : Listed(t) /\ holder[t] \in send[b].recipients}
<1>1. /\ CountedFor(send[b], worker[b], reached[b], inbox[b], history[b])
      /\ history[b] = NoEntry /\ send[b].at = "loading" /\ send[b] \in Sending
  BY OpenSend DEF LoadDevices
<1>2. /\ \A t \in Devices : worker[b][t] = "idle"
      /\ DoneIn(worker[b]) = {} /\ Cardinality({}) = 0
  BY <1>1, NobodyDone DEF CountedFor, EarlyFor
<1>3. CASE send' = [send EXCEPT ![b].devices = found,
                      ![b].at = IF found = {} THEN "recording" ELSE "granting"]
  <2> DEFINE q == [send[b] EXCEPT !.devices = found,
                      !.at = IF found = {} THEN "recording" ELSE "granting"]
  <2>1. q \in Sending /\ send' = [send EXCEPT ![b] = q]
    BY <1>1, <1>3 DEF Sending, Stage, CInv, IInv, TypeOK, Typed
  <2>2. /\ q.at = IF found = {} THEN "recording" ELSE "granting"
        /\ q.sent = send[b].sent /\ q.failed = send[b].failed /\ q.devices = found
        /\ q.written = send[b].written
    BY <1>1 DEF Sending
  <2> HIDE DEF q, found
  <2>3. CountedFor(q, worker[b], reached[b], inbox[b], history[b])
    BY <1>1, <1>2, <2>2 DEF CountedFor, EarlyFor, CountFor, WrittenFor, EntryFor, Late
  <2>4. QED
    BY <2>1, <2>3, OwnMove DEF LoadDevices, fcm
<1>4. CASE send' = [send EXCEPT ![b].at = "recording", ![b].error = TRUE]
  <2> DEFINE q == [send[b] EXCEPT !.at = "recording", !.error = TRUE]
  <2>1. /\ q \in Sending /\ send' = [send EXCEPT ![b] = q]
        /\ q.at = "recording" /\ q.sent = send[b].sent /\ q.failed = send[b].failed
        /\ q.devices = send[b].devices /\ q.written = send[b].written
    BY <1>1, <1>4 DEF Sending, Stage, CInv, IInv, TypeOK, Typed
  <2> HIDE DEF q
  <2>2. CountedFor(q, worker[b], reached[b], inbox[b], history[b])
    BY <1>1, <1>2, <2>1 DEF CountedFor, EarlyFor, CountFor, WrittenFor, EntryFor, Late
  <2>3. QED
    BY <2>1, <2>2, OwnMove DEF LoadDevices, fcm
<1>5. QED
  BY <1>3, <1>4 DEF LoadDevices

\* A worker is done: its answer is counted, and its device is reached at most.
Answered(b, t, v) ==
  /\ worker[b][t] \in {"waiting", "posting"}
  /\ send' = [send EXCEPT ![b] = Tally(@, t, v)]
  /\ worker' = [worker EXCEPT ![b][t] = "done"]
  /\ reached'[b] \in {reached[b], reached[b] \cup {t}}
  /\ v = "sent" => t \in reached'[b]
  /\ \A c \in Sends : c # b => reached'[c] = reached[c]
  /\ UNCHANGED <<inbox, history>>

LEMMA TallyCounts ==
  ASSUME CInv, NEW b \in Sends, NEW t \in Devices, NEW v, Answered(b, t, v)
  PROVE  Counted'
<1>0. /\ worker[b][t] \in {"waiting", "posting"}
      /\ send' = [send EXCEPT ![b] = Tally(@, t, v)]
      /\ worker' = [worker EXCEPT ![b][t] = "done"]
      /\ reached'[b] \in {reached[b], reached[b] \cup {t}}
      /\ v = "sent" => t \in reached'[b]
      /\ \A c \in Sends : c # b => reached'[c] = reached[c]
      /\ UNCHANGED <<inbox, history>>
  BY DEF Answered
<1> DEFINE q == Tally(send[b], t, v)
           w == worker'[b]
           got == reached'[b]
<1>1. /\ CountFor(send[b], worker[b], reached[b]) /\ send[b].at = "queueing"
      /\ history[b] = NoEntry /\ WrittenFor(send[b], inbox[b])
  <2>1. CountedFor(send[b], worker[b], reached[b], inbox[b], history[b])
    BY DEF CInv, Counted
  <2>2. send[b].at = "queueing"
    BY <1>0, <2>1 DEF CountedFor, CountFor
  <2>3. QED
    BY <2>1, <2>2 DEF CountedFor, EntryFor
<1>2. /\ q \in Sending /\ q.at = send[b].at /\ q.written = send[b].written
      /\ send' = [send EXCEPT ![b] = q]
  BY <1>0, SendTyped, TallyKeeps DEF CInv, IInv, TypeOK, Typed
<1>3. /\ q.sent = send[b].sent + (IF v = "sent" THEN 1 ELSE 0)
      /\ q.failed = send[b].failed + (IF v = "sent" THEN 0 ELSE 1)
      /\ q.devices = send[b].devices /\ q.error = send[b].error
      /\ send[b].sent \in Nat /\ send[b].failed \in Nat
  BY SendTyped DEF Tally, Sending, CInv
<1>4. /\ \A d \in Devices : w[d] = IF d = t THEN "done" ELSE worker[b][d]
      /\ \A c \in Sends : c # b => worker'[c] = worker[c]
  BY <1>0 DEF CInv, IInv, TypeOK, Typed
<1>5. reached[b] \subseteq Devices
  BY DEF CInv, IInv, TypeOK, Typed
<1>6. /\ send'[b] = q
      /\ \A c \in Sends : c # b => send'[c] = send[c]
  <2> HIDE DEF q
  <2>1. QED
    BY <1>2, OneSend DEF CInv, IInv, TypeOK
<1> HIDE DEF q, w
<1>7. /\ Cardinality(DoneIn(w)) = Cardinality(DoneIn(worker[b])) + 1
      /\ DoneIn(w) = DoneIn(worker[b]) \cup {t}
      /\ t \notin DoneIn(worker[b])
  <2>1. DoneIn(w) = DoneIn(worker[b]) \cup {t} /\ t \notin DoneIn(worker[b])
    BY <1>0, <1>4 DEF DoneIn
  <2>2. IsFiniteSet(DoneIn(worker[b]))
    BY FS_Subset, BroadcastConfig DEF DoneIn
  <2>3. QED
    BY <2>1, <2>2, FS_AddElement
<1>8. q.sent <= Cardinality(got)
  <2>1. IsFiniteSet(reached[b]) /\ t \notin reached[b] /\ send[b].sent <= Cardinality(reached[b])
    BY <1>1, <1>5, <1>7, FS_Subset, BroadcastConfig DEF CountFor
  <2>2. Cardinality(reached[b]) \in Nat
    BY <2>1, FS_CardinalityType
  <2>3. Cardinality(reached[b] \cup {t}) = Cardinality(reached[b]) + 1
    BY <2>1, FS_AddElement
  <2>4. CASE got = reached[b] \cup {t}
    BY <1>3, <2>1, <2>2, <2>3, <2>4
  <2>5. CASE got = reached[b]
    <3>1. v # "sent"
      BY <1>0, <2>1, <2>5
    <3> HIDE DEF got
    <3>2. QED
      BY <1>3, <2>1, <2>2, <2>5, <3>1
  <2>6. QED
    BY <1>0, <2>4, <2>5
<1>9. CountFor(q, w, got)
  <2>1. q.sent + q.failed = Cardinality(DoneIn(w))
    <3>1. send[b].sent + send[b].failed = Cardinality(DoneIn(worker[b]))
      BY <1>1 DEF CountFor
    <3>2. QED
      BY <1>3, <1>7, <3>1
  <2>2. got \subseteq DoneIn(w)
    BY <1>0, <1>1, <1>7 DEF CountFor
  <2>3. \A d \in Devices : w[d] # "idle" => d \in q.devices
    BY <1>0, <1>1, <1>3, <1>4 DEF CountFor
  <2>4. ~q.error => \A d \in q.devices : w[d] # "idle"
    <3>1. q.devices \subseteq Devices
      BY <1>2 DEF Sending
    <3>2. QED
      BY <1>1, <1>3, <1>4, <3>1 DEF CountFor
  <2>5. QED
    BY <1>1, <1>2, <1>8, <2>1, <2>2, <2>3, <2>4 DEF CountFor
<1>10. CountedFor(q, w, got, inbox[b], history[b])
  <2> HIDE DEF got
  <2>1. QED
    BY <1>1, <1>2, <1>9 DEF CountedFor, EarlyFor, WrittenFor, EntryFor, Late
<1>11. CountedFor(send'[b], worker'[b], reached'[b], inbox'[b], history'[b])
  BY <1>0, <1>6, <1>10 DEF w
<1>12. QED
  BY <1>0, <1>4, <1>6, <1>11, OneCounted DEF CInv

LEMMA PostCounted ==
  ASSUME CInv, NEW b \in Sends, NEW t \in Devices, Post(b, t) \/ PostLost(b, t)
  PROVE  Counted'
<1>1. CASE Post(b, t)
  <2>1. PICK a \in Answers(b, t) :
          /\ send' = [send EXCEPT ![b] = Tally(@, t, Classify(a))]
          /\ reached' = [reached EXCEPT ![b] = @ \cup IF a = "ok" THEN {t} ELSE {}]
    BY <1>1 DEF Post
  <2> DEFINE v == Classify(a)
  <2>2. v = "sent" => a = "ok"
    BY DEF Classify
  <2>3. /\ reached'[b] \in {reached[b], reached[b] \cup {t}}
        /\ v = "sent" => t \in reached'[b]
        /\ \A c \in Sends : c # b => reached'[c] = reached[c]
    BY <2>1, <2>2 DEF CInv, IInv, TypeOK, Typed
  <2>4. /\ worker[b][t] = "posting" /\ worker' = [worker EXCEPT ![b][t] = "done"]
        /\ UNCHANGED <<inbox, history>>
        /\ send' = [send EXCEPT ![b] = Tally(@, t, v)]
    BY <1>1, <2>1 DEF Post
  <2>5. Answered(b, t, v)
    BY <2>3, <2>4 DEF Answered
  <2> HIDE DEF v
  <2>6. QED
    BY <2>5, TallyCounts
<1>2. CASE PostLost(b, t)
  <2>1. PICK had \in SUBSET {t} : reached' = [reached EXCEPT ![b] = @ \cup had]
    BY <1>2 DEF PostLost
  <2> DEFINE v == "other"
  <2>2. had = {} \/ had = {t}
    OBVIOUS
  <2>3. /\ reached'[b] \in {reached[b], reached[b] \cup {t}}
        /\ v = "sent" => t \in reached'[b]
        /\ \A c \in Sends : c # b => reached'[c] = reached[c]
    BY <2>1, <2>2 DEF CInv, IInv, TypeOK, Typed
  <2>4. /\ worker[b][t] = "posting" /\ worker' = [worker EXCEPT ![b][t] = "done"]
        /\ UNCHANGED <<inbox, history>>
        /\ send' = [send EXCEPT ![b] = Tally(@, t, v)]
    BY <1>2 DEF PostLost
  <2>5. Answered(b, t, v)
    BY <2>3, <2>4 DEF Answered
  <2> HIDE DEF v
  <2>6. QED
    BY <2>5, TallyCounts
<1>3. QED
  BY <1>1, <1>2

\* A worker that moves on without an answer.
LEMMA WorkerMove ==
  ASSUME CInv, NEW b \in Sends, NEW t \in Devices,
         worker[b][t] \in {"queued", "waiting"}, NEW s \in {"waiting", "posting"},
         worker' = [worker EXCEPT ![b][t] = s],
         UNCHANGED <<send, reached, inbox, history>>
  PROVE  Counted'
<1>1. CountedFor(send[b], worker[b], reached[b], inbox[b], history[b])
  BY DEF CInv, Counted
<1>2. send[b].at = "queueing"
  BY <1>1 DEF CountedFor, CountFor
<1> DEFINE w == worker'[b]
<1>3. /\ \A d \in Devices : w[d] = IF d = t THEN s ELSE worker[b][d]
      /\ \A c \in Sends : c # b => worker'[c] = worker[c]
  BY DEF CInv, IInv, TypeOK, Typed
<1> HIDE DEF w
<1>4. DoneIn(w) = DoneIn(worker[b])
  BY <1>3 DEF DoneIn
<1>5. send[b].devices \subseteq Devices
  BY SendTyped DEF CInv, Sending
<1>6. CountFor(send[b], w, reached[b])
  BY <1>1, <1>2, <1>3, <1>4, <1>5 DEF CountedFor, CountFor
<1>7. CountedFor(send[b], w, reached[b], inbox[b], history[b])
  BY <1>1, <1>2, <1>6 DEF CountedFor, EarlyFor
<1>8. CountedFor(send'[b], worker'[b], reached'[b], inbox'[b], history'[b])
  BY <1>7 DEF w
<1>9. QED
  BY <1>3, <1>8, OneCounted DEF CInv

\* The messages are queued, one for each device, or never: the send knows of an
\* error then.
LEMMA GrantCounted ==
  ASSUME CInv, NEW c \in Callers, Waiting(c), UNCHANGED <<inbox, history, reached>>,
         Granted(c) \/ \E verdict \in {"auth", "other"} : Denied(c, verdict)
  PROVE  Counted'
<1> DEFINE b == c[1]
           t == c[2]
<1>0. b \in Sends /\ (t \in Devices \/ t = None) /\ None \notin Devices
  BY CallerTyped, BroadcastConfig
<1>1. CASE t \in Devices /\ Granted(c)
  <2>1. worker' = [worker EXCEPT ![b][t] = "posting"] /\ UNCHANGED send
    BY <1>0, <1>1 DEF Granted
  <2>2. worker[b][t] = "waiting"
    BY <1>0, <1>1 DEF Waiting
  <2>3. QED
    BY <1>0, <1>1, <2>1, <2>2, WorkerMove
<1>2. CASE t \in Devices /\ \E verdict \in {"auth", "other"} : Denied(c, verdict)
  <2>1. PICK v \in {"auth", "other"} : Denied(c, v)
    BY <1>2
  <2>2. /\ send' = [send EXCEPT ![b] = Tally(@, t, v)]
        /\ worker' = [worker EXCEPT ![b][t] = "done"]
    BY <1>0, <1>2, <2>1 DEF Denied
  <2>3. worker[b][t] = "waiting"
    BY <1>0, <1>2 DEF Waiting
  <2>4. v # "sent" /\ reached' = reached
    OBVIOUS
  <2>5. Answered(b, t, v)
    BY <1>0, <2>2, <2>3, <2>4 DEF Answered
  <2>6. QED
    BY <1>0, <1>2, <2>5, TallyCounts
<1>3. ASSUME t = None
      PROVE  /\ CountedFor(send[b], worker[b], reached[b], inbox[b], history[b])
             /\ send[b].at = "granting" /\ history[b] = NoEntry /\ send[b] \in Sending
             /\ \A d \in Devices : worker[b][d] = "idle"
             /\ DoneIn(worker[b]) = {} /\ Cardinality({}) = 0 /\ reached[b] = {}
             /\ send[b].devices \subseteq Devices
  <2>1. send[b].at = "granting"
    BY <1>3 DEF Waiting
  <2>2. /\ CountedFor(send[b], worker[b], reached[b], inbox[b], history[b])
        /\ history[b] = NoEntry /\ send[b] \in Sending
    BY <1>0, <2>1, OpenSend
  <2>3. reached[b] = {} /\ \A d \in Devices : worker[b][d] = "idle"
    BY <2>1, <2>2 DEF CountedFor, EarlyFor
  <2>4. DoneIn(worker[b]) = {} /\ Cardinality({}) = 0
    BY <2>3, NobodyDone
  <2>5. QED
    BY <2>1, <2>2, <2>3, <2>4 DEF Sending
<1>4. CASE t = None /\ Granted(c)
  <2> DEFINE q == [send[b] EXCEPT !.at = "queueing"]
             w == [d \in Devices |-> IF d \in send[b].devices THEN "queued" ELSE "idle"]
  <2>1. send' = [send EXCEPT ![b].at = "queueing"] /\ worker' = [worker EXCEPT ![b] = w]
    BY <1>4 DEF Granted
  <2>2. /\ q \in Sending /\ send' = [send EXCEPT ![b] = q]
        /\ q.at = "queueing" /\ q.sent = send[b].sent /\ q.failed = send[b].failed
        /\ q.devices = send[b].devices /\ q.written = send[b].written
    BY <1>0, <1>3, <1>4, <2>1 DEF Sending, Stage, CInv, IInv, TypeOK, Typed
  <2>3. worker'[b] = w /\ \A e \in Sends : e # b => worker'[e] = worker[e]
    BY <1>0, <2>1 DEF CInv, IInv, TypeOK, Typed
  <2>4. \A d \in Devices : w[d] = IF d \in send[b].devices THEN "queued" ELSE "idle"
    OBVIOUS
  <2> HIDE DEF q, w
  <2>5. DoneIn(w) = {}
    BY <2>4 DEF DoneIn
  <2>6. CountedFor(q, w, reached[b], inbox[b], history[b])
    <3>0. /\ q.sent = 0 /\ q.failed = 0 /\ reached[b] = {} /\ Cardinality({}) = 0
          /\ q.devices \subseteq Devices
      BY <1>3, <1>4, <2>2 DEF CountedFor, EarlyFor
    <3>1. CountFor(q, w, reached[b])
      BY <2>2, <2>4, <2>5, <3>0 DEF CountFor
    <3>2. WrittenFor(q, inbox[b])
      BY <1>3, <1>4, <2>2 DEF CountedFor, WrittenFor, Late
    <3>3. QED
      BY <1>3, <1>4, <2>2, <3>1, <3>2 DEF CountedFor, EarlyFor, EntryFor
  <2>7. send'[b] = q /\ \A e \in Sends : e # b => send'[e] = send[e]
    BY <1>0, <2>2, OneSend DEF CInv, IInv, TypeOK
  <2>8. QED
    BY <1>0, <2>3, <2>6, <2>7, OneCounted DEF CInv
<1>5. CASE t = None /\ \E verdict \in {"auth", "other"} : Denied(c, verdict)
  <2> DEFINE q == [send[b] EXCEPT !.at = "recording", !.error = TRUE]
  <2>1. send' = [send EXCEPT ![b].at = "recording", ![b].error = TRUE] /\ UNCHANGED worker
    BY <1>5 DEF Denied
  <2>2. /\ q \in Sending /\ send' = [send EXCEPT ![b] = q]
        /\ q.at = "recording" /\ q.sent = send[b].sent /\ q.failed = send[b].failed
        /\ q.written = send[b].written /\ q.error = TRUE
    BY <1>0, <1>3, <1>5, <2>1 DEF Sending, Stage, CInv, IInv, TypeOK, Typed
  <2> HIDE DEF q
  <2>3. CountedFor(q, worker[b], reached[b], inbox[b], history[b])
    BY <1>3, <1>5, <2>2
       DEF CountedFor, EarlyFor, CountFor, WrittenFor, EntryFor, Late
  <2>4. QED
    BY <1>0, <2>1, <2>2, <2>3, OwnMove
<1>6. QED
  BY <1>0, <1>1, <1>2, <1>4, <1>5

LEMMA MintCounted ==
  ASSUME CInv, NEW c \in Callers, TakeToken(c) \/ StartMint(c) \/ EndMint(c)
  PROVE  Counted'
<1>1. CASE StartMint(c)
  BY <1>1 DEF StartMint, CInv, Counted
<1>2. CASE TakeToken(c)
  BY <1>2, GrantCounted DEF TakeToken
<1>3. CASE EndMint(c)
  <2>1. Granted(c) \/ \E verdict \in {"auth", "other"} : Denied(c, verdict)
    BY <1>3 DEF EndMint
  <2>2. Waiting(c) /\ UNCHANGED <<inbox, history, reached>>
    BY <1>3 DEF EndMint
  <2>3. QED
    BY <2>1, <2>2, GrantCounted
<1>4. QED
  BY <1>1, <1>2, <1>3

LEMMA SpawnCounted ==
  ASSUME CInv, NEW b \in Sends, NEW t \in Devices, Spawn(b, t) PROVE Counted'
BY WorkerMove DEF Spawn

LEMMA GiveUpCounted == ASSUME CInv, NEW b \in Sends, GiveUp(b) PROVE Counted'
<1> DEFINE q == [send[b] EXCEPT !.error = TRUE]
           w == [t \in Devices |-> IF t \in Queued(b) THEN "idle" ELSE worker[b][t]]
<1>1. /\ CountedFor(send[b], worker[b], reached[b], inbox[b], history[b])
      /\ history[b] = NoEntry /\ send[b].at = "queueing" /\ send[b] \in Sending
  BY OpenSend DEF GiveUp
<1>2. /\ send' = [send EXCEPT ![b] = q] /\ worker' = [worker EXCEPT ![b] = w]
      /\ UNCHANGED <<reached, inbox, history>>
  BY DEF GiveUp, CInv, IInv, TypeOK, Typed
<1>3. /\ q \in Sending /\ q.at = send[b].at /\ q.sent = send[b].sent
      /\ q.failed = send[b].failed /\ q.devices = send[b].devices
      /\ q.written = send[b].written /\ q.error = TRUE
  BY <1>1 DEF Sending
<1>4. worker'[b] = w /\ \A c \in Sends : c # b => worker'[c] = worker[c]
  BY <1>2 DEF CInv, IInv, TypeOK, Typed
<1>5. \A t \in Devices : w[t] = IF worker[b][t] = "queued" THEN "idle" ELSE worker[b][t]
  BY DEF Queued
<1> HIDE DEF q, w
<1>6. send'[b] = q /\ \A c \in Sends : c # b => send'[c] = send[c]
  BY <1>2, <1>3, OneSend DEF CInv, IInv, TypeOK
<1>7. DoneIn(w) = DoneIn(worker[b])
  BY <1>5 DEF DoneIn
<1>8. CountFor(q, w, reached[b])
  BY <1>1, <1>3, <1>5, <1>7 DEF CountedFor, CountFor
<1>9. CountedFor(q, w, reached[b], inbox[b], history[b])
  BY <1>1, <1>3, <1>8 DEF CountedFor, EarlyFor, WrittenFor, EntryFor, Late
<1>10. QED
  BY <1>2, <1>4, <1>6, <1>9, OneCounted DEF CInv

LEMMA FinishCounted == ASSUME CInv, NEW b \in Sends, Finish(b) PROVE Counted'
<1> DEFINE q == [send[b] EXCEPT !.error = @ \/ send[b].fatal,
                   !.at = IF send[b].invalid = {} THEN "recording" ELSE "pruning"]
<1>1. /\ CountedFor(send[b], worker[b], reached[b], inbox[b], history[b])
      /\ history[b] = NoEntry /\ send[b].at = "queueing" /\ send[b] \in Sending
  BY OpenSend DEF Finish
<1>2. send' = [send EXCEPT ![b] = q]
  BY DEF Finish, CInv, IInv, TypeOK, Typed
<1>3. /\ q \in Sending /\ q.at \in {"recording", "pruning"} /\ q.sent = send[b].sent
      /\ q.failed = send[b].failed /\ q.devices = send[b].devices
      /\ q.written = send[b].written /\ (~q.error => ~send[b].error)
  <2>1. (send[b].error \/ send[b].fatal) \in BOOLEAN
    BY <1>1 DEF Sending
  <2>2. QED
    BY <1>1, <2>1 DEF Sending, Stage
<1> HIDE DEF q
<1>4. \A t \in Devices : worker[b][t] \in {"idle", "done"}
  <2>1. \A t \in Devices : worker[b][t] \in WorkerStage
    BY DEF CInv, IInv, TypeOK, Typed
  <2>2. QED
    BY <2>1 DEF Finish, Queued, Running, WorkerStage
<1>5. CountFor(q, worker[b], reached[b])
  BY <1>1, <1>3, <1>4 DEF CountedFor, CountFor
<1>6. CountedFor(q, worker[b], reached[b], inbox[b], history[b])
  BY <1>1, <1>3, <1>5 DEF CountedFor, EarlyFor, WrittenFor, EntryFor, Late
<1>7. QED
  BY <1>2, <1>3, <1>6, OwnMove DEF Finish, fcm

LEMMA PruneCounted == ASSUME CInv, NEW b \in Sends, Prune(b) PROVE Counted'
<1> DEFINE q == [send[b] EXCEPT !.at = "recording"]
<1>1. /\ CountedFor(send[b], worker[b], reached[b], inbox[b], history[b])
      /\ history[b] = NoEntry /\ send[b].at = "pruning" /\ send[b] \in Sending
  BY OpenSend DEF Prune
<1>2. send' = [send EXCEPT ![b] = q]
  BY DEF Prune, CInv, IInv, TypeOK, Typed
<1>3. /\ q \in Sending /\ q.at = "recording" /\ q.sent = send[b].sent
      /\ q.failed = send[b].failed /\ q.devices = send[b].devices
      /\ q.written = send[b].written /\ q.error = send[b].error
  BY <1>1 DEF Sending, Stage
<1> HIDE DEF q
<1>4. CountFor(q, worker[b], reached[b])
  BY <1>1, <1>3 DEF CountedFor, CountFor
<1>5. CountedFor(q, worker[b], reached[b], inbox[b], history[b])
  BY <1>1, <1>3, <1>4 DEF CountedFor, EarlyFor, WrittenFor, EntryFor, Late
<1>6. QED
  BY <1>2, <1>3, <1>5, OwnMove DEF Prune, fcm

LEMMA CancelCounted == ASSUME CInv, NEW b \in Sends, Cancel(b) PROVE Counted'
<1> DEFINE q == [send[b] EXCEPT !.cancelled = TRUE]
<1>1. /\ CountedFor(send[b], worker[b], reached[b], inbox[b], history[b])
      /\ history[b] = NoEntry /\ send[b] \in Sending
  BY OpenSend DEF Cancel, Underway
<1>2. send' = [send EXCEPT ![b] = q]
  BY DEF Cancel, CInv, IInv, TypeOK, Typed
<1>3. /\ q \in Sending /\ q.at = send[b].at /\ q.sent = send[b].sent
      /\ q.failed = send[b].failed /\ q.devices = send[b].devices
      /\ q.recipients = send[b].recipients
      /\ q.written = send[b].written /\ q.error = send[b].error
  BY <1>1 DEF Sending
<1> HIDE DEF q
<1>4. CountFor(q, worker[b], reached[b])
  BY <1>1, <1>3 DEF CountedFor, CountFor
<1>5. CountedFor(q, worker[b], reached[b], inbox[b], history[b])
  BY <1>1, <1>3, <1>4 DEF CountedFor, EarlyFor, WrittenFor, EntryFor, Late
<1>6. QED
  BY <1>2, <1>3, <1>5, OwnMove DEF Cancel, fcm

\* The entry is written from the report when every worker has answered.
LEMMA RecordCounted == ASSUME CInv, NEW b \in Sends, Record(b) PROVE Counted'
<1> DEFINE q == [send[b] EXCEPT !.at = "answered", !.answer = "sent"]
           e == [saved |-> Cardinality(send[b].written),
                 devices |-> Cardinality(send[b].devices),
                 sent |-> send[b].sent, failed |-> send[b].failed, error |-> send[b].error]
<1>1. /\ CountedFor(send[b], worker[b], reached[b], inbox[b], history[b])
      /\ history[b] = NoEntry /\ send[b].at = "recording" /\ send[b] \in Sending
  BY OpenSend DEF Record
<1>2. /\ send' = [send EXCEPT ![b] = q] /\ UNCHANGED <<worker, reached, inbox>>
      /\ history' = history \/ history' = [history EXCEPT ![b] = e]
  BY DEF Record, fcm, CInv, IInv, TypeOK, Typed
<1>3. q \in Sending /\ q.at = "answered"
  BY <1>1 DEF Sending, Stage
<1>4. /\ history'[b] \in {NoEntry, e}
      /\ \A c \in Sends : c # b => history'[c] = history[c]
  BY <1>1, <1>2 DEF CInv, IInv, TypeOK, Typed
<1>5. send'[b] = q /\ \A c \in Sends : c # b => send'[c] = send[c]
  <2> HIDE DEF q
  <2>1. QED
    BY <1>2, <1>3, OneSend DEF CInv, IInv, TypeOK
<1>6. EntryFor(q, reached[b], inbox[b], e)
  <2>1. inbox[b] # {} /\ send[b].written = inbox[b]
    BY <1>1 DEF CountedFor, WrittenFor, Late
  <2>2. /\ e.saved = Cardinality(send[b].written) /\ e.sent = send[b].sent
        /\ e.failed = send[b].failed /\ e.error = send[b].error
        /\ e.devices = Cardinality(send[b].devices)
    OBVIOUS
  <2>3. /\ send[b].sent + send[b].failed = Cardinality(DoneIn(worker[b]))
        /\ send[b].sent <= Cardinality(reached[b])
        /\ \A t \in Devices : worker[b][t] # "idle" => t \in send[b].devices
        /\ ~send[b].error => \A t \in send[b].devices : worker[b][t] # "idle"
        /\ \A t \in Devices : worker[b][t] \in {"idle", "done"}
    BY <1>1 DEF CountedFor, CountFor
  <2>4. send[b].devices \subseteq Devices /\ IsFiniteSet(send[b].devices)
    BY <1>1, FS_Subset, BroadcastConfig DEF Sending
  <2>5. DoneIn(worker[b]) \subseteq send[b].devices
    BY <2>3 DEF DoneIn
  <2>6. ~send[b].error => DoneIn(worker[b]) = send[b].devices
    BY <2>3, <2>4, <2>5 DEF DoneIn
  <2>7. Cardinality(DoneIn(worker[b])) <= Cardinality(send[b].devices)
    BY <2>4, <2>5, FS_Subset
  <2> HIDE DEF e
  <2>8. QED
    BY <1>3, <2>1, <2>2, <2>3, <2>6, <2>7 DEF EntryFor
<1> HIDE DEF q, e
<1>7. EntryFor(q, reached[b], inbox[b], history'[b])
  BY <1>4, <1>6 DEF EntryFor
<1>8. CountedFor(q, worker[b], reached[b], inbox[b], history'[b])
  BY <1>1, <1>3, <1>7 DEF CountedFor, EarlyFor, CountFor, WrittenFor, Late
<1>9. QED
  BY <1>2, <1>4, <1>5, <1>8, OneCounted DEF CInv

LEMMA CrashCounted == ASSUME CInv, Crash PROVE Counted'
<1> SUFFICES ASSUME NEW b \in Sends
             PROVE  CountedFor(send'[b], worker'[b], reached'[b], inbox'[b], history'[b])
  BY DEF Counted
<1>1. /\ CountedFor(send[b], worker[b], reached[b], inbox[b], history[b])
      /\ send[b] \in Sending
  BY SendTyped DEF CInv, Counted
<1>2. /\ reached'[b] = reached[b] /\ inbox'[b] = inbox[b] /\ history'[b] = history[b]
      /\ \A t \in Devices : worker'[b][t] = "idle"
  BY DEF Crash
<1>3. CASE Underway(b)
  <2>1. send'[b].at = "crashed"
    BY <1>1, <1>3 DEF Crash, Sending
  <2>2. history[b] = NoEntry
    BY <1>1, <1>3 DEF CountedFor, EntryFor, Underway
  <2>3. QED
    BY <1>2, <2>1, <2>2 DEF CountedFor, EarlyFor, CountFor, WrittenFor, EntryFor, Late
<1>4. CASE ~Underway(b)
  <2>1. send'[b] = send[b] /\ send[b].at \in {"new", "answered", "crashed"}
    BY <1>4 DEF Crash, Underway
  <2>2. QED
    BY <1>1, <1>2, <2>1 DEF CountedFor, EarlyFor, CountFor, WrittenFor, EntryFor, Late
<1>5. QED
  BY <1>3, <1>4

LEMMA NextCounted == CInv /\ [Next]_vars => CInv'
<1> SUFFICES ASSUME CInv, [Next]_vars PROVE Counted'
  BY NextIInv DEF CInv
<1>1. CASE \E u \in Users, t \in Devices : Register(u, t) \/ Unregister(u, t)
  BY <1>1 DEF Register, Unregister, fcm, CInv, Counted
<1>2. CASE \E t \in Devices : Uninstall(t)
  BY <1>2 DEF Uninstall, fcm, CInv, Counted
<1>3. ASSUME NEW b \in Sends, Submit(b) \/ Progress(b) \/ Cancel(b) PROVE Counted'
  <2>1. CASE \/ Submit(b) \/ Resolve(b) \/ InsertBatch(b) \/ Commit(b) \/ FailEarly(b)
             \/ LoadDevices(b) \/ GiveUp(b) \/ Finish(b) \/ Prune(b) \/ Record(b) \/ Cancel(b)
    BY <2>1, SubmitCounted, ResolveCounted, InsertCounted, CommitCounted, FailEarlyCounted,
       LoadCounted, GiveUpCounted, FinishCounted, PruneCounted, RecordCounted, CancelCounted
  <2>2. CASE \E t \in Devices : Spawn(b, t) \/ Post(b, t) \/ PostLost(b, t)
    BY <2>2, SpawnCounted, PostCounted
  <2>3. CASE \E t \in Devices \cup {None} :
               TakeToken(<<b, t>>) \/ StartMint(<<b, t>>) \/ EndMint(<<b, t>>)
    <3>1. PICK t \in Devices \cup {None} :
               TakeToken(<<b, t>>) \/ StartMint(<<b, t>>) \/ EndMint(<<b, t>>)
      BY <2>3
    <3>2. <<b, t>> \in Callers
      BY DEF Callers
    <3>3. QED
      BY <3>1, <3>2, MintCounted
  <2>4. QED
    BY <1>3, <2>1, <2>2, <2>3 DEF Progress
<1>4. CASE Expire
  BY <1>4 DEF Expire, CInv, Counted
<1>5. CASE Crash
  BY <1>5, CrashCounted
<1>6. CASE UNCHANGED vars
  BY <1>6 DEF vars, fcm, CInv, Counted
<1>7. QED
  BY <1>1, <1>2, <1>3, <1>4, <1>5, <1>6 DEF Next

\* For any accounts, devices, sends and limits: what the history says of a
\* broadcast happened, whatever was cancelled, lost or given up on the way.
THEOREM HistoryIsHonest == Spec => []HistoryHonest
<1>1. Spec => []CInv
  <2>1. Init => CInv
    BY InitIInv, InitCounted DEF CInv
  <2>2. QED
    BY <2>1, NextCounted, PTL DEF Spec
<1>2. CInv => HistoryHonest
  BY DEF CInv, Counted, CountedFor, EntryFor, HistoryHonest
<1>3. QED
  BY <1>1, <1>2, PTL
=============================================================================
