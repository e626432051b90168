# The Nusantara back office in TLA+

Specifications of the Go service in `src/`: TLA+ modules translated from its
code, TLC configurations that check them on small instances, and TLAPS proofs of
the results that should hold at every size.

One stateless HTTP process (`cmd/api`, `internal/server`), of which several
instances may run, works over PostgreSQL (through GORM, at the default isolation
level READ COMMITTED), Redis (sessions, one-time codes, counters), Firebase push
and an image host. Every request runs in a goroutine of its own, no lock is held
across a database call, and every statement or Redis command is a point where
requests interleave, fail, or die with the process. That is the level all
modules are written at: **one statement, one step**.

## Inventory

| component (`internal/...`) | state | operations | hard behaviour | what makes it correct |
|---|---|---|---|---|
| `modules/order` | `orders.status`, `order_status_histories` | change status, list, detail, customer timeline | two operators on one status; scope check before the write; read-back after the commit | the trail explains the status, one winner per status, only legal steps, only assigned staff |
| `modules/point` | `user_point_histories`, cached `user_points.total_points` | balance, adjust | balance read before the transaction; upsert race on the total; int4 column | cache and ledger move together; no overdraft |
| `auth` sessions with `modules/user`, `modules/customer` | refresh records, index per account, blacklist; `users.status`, `users.password`, `account_actions` | sign in, refresh, log out, change password, block, unblock | get-then-delete rotation; sweep of an index that is changing; failure between commands | a rotated or logged-out pair is dead; a blocked account holds nothing; audit alternates |
| `modules/customeraddress` | `customer_addresses` | create, edit, delete, set default, reads | count-then-insert, promote after delete, demote-then-promote | one default, a cap, nobody else's rows, omitted fields kept |
| `platform/otp`, `modules/user/phone_login.go` | code and cooldown per number | issue, verify, resolve account | read-count-compare-delete in four commands; first sign-in in four statements | a code signs in once, within its attempts; one account per number |
| `modules/user/social.go`, `platform/oidc` | identities; cached provider keys | find, link or create account; fetch keys | find-then-create without a transaction; key rotation against a refresh interval | an identity leads to one account |
| `modules/user/login_limiter.go`, `middleware/ratelimit.go` | counters with expiry | allow, fail, reset | expiry between increment and read; Redis outage | a locked-out address stays locked for its window |
| `modules/notification`, `modules/devicetoken`, `platform/push` | inbox rows, registrations, broadcast history, cached access token | send, mark read, register, unregister | inbox, push, pruning and history in that order with no common transaction; eight workers | no half broadcast; nobody reached at a device they left |
| `modules/product`, `typeproduct`, `banner`, `event`, `cashier` with `platform/storage` | rows and remote pictures | create, edit, publish, delete | upload, write, discard: three systems; stale handle of the old picture | a row never points at a discarded picture; in-use rows stay |
| `modules/shop` | shop, pictures, staff and stock lists | create, edit, publish, delete, staff reads | lists replaced by delete and insert; partial forms | a form replaces what it carries and no more; a shop with orders stays |
| `modules/role`, `middleware/permission.go` | roles, catalogue, permission set of a role | create, rename, delete, replace, check | replacement against replacement; a guard that knows a role by its name; names in tokens that are older than the roles | what a role may do is what was decided; the root role keeps everything; a token opens its own role |
| `modules/voucher` | vouchers | create, edit, publish, delete | claimed and taken checks before the write; two discount types with columns of their own | claimed vouchers stay; one kind of discount |
| `platform/database` migrations | `schema_migrations` | migrate, baseline, pending | several runners and releases, no lock; baseline row by row | the history says what ran; success means current |
| `seed`, `cmd/seed` | fixtures in every table | upsert stages | running again over data that has moved on | fixtures keep their meaning |
| `modules/review` | `reviews` | publish, delete, lists for moderators and staff | a review whose product or order is gone | moderators reach every review |
| `modules/report`, `dashboard`, `health` | none | read-only queries | none | not modelled |
| `server`, `config`, `httpx`, `logging`, `cache` | none | wiring, parsing | none | not modelled |
| `cmd/backfill-images`, `cmd/seed-assets` | none of their own | run once, alone | none | not modelled |

How they meet: the order module reads `shop_cashiers`, which the shop module
writes; point adjustments need an account, which the cashier module can delete,
and share both tables with the seeder; every way to sign in ends in the same
`issueSession`, every request passes the session check, and the operators of
`modules/customer` sweep sessions; a broadcast reads accounts and device
registrations; products, types, banners, events, shops and cashiers share the
image store and refer to each other; the migrations and the seeder write the
catalogue of permissions and the grants that the role module replaces.
`PROJECT.json` lists the hazards line by line.

Composition: `Catalogue` EXTENDS the eight resource modules, which EXTEND
`Assets`; `Access` EXTENDS `Migrations`; `OrderService` and `SignIn` each
INSTANCE their abstract specification. Between the others only what one needs of
the other is kept: `OrderService` has assignments that may change at any time
(`Reassign`), `PointLedger` accounts that may disappear (`DeleteCashier`),
`SignIn` accounts that may be blocked or deleted (`Suspend`), `Catalogue` orders
and claims that may come in (`PlaceOrder`, `Claim`).

## Modules

### Orders: `OrderLifecycle`, `OrderAbstract`, `OrderService`

`OrderLifecycle` is `order/order.go`: the transition table, the filter by order
type, and which steps need a reason. `OrderAbstract` is what the service
promises: atomic legal moves, each with its audit row. `OrderService` is
`PUT /order/{id}/status` statement by statement (`Submit`, `LoadOrder`,
`Decide`, `GuardedUpdate`, `InsertAndCommit`, `ReloadOrder`, `Respond`), with
assignments that change under it (`Reassign`), failing statements
(`DatabaseError`), the process dying (`Crash`), and a customer who reads an
order and then its timeline (`OpenOrder`, `ReadTimeline`). `rowLock` is
PostgreSQL's row lock: the guarded `UPDATE` waits for it and then tests its
`WHERE` clause on the row as committed.

* `order_race`: two requests at the one point where the lifecycle forks between
  a search for a driver and cancellation. Checks that the status is explained by
  its trail, that recorded actors were assigned at some time, that 200 means
  recorded, that the service implements `OrderAbstract` (`ImplementsOrder`, a
  refinement by INSTANCE with the identity on both variables: two decisions on
  one status would be two moves from it, which `OrderAbstract` does not have),
  and that every request ends.
* `order_path`: one operator, one order of each type, all statuses including an
  unknown one, a reason that is too long, a customer following. Checks the rules
  that span several steps (`DeliveryRules`: a delivery completes only through
  DELIVERED, no cancellation once a driver is assigned, couriers for deliveries
  only), and that the timeline a customer sees covers the status they saw.
  Births include a late status so that the courier half is reached within the
  bounds.

Fairness (`order_race` only): a statement sent to the database returns (weak
fairness of a request's work) and a waiter gets the row lock in the end (strong
fairness of `GuardedUpdate`), because PostgreSQL queues the waiters of a row. No
fairness of clients, failures, crashes or reassignments is assumed.

### Points: `PointLedger`

`point/service.go` and `repository_gorm.go`. `ledger[u]` is the sum of the
in- and outflow rows, `cached[u]` is `user_points.total_points`, an int4 whose
end is the constant `MaxTotal`. A balance is read by two statements
(`ReadLedger`, `ReadCached`); an adjustment judges that balance and then runs
its transaction (`InsertRow`, `MoveTotal`, `Commit`). The seeder's stage
"points" writes the same tables in two statements and may die in between;
`DELETE /cashier/{id}/delete` makes accounts disappear.

* `points_race`: a customer and a cashier account, two requests, amounts that
  are negative, zero, legal and beyond the cap. Only the seeder changes the drift
  between cache and ledger; deductions in flight together overdraw by no more
  than one cap each (`OverdraftBounded`).

The guard "against a negative balance" is judged before the transaction, so two
deductions can both pass it: with `Balance(u) >= 0` in place of the bound, TLC
shows two of them overdrawing the ledger, and the bound itself is reached.

Seen while modelling, and not a property: `GET /user/{id}/point` can report a
drift that no account has when a commit falls between its two statements; and
seeding again after an adjustment resets the cache but not the ledger.

### Sessions: `Sessions`

`auth/session.go` with its callers in `user/service.go` and
`customer/service.go`. A token stands for the pair issued together. The five
kinds of requests are sequences of Redis commands and SQL statements, listed at
the head of the module; `MULTI`/`EXEC` pipelines are one step. Tokens age
(`Expire`), requests fail at any command, the process dies. `owner`, `cred`,
`parent`, `ended`, `lockedOut` and `gone` are history variables.

* `sessions_race`: two accounts, two requests. A rotated pair is dead in both
  halves, a logged-out access token is refused for good, nobody ends somebody
  else's session.
* `sessions_serial`: one request at a time, with failures and crashes. A blocked
  account has no session, a changed password ends those opened with the old one,
  a refresh token yields one successor.
* `sessions_retry` (violation): a block whose sweep failed is refused when
  retried, against the comment that the retry repeats the sweep.

Three promises do not survive every overlap of two requests (the theorems of
`Sessions_proofs` say which overlaps those are). A sign-in in flight while the
account is blocked checks the status (`user/service.go:225`) before the sweep and
writes its record after it, although "every session the account holds is revoked"
(`customer/service.go:70`); set `Requests = {r1, r2}` in `sessions_serial.cfg` to
see it. A refresh in flight escapes a change of password in the same way. Two
refreshes read one record before either deletes it, and both succeed.

### Addresses: `CustomerAddress`

`customeraddress/repository_gorm.go` with its service. `saved` are the rows that
are committed and not deleted, `defaults` those with the flag; what an open
transaction inserted, removed, promoted or demoted is in its request until
`Commit`. An `UPDATE` by `is_default = true` finds its rows when it starts
(`ScanDefaults`) and tests them again under their locks (`DemoteDefaults`); a
row that gained the flag in between is not found. `overlapped` remembers the
customers who had two requests in flight at once.

* `addresses_race`: two customers, two requests, up to three rows, a cap of two.
  As long as a customer's own requests do not overlap they have exactly one
  default while they have an address at all, stay within the cap
  (`BookInOrderUnlessOverlapped`) and keep the fields an edit did not send; and
  nobody's step ever touches a row of somebody else, overlapping or not.

The exception is needed: two first creates both count zero rows
(`customeraddress/repository_gorm.go:120`) and both commit the flag, which lines
129-131 say cannot happen.

`PostgreSQL` locks the rows of an `UPDATE` one by one; the model locks them in
one step. Two `SetDefault`s of one customer can then only deadlock in addition,
which ends one of them like `Fail` does. With overlapping requests the cap can
be passed too: creates count before each other's commit.

### Broadcasts: `Broadcast`

`notification/service.go` (`Send`, `deliver`), the registrations of
`devicetoken`, and `platform/push/fcm.go`. A send resolves its audience
(`Resolve`), writes the inbox in one transaction of batches (`InsertBatch`,
`Commit`, whose answer may be lost), loads the devices, and pushes: the sending
goroutine asks for the access token, starts workers as slots allow (`Spawn`),
gives up when its caller is gone (`GiveUp`), waits for them (`Finish`), prunes
what FCM called gone, and files the history entry. The access token sits behind
a mutex that whoever finds it stale holds across the exchange (`StartMint`,
`EndMint`). Meanwhile apps register, unregister and are removed, the token
expires, the process dies. `due` (everybody who matched) and `signedIn` (whom
the app last registered a device for) are history variables; `gone` and
`reached` are the world outside. `Resolve` may return any set of accounts, as
neither the audience nor the status of accounts is this module's to decide.

* `broadcast`: one send, three accounts against a limit of two, batches of one,
  three devices, two workers. The inbox is whole or empty wherever the send
  stops; a history entry counts what happened; a device is listed for whoever
  signed in on it last, and for nobody after their sign-out; the send ends.

`Oversized` sends pass the length checks, which count runes, and exceed the 4096
bytes FCM takes. Its 400 is read as a dead registration (`fcm.go:301-304`), and
with `Oversized = {b1}` TLC shows live devices losing theirs. The run and the
theorem are about the sends that fit.

Fairness (`broadcast` only): weak fairness of what a send's own goroutines can
do. The database, FCM and the token endpoint answer or time out (the HTTP client
has a timeout), and each goroutine asks for the mutex once per message, so a
waiter cannot be overtaken for ever. Deadlock checking is off in this run
because everything may have been sent and every restless device removed.

An answer FCM gave and the caller did not get counts as a failure (`PostLost`):
`sent` in the history is a lower bound, which is all `HistoryHonest` claims. A
cancelled request also loses its history entry and its pruning, because both use
the request's context.

### Sign-in: `SignInAbstract`, `SignIn`

`SignInAbstract` is the promise of every way in: a key (a number, a subject of
Google or Apple, an address with a password) belongs to the first account that
gets it, for ever, and whoever proves the key enters that account and no other.
`SignIn` is the code: `platform/otp/store.go` command by command (`ReadCode`,
`CountAttempt`, `Burn`, `Mismatch`, `Consume`), the resolution of a number or a
verified identity to an account (`FindIdentity`, `FindByPhone`, `FindByEmail`,
`CreateAccount`, `Link`), registration, the password path with its limiter
(`AllowLogin`, `FindLogin`, `ResetLogins`), and the session at the end. Codes,
cooldowns and counters expire between any two steps, accounts are blocked and
deleted (`Suspend`), requests fail anywhere. `owner` of the abstract module is
mapped to `user_identities`, and for passwords to the account itself.

* `signin`: two requests of any kind; one number, one address, and three subjects
  whose address is verified, reported but unverified, or hidden; a limit of one
  guess. A code that no two requests checked at once is spent once; no code is
  compared with more guesses than its limit (the counter is incremented before
  the comparison); a counter that outlives its code (`HINCRBY` on an expired
  hash makes one without expiry) holds nothing that could be accepted; an
  address nobody vouched for never opens somebody else's account; and the
  service implements `SignInAbstract` (`OneAccountPerKey`, refinement by
  INSTANCE ... WITH).

Seen while modelling: "so it cannot be replayed" (`otp/store.go:87-88`) does not
hold for two verifications that both read the code before either deletes it
(`DEL` is not looked at); both sign in, to the same account. A failure between
`CreateAccount` and `Link` leaves an account without identity: the next phone
sign-in adopts it; a social one links it by its address if that is verified, is
refused if not, and starts afresh if there is none.
`social.go:39` answers 503 when keys cannot be fetched, but
`oidc/verifier.go:128-130` wraps that as an invalid token, which is answered 401.

Slots are used once: an account or a code is named after the request that made
it. A third slot multiplies the states by more than the time there is; every race
listed is between two, and the proofs cover any number.

### Catalogue: `Assets`, one module per resource, `Catalogue`

`Assets` has what the six resources with pictures share and vouchers and reviews
use without: a form, the check of a name, uploads (`Upload`, `UploadFails`), the
write, the read for the answer (`Reread`), and the best-effort discards of the
error path (`Undo`) and of what was replaced (`Drop`). `rows` are the tables with
what their child tables hold; `stored` is what the image provider keeps; nothing
ties the two but the order of the steps. `Product`, `TypeProduct`, `Banner`,
`Event`, `Shop`, `Cashier`, `Voucher` and `Review` add what is their own: which
forms a handler lets through, what is checked first, what a write replaces, and
what a delete takes with it. `Catalogue` interleaves them with customers who
order and claim.

* `catalogue`: two requests, on one resource or on two that refer to each other.
  A screen shows no picture that is gone (`PicturesExist`); no picture is left
  that nobody will ever see or discard (`NothingStranded`); names are unique
  (`NamesUnique`); what is in use stays (`NeededStays`); events and vouchers have
  one kind of children (`OneKindOfChildren`); what describes a row goes with it
  (`NothingOutlives`); an edit replaces what its form carried (`PartialEdits`).
  Each names the overlap or failure without which it fails, in a history
  variable: `leaked` (a crash or a failed discard), `contested` (two writers),
  `crowded` (two checks), `blamed` (a failed read of the answer).

Seen while modelling: when a write commits and the read for the answer fails, the
handler takes it for a failed write and discards the pictures the row now shows
(product/service.go:151, and alike in the others), which is the exception
`blamed`. `storage/reaper.go:25-26` says a failed discard leaves an asset that
"an operator can find"; only the log names it. `cashier/service.go:195` speaks of
a "now-freed" address, while the unique index spans deleted accounts too. No index
backs the uniqueness of voucher codes: two creates with one code both commit.

### Roles, permissions, migrations: `Migrations`, `Access`

`Migrations` is `platform/database/migrate.go`: runs of `migrate`,
`migrate -baseline` and `seed -migrate`, each from a release of its own, reading
the history once and then applying file by file. `built` is what a version's
tables came from, `ledger` is `schema_migrations`. `Access` adds roles, the
catalogue of permissions that one migration inserts, grants, the stages of the
seeder that repair them, role requests, and tokens that carry the name of a role.
A row of `grants` says who inserted it, because PostgreSQL's `DELETE` waits for
the rows it found (`Clear`, `Lock`) and passes over those that came since.

* `backoffice`: two commands, or one beside two role requests, from three
  releases (fresh, edited, newer), on an empty, an auto-migrated or a running
  database. The history is honest (`LedgerHonest`), success means current
  (`DoneMeansCurrent`), some command can always go on unless a baseline stopped
  short (`Recoverable`); a role holds what was decided for it unless two decided
  at once; superadmin keeps everything; a token opens what its own role may do.
* `role_replace` (violation): without "unless two decided at once", against
  permission_service.go:54-56: two replacements leave the union of both sets.

Seen while modelling: `Baseline` records every version of its release, also those
`AutoMigrate` never built, and after one that died half-way neither a migration
nor a second baseline goes through (`left`). The guard of the superadmin role
compares the name the role had when it was loaded; a replacement admitted under
another name is not stopped by a rename, and renaming superadmin locks the routes
that ask for it by spelling (`RequireRole`). `Replace` answers with the codes it
was sent, also when the catalogue is empty and nothing was stored.

## Bounds, and why they are enough

| bound | value | why |
|---|---|---|
| request slots | 2 in the races, 1 in `order_path`, `sessions_serial`, `sessions_retry` | every hazard listed is about two requests; one slot runs the same code without overlap |
| orders, accounts, customers | 1 or 2 | rows of different owners meet only in scope checks, for which there are two |
| `Tokens` | 2, 3 in `sessions_serial` | a session, its successor, and one opened meanwhile |
| `MaxTotal`, `MaxEntries`, amounts | 3; 2; -1, 0, 2, 3 with a cap of 2 | the end of the column is reached by two adjustments, the cap by one |
| `MaxVersion`, `MaxActions` | 1; 2 | one change of password; a block and its reversal |
| `Sends`, `Devices`, `Restless`, `AtStart` | 1; 3; one of them; registered for two accounts | contention for slots and mutex is between the workers of one send; one device moves while two fill the slots |
| `MaxRecipients`, `BatchSize`, `Concurrency` | 2; 1; 2 | an audience above the limit, two batches, more devices than slots |
| `LastAddress`, `MaxPerUser`, `LastEdited` | 3; 2; 1 | a deletion with a survivor, a refusal at the cap |
| `Phones`, `Emails`, `Subjects` | 1; 1; 3 | contention is for one key; the subjects differ in what the provider says of the address |
| `MaxAttempts`, `MaxLogins` | 1; 1 | the second guess, or failure, is the one too many |
| `Names`, `Together` of `Catalogue` | 2; seven sets of resources | a free and a taken name; each resource against itself and what it refers to |
| `Runners`, `Releases`, `Last`, `Skips` | 2; 3; 2; none or one stage | a release that is older, newer, or differs in a file that ran |
| `Names`, `Codes`, `Submitted`, `Accounts`, `Together` of `Access` | two names in two spellings; 2; five sets; 2; two commands or one with two requests | capitals, the root role and another, a full, a partial, an empty and an unknown set |

In `Sessions`, `PointLedger`, `OrderService` and `CustomerAddress` request slots
are reused, so behaviours are unbounded in length; in `SignIn`, `Catalogue`,
`Access` and `Broadcast` every slot serves one request, because what it creates is
named after it. Those runs end when everybody has been served, and only they have
deadlock checking off. Symmetry is declared where no liveness is checked and the
slots, tokens or customers are interchangeable.

## What is proved

For all values of the constants, from the `ASSUME`s of the modules only:

* **`OrderService_proofs`.** `LockInv` (a request that updated a row holds its
  lock and the row still has the status it decided on) and `RulesInv` (what a
  request past `Decide` may ask for) strengthen the type invariant; neither the
  trail nor the refinement is inductive without them, as the step that writes is
  not the step that decides. From them: `TypeCorrect`, `ServiceImplementsOrder`
  (every commit is a move of `OrderAbstract`, every other step a stutter),
  `TrailExplainsStatus`, and `AtMostOneWinner`. The last rests on `RankGrows`:
  a status is never revisited, so comparing statuses in the `WHERE` clause is as
  good as comparing versions. Who moved an order (`ActorsWereAssigned`), what 200
  stands for (`OkIsRecorded`), what a customer is shown (`TimelineCovers`) and the
  rules over a whole life (`LifelongRules`) each need what was true when a
  request last looked to be still on record when it writes or answers. It is,
  because trails only grow (`TrailGrows`); `ActorsInv`, `ToldInv`, `WatchInv` and
  `Rules` say what each kind of reader took away.
* **`PointLedger_proofs`.** `Computed` (the total a transaction is about to
  publish is the committed one plus its own row, since it holds the lock) gives
  `TypeCorrect`, `LocksAreHeld` and, as an action property, `AdjustKeepsDrift`.
  `OverdraftIsBounded` is about the sum of what requests in flight may spend, and
  needs no sum: `Backed` says that the balance covers the spending request that
  read the ledger last, apart from one cap for each request that is not spending
  any more and could have come in between, or, when there is no such reader, one
  cap fewer. A request enters by reading a balance that covers it, and a commit
  takes away at most a cap and one spending request. That there is a request, and
  finitely many, is a hypothesis: with none the bound would be above zero.
* **`Sessions_proofs`.** `FlightOK` says what a request knows at each stage of
  the token it holds, `Ages` that tokens only ever lose strength. From them
  `TypeCorrect`, `RotatedIsDead`, `LoggedOutIsOut`, `AuditsAlternate`,
  `OthersKeep`.
  The three promises that overlaps break are proved of every behaviour without
  those overlaps, and of no fewer: `RefreshedOnce` if no two refreshes of one
  token are past the reading of its record (`OneRefresh`); `BlockEndsSessions` if
  no session is opened by a request that already found its account while another
  one ends the account's sessions (`Apart`); `PasswordChangeEnds` if besides no
  two changes of one password are both past the comparison (`OnePassword`). TLC
  violates each promise when its hypothesis is dropped and two requests are
  allowed. Failures, crashes, expiry and all other overlaps are covered, and
  `OneAtATime` is the special case the serial run checks. The core is `Swept`:
  every record of an account is in its index, and a sweep past `listing` has
  them all in its hands.
* **`Broadcast_proofs`.** `WholeFor` says what the inbox holds at each stage of a
  send; it needs that a page no longer than the limit is everybody who matched
  (`PageIsWhole`). With the types it gives `TypeCorrect` (semaphore and mutex
  included) and `InboxIsWhole`. `Pruned`, that only installations that are gone
  are on a list to delete, gives `RegistrationsFollow` under the hypothesis that
  no message is oversized, which is needed. `HistoryIsHonest` counts without
  summing: `Counted` relates the two counters of a send to the set of its workers
  that are done, from the first worker to the entry, and the entry copies them.
* **`SignIn_proofs`.** `SInv` adds to the types what each stage knows
  (`StageInv`), how often a code was counted, compared and spent and who still
  holds it (`CodeHalf`), and who owns an account, an address and an identity
  (`AccountHalf`). None of the properties is inductive alone: a guess is counted
  in one step and compared in another, and an account is created in one
  statement and linked in another. From it: `TypeCorrect`, `CodesSpentOnce`,
  `GuessesAreBounded`, `CodesExpire`, `LinkingProven`, `AddressesAreUnique`, and
  `OneAccount`, the refinement of `SignInAbstract`.
* **`CustomerAddress_proofs`.** `Shape` says which rows a request can have in its
  hands at its stage, `Holds` that those are locked by it and its customer's own,
  `Knows` that what it read is still so while the customer never overlapped.
  `InOrder` alone is not inductive: a commit applies what was counted, chosen and
  scanned several statements earlier (`CommitInOrder`), and the commits of other
  customers keep all of it (`Stepped`). From them: `TypeCorrect`, `BookKept`,
  `OthersKept`, `FieldsStay`, for any number of customers, rows and requests and
  any cap.
* **`Access_proofs`.** `HistoryCorrect` and the invariants of `Migrations` are
  proved of its own specification and carried over, because every step of
  `Access` is one of `Migrations` or leaves its variables alone. Those of the
  grants need what a replacement saw and still has to delete. From them:
  `LedgerIsHonest`, `SuccessIsCurrent`, `StaysRecoverable`, `GrantsAreChosen`,
  `SuperAdminKept`, `NamesAreUnique`, `AdmittedByOwn`.
* **`Catalogue_proofs`.** The steps of eight resources come down to six things a
  request can do (`Effect`: arrive, proceed, quit, write, remove, set a status),
  and for pictures to nine (`Deals`). `Shape` says what a row of each resource
  looks like and what a request knows at its stage; it gives `CatalogueTyped`,
  `EditsArePartial` and `ChildrenOfOneKind`. The others need one invariant each:
  `NamesInv` (a name once checked is free until it is written, or two checked at
  once), `NeededInv` and `OutlivesInv` (what a delete has looked at is still so
  when it writes, or is `crowded` or `contested`), `PicturesInv` (what a request
  uploaded is its own until it commits, and what it is about to discard no row
  shows), `StrandedInv` (a stored picture has a row or a request that owes it
  something). From them `NamesStayUnique`, `NeededIsKept`, `NothingIsOutlived`,
  `PicturesStay`, `NoPictureStranded`, for any number of requests, any names and
  any sets of resources worked on at once; there must be a name.

Only model-checked: liveness (`EveryRequestEnds`, `EverySendEnds`), because
fairness is out of the prover's reach. The two runs that expect a violation are
about sentences that the code does not keep, of which there is nothing to prove.
Every other property of a run is stated by a theorem.

## Not modelled

* Read-only modules (`report`, `dashboard`, `health`), list filters and pickers:
  no state changes, one statement each.
* Wiring, configuration, parsing and formatting (`server`, `config`, `httpx`
  apart from forms, `logging`).
* `cmd/backfill-images` and `cmd/seed-assets`: run once and alone. The seeder's
  stages that upsert fixtures by fixed ids.
* The per-route rate limiter (`middleware/ratelimit.go`): one atomic counter that
  nothing else reads. The key cache of `platform/oidc`: who may sign in does not
  depend on which keys are cached, only whether they are told 401 or 503.
* `MarkRead`, `MarkAllRead` and the editing of one's own name: single statements
  scoped to their owner.
* What PostgreSQL, Redis, FCM and the image provider do inside is external, as
  are the clients; their failures are in the models.
