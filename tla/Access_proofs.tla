---------------------------- MODULE Access_proofs ----------------------------
(***************************************************************************)
(* Proofs about Migrations and Access, for any number of commands,         *)
(* requests, releases, roles and accounts.  First the history of the       *)
(* schema, which the rest of the back office leaves to Migrations; then    *)
(* the roles, their permissions and whom a token lets through.             *)
(***************************************************************************)
EXTENDS Access, TLAPS

-----------------------------------------------------------------------------
(* The history of the schema                                               *)

\* AutoMigrate built the first tables or none.
AutoFromTheStart == \A v \in Versions : built[v] = AutoMigrated => built[1] = AutoMigrated

\* What a command believes is still so: rows of the ledger are never changed,
\* and what it has gone through is recorded as its release has it.
RunInv(p) ==
  /\ run[p].at # "idle" => run[p].files \in Releases /\ run[p].pos <= Len(run[p].files) + 1
  /\ run[p].at \in {"reading", "inspecting"} => run[p].pos = 1
  /\ run[p].at = "recording" => run[p].mode = "baseline"
  /\ \A v \in Versions : run[p].seen[v] # None => ledger[v] = run[p].seen[v]
  /\ run[p].at \in {"applying", "recording"} =>
       \A v \in 1..(run[p].pos - 1) : ledger[v] = run[p].files[v]

MInv ==
  /\ MigrationsTypeOK
  /\ AutoFromTheStart
  /\ LedgerHonest
  /\ DoneMeansCurrent
  /\ Recoverable
  /\ \A p \in Runners : RunInv(p)

LedgerGrows == \A v \in Versions : ledger[v] # None => ledger'[v] = ledger[v]

LEMMA VersionFacts ==
  /\ Last \in Nat \ {0}
  /\ 1 \in Versions /\ Versions \subseteq Int
  /\ None # AutoMigrated
  /\ \A files \in Releases : Len(files) \in Versions
       /\ \A v \in 1..Len(files) : files[v] \in Checksums /\ files[v] # None /\ v \in Versions
  <1>1. Last \in Nat \ {0} /\ 1 \in Versions /\ Versions \subseteq Int
    BY ReleasesOrdered DEF Versions
  <1>2. None # AutoMigrated
    BY DEF None, AutoMigrated
  <1>3. ASSUME NEW files \in Releases
        PROVE  /\ Len(files) \in Versions
               /\ \A v \in 1..Len(files) : files[v] \in Checksums /\ files[v] # None /\ v \in Versions
    <2>1. files \in Seq(Checksums) /\ Len(files) \in Versions /\ None \notin Checksums
      BY ReleasesOrdered
    <2> QED
      BY <2>1, <1>1 DEF Versions
  <1> QED
    BY <1>1, <1>2, <1>3

LEMMA RunType ==
  ASSUME MigrationsTypeOK, NEW p \in Runners
  PROVE  /\ run[p].at \in RunStage /\ run[p].mode \in Modes \cup {None}
         /\ run[p].files \in Releases \cup {<<>>}
         /\ run[p].seen \in [Versions -> Checksums \cup {None}]
         /\ run[p].pos \in 1..(Last + 1) /\ run[p].skip \in SUBSET SeedStages
         /\ run[p].pos \in Int
  BY VersionFacts DEF MigrationsTypeOK, Run

LEMMA RunsOnFrame ==
  ASSUME MigrationsTypeOK, NEW p \in Runners, NEW s \in RunStage, RunsOn(p, s)
  PROVE  /\ run' \in [Runners -> Run] /\ run'[p].skip = run[p].skip
         /\ run'[p].at = s /\ run'[p].files = run[p].files /\ run'[p].seen = run[p].seen
         /\ run'[p].pos = run[p].pos /\ run'[p].mode = run[p].mode
         /\ \A q \in Runners \ {p} : run'[q] = run[q]
  <1>1. run' = [run EXCEPT ![p] = [run[p] EXCEPT !.at = s]]
    BY DEF RunsOn
  <1>2. run[p] \in Run /\ run \in [Runners -> Run]
    BY DEF MigrationsTypeOK
  <1>3. [run[p] EXCEPT !.at = s] \in Run
    BY <1>2 DEF Run
  <1> QED
    BY <1>1, <1>2, <1>3 DEF Run

LEMMA NextFileFrame ==
  ASSUME MigrationsTypeOK, NEW p \in Runners, More(p), run[p].files \in Releases,
         run' = [run EXCEPT ![p].pos = @ + 1]
  PROVE  /\ run' \in [Runners -> Run]
         /\ run'[p].at = run[p].at /\ run'[p].files = run[p].files
         /\ run'[p].seen = run[p].seen /\ run'[p].pos = run[p].pos + 1
         /\ run'[p].mode = run[p].mode
         /\ \A q \in Runners \ {p} : run'[q] = run[q]
  <1>1. run' = [run EXCEPT ![p] = [run[p] EXCEPT !.pos = run[p].pos + 1]]
    OBVIOUS
  <1>2. run[p] \in Run /\ run \in [Runners -> Run]
    BY DEF MigrationsTypeOK
  <1>3. run[p].pos + 1 \in 1..(Last + 1)
    BY RunType, VersionFacts DEF More, Files, Versions
  <1>4. [run[p] EXCEPT !.pos = run[p].pos + 1] \in Run
    BY <1>2, <1>3 DEF Run
  <1> QED
    BY <1>1, <1>2, <1>4 DEF Run

\* A command that does nothing keeps what it believes.
LEMMA RunKept ==
  ASSUME MInv, LedgerGrows, NEW q \in Runners, run'[q] = run[q]
  PROVE  RunInv(q)'
  <1>1. RunInv(q)
    BY DEF MInv
  <1>2. run[q].seen \in [Versions -> Checksums \cup {None}] /\ run[q].pos \in Int
    BY RunType DEF MInv
  <1>3. run[q].at \in {"applying", "recording"} =>
          \A v \in 1..(run[q].pos - 1) : ledger[v] # None /\ v \in Versions
    <2> SUFFICES ASSUME run[q].at \in {"applying", "recording"}, NEW v \in 1..(run[q].pos - 1)
                 PROVE  ledger[v] # None /\ v \in Versions
      OBVIOUS
    <2>1. /\ run[q].files \in Releases /\ run[q].pos <= Len(run[q].files) + 1
          /\ ledger[v] = run[q].files[v]
      BY <1>1 DEF RunInv
    <2>2. v \in 1..Len(run[q].files)
      BY <1>2, <2>1, VersionFacts
    <2> QED
      BY <2>1, <2>2, VersionFacts
  <1> QED
    BY <1>1, <1>2, <1>3 DEF RunInv, LedgerGrows

\* A step of one command that leaves the database alone and claims nothing
\* that is not so.
LEMMA QuietStep ==
  ASSUME MInv, NEW p \in Runners, UNCHANGED <<built, ledger>>,
         run' \in [Runners -> Run], \A q \in Runners \ {p} : run'[q] = run[q],
         RunInv(p)',
         run'[p].at \in {"done"} \cup SeedStages =>
            \A v \in 1..Len(run'[p].files) : ledger[v] = run'[p].files[v],
         adopted' = adopted, left \subseteq left', left' \subseteq Versions,
         Running(p, "recording") =>
            \/ run'[p].at = "recording" /\ run'[p].pos = run[p].pos
            \/ \A v \in Versions : v >= run[p].pos => v \in left'
  PROVE  MInv'
  <1>1. MigrationsTypeOK'
    BY DEF MInv, MigrationsTypeOK
  <1>2. AutoFromTheStart' /\ LedgerHonest'
    BY DEF MInv, AutoFromTheStart, LedgerHonest
  <1>3. DoneMeansCurrent'
    BY DEF MInv, DoneMeansCurrent, Files
  <1>4. Recoverable'
    <2> SUFFICES ASSUME ledger # Nothing, NEW v \in Versions, built[v] = AutoMigrated, ledger[v] = None,
                        v \notin left'
                 PROVE  \E q \in Runners : Running(q, "recording")' /\ v >= run'[q].pos
      BY DEF Recoverable, Nothing
    <2>1. PICK q \in Runners : Running(q, "recording") /\ v >= run[q].pos
      BY DEF MInv, Recoverable, Nothing
    <2>2. q \in Runners /\ q # p => run'[q] = run[q]
      OBVIOUS
    <2> QED
      BY <2>1, <2>2 DEF Running
  <1>5. \A q \in Runners : RunInv(q)'
    BY RunKept DEF LedgerGrows
  <1> QED
    BY <1>1, <1>2, <1>3, <1>4, <1>5 DEF MInv

\* Below the position of a command at work the ledger is filled.
LEMMA FilledBelow ==
  ASSUME MInv, NEW p \in Runners, run[p].at \in {"applying", "recording"}
  PROVE  /\ \A v \in Versions : ledger[v] = None => v >= run[p].pos
         /\ run[p].files \in Releases
         /\ More(p) => run[p].pos \in Versions /\ Sum(p) \in Checksums /\ Sum(p) # None
  <1>1. RunInv(p) /\ run[p].pos \in Int /\ run[p].files \in Releases
    BY RunType DEF MInv, RunInv
  <1>2. run[p].pos >= 1
    BY RunType DEF MInv
  <1>3. \A v \in 1..(run[p].pos - 1) : ledger[v] # None
    BY <1>1, VersionFacts DEF RunInv
  <1>4. \A v \in Versions : ledger[v] = None => v >= run[p].pos
    BY <1>1, <1>3 DEF Versions
  <1> QED
    BY <1>1, <1>2, <1>4, VersionFacts DEF More, Sum, Files

LEMMA StartKeeps == ASSUME MInv, NEW p \in Runners, StartRun(p) PROVE MInv'
  <1>1. PICK mode \in Modes, files \in Releases, skip \in Skips :
          run' = [run EXCEPT ![p] = [at |-> "reading", mode |-> mode, files |-> files,
                                     seen |-> Nothing, pos |-> 1, skip |-> skip]]
    BY DEF StartRun
  <1> DEFINE started == [at |-> "reading", mode |-> mode, files |-> files,
                         seen |-> Nothing, pos |-> 1, skip |-> skip]
  <1>2. /\ started \in Run /\ started.at = "reading" /\ started.pos = 1
        /\ started.files = files /\ started.seen = Nothing
    <2>3. skip \in SUBSET SeedStages /\ "reading" \in RunStage
      BY ReleasesOrdered DEF RunStage
    <2>4. 1 \in 1..(Last + 1) /\ Nothing \in [Versions -> Checksums \cup {None}]
      BY VersionFacts DEF Nothing
    <2> QED
      BY <2>3, <2>4 DEF Run
  <1>3. run \in [Runners -> Run]
    BY DEF MInv, MigrationsTypeOK
  <1>4. /\ run' \in [Runners -> Run] /\ run'[p] = started
        /\ \A q \in Runners \ {p} : run'[q] = run[q]
    BY <1>1, <1>2, <1>3
  <1>5. Len(files) \in Nat
    BY VersionFacts DEF Versions
  <1> HIDE DEF started
  <1>6. RunInv(p)'
    <2>1. \A v \in Versions : run'[p].seen[v] = None
      BY <1>2, <1>4 DEF Nothing
    <2>2. run'[p].files \in Releases /\ run'[p].pos <= Len(run'[p].files) + 1
      BY <1>2, <1>4, <1>5
    <2> QED
      BY <1>2, <1>4, <2>1, <2>2 DEF RunInv
  <1>7. left \subseteq Versions
    BY DEF MInv, MigrationsTypeOK
  <1> QED
    BY <1>2, <1>4, <1>6, <1>7, QuietStep DEF StartRun, Running, SeedStages

LEMMA ReadKeeps == ASSUME MInv, NEW p \in Runners, ReadLedger(p) PROVE MInv'
  <1> DEFINE to == IF ledger = Nothing THEN "inspecting"
                   ELSE IF run[p].mode = "baseline" THEN "failed" ELSE "applying"
             now == [run[p] EXCEPT !.seen = ledger, !.at = to]
  <1>1. run' = [run EXCEPT ![p] = now] /\ run[p].at = "reading"
    BY DEF ReadLedger, Running
  <1>2. run[p] \in Run /\ run \in [Runners -> Run] /\ ledger \in [Versions -> Checksums \cup {None}]
    BY DEF MInv, MigrationsTypeOK
  <1>3. to \in {"inspecting", "failed", "applying"} /\ to \in RunStage /\ to \notin {"done"} \cup SeedStages
    BY DEF RunStage, SeedStages
  <1>4. /\ now \in Run /\ now.at = to /\ now.seen = ledger /\ now.pos = run[p].pos
        /\ now.files = run[p].files
    <2> HIDE DEF to
    <2> QED  BY <1>2, <1>3 DEF Run
  <1>5. /\ run' \in [Runners -> Run] /\ run'[p] = now
        /\ \A q \in Runners \ {p} : run'[q] = run[q]
    <2> HIDE DEF now
    <2> QED  BY <1>1, <1>2, <1>4
  <1>6. RunInv(p) /\ run[p].pos = 1 /\ run[p].files \in Releases /\ run[p].pos <= Len(run[p].files) + 1
    BY <1>1 DEF MInv, RunInv
  <1> HIDE DEF now, to
  <1>7. RunInv(p)'
    <2>1. \A v \in Versions : run'[p].seen[v] = ledger'[v]
      BY <1>4, <1>5 DEF ReadLedger
    <2> QED
      BY <1>3, <1>4, <1>5, <1>6, <2>1 DEF RunInv
  <1>8. left \subseteq Versions
    BY DEF MInv, MigrationsTypeOK
  <1> QED
    BY <1>1, <1>3, <1>4, <1>5, <1>7, <1>8, QuietStep DEF ReadLedger, Running

\* What a stage may become when nothing has been checked for it.
LEMMA InspectKeeps == ASSUME MInv, NEW p \in Runners, Inspect(p) PROVE MInv'
  <1> DEFINE to == IF built[1] # None
               THEN IF run[p].mode = "baseline" THEN "recording" ELSE "failed"
               ELSE IF run[p].mode = "baseline" THEN "failed" ELSE "applying"
  <1>1. RunsOn(p, to) /\ run[p].at = "inspecting"
    BY DEF Inspect, Running
  <1>2. /\ to \in RunStage /\ to \in {"recording", "failed", "applying"}
        /\ to \notin {"done"} \cup SeedStages
        /\ to = "recording" => run[p].mode = "baseline"
    BY DEF RunStage, SeedStages
  <1> HIDE DEF to
  <1>3. /\ run' \in [Runners -> Run] /\ \A q \in Runners \ {p} : run'[q] = run[q]
        /\ run'[p].at = to /\ run'[p].files = run[p].files /\ run'[p].seen = run[p].seen
        /\ run'[p].pos = run[p].pos /\ run'[p].mode = run[p].mode
    BY <1>1, <1>2, RunsOnFrame DEF MInv
  <1>4. RunInv(p) /\ run[p].pos = 1
    BY <1>1 DEF MInv, RunInv
  <1>5. RunInv(p)'
    BY <1>1, <1>2, <1>3, <1>4 DEF RunInv, Inspect
  <1>6. left \subseteq Versions
    BY DEF MInv, MigrationsTypeOK
  <1> QED
    BY <1>1, <1>2, <1>3, <1>5, <1>6, QuietStep DEF Inspect, Running

LEMMA SkipKeeps == ASSUME MInv, NEW p \in Runners, Skip(p) PROVE MInv'
  <1>0. left \subseteq Versions /\ MigrationsTypeOK
    BY DEF MInv, MigrationsTypeOK
  <1>1. /\ run[p].at = "applying" /\ More(p) /\ run[p].pos \in Versions /\ RunInv(p)
        /\ run[p].files \in Releases
    BY FilledBelow DEF Skip, Running, MInv
  <1>2. CASE run[p].seen[run[p].pos] = Sum(p)
    <2>1. run' = [run EXCEPT ![p].pos = @ + 1]
      BY <1>2 DEF Skip
    <2>2. /\ run' \in [Runners -> Run]
          /\ run'[p].at = run[p].at /\ run'[p].files = run[p].files
          /\ run'[p].seen = run[p].seen /\ run'[p].pos = run[p].pos + 1
          /\ run'[p].mode = run[p].mode
          /\ \A q \in Runners \ {p} : run'[q] = run[q]
      BY <1>0, <1>1, <2>1, NextFileFrame
    <2>3. ledger[run[p].pos] = run[p].files[run[p].pos]
      BY <1>1, <1>2 DEF Skip, RunInv, Sum, Files
    <2>4. run[p].pos \in Int
      BY <1>1, VersionFacts
    <2>5. \A v \in 1..run[p].pos : v = run[p].pos \/ v \in 1..(run[p].pos - 1)
      BY <2>4
    <2>6. run'[p].pos <= Len(run'[p].files) + 1
      BY <1>1, <2>2, <2>4, VersionFacts DEF More, Files
    <2>7. \A v \in 1..(run'[p].pos - 1) : ledger'[v] = run'[p].files[v]
      BY <1>1, <2>2, <2>3, <2>4, <2>5 DEF RunInv, Skip
    <2>8. RunInv(p)'
      BY <1>1, <2>2, <2>6, <2>7 DEF RunInv, Skip
    <2> QED
      BY <1>0, <1>1, <2>2, <2>8, QuietStep DEF Skip, Running, SeedStages
  <1>3. CASE run[p].seen[run[p].pos] # Sum(p)
    <2>1. RunsOn(p, "failed")
      BY <1>3 DEF Skip, RunsOn
    <2>2. /\ run' \in [Runners -> Run] /\ \A q \in Runners \ {p} : run'[q] = run[q]
          /\ run'[p].at = "failed" /\ run'[p].files = run[p].files /\ run'[p].seen = run[p].seen
          /\ run'[p].pos = run[p].pos /\ run'[p].mode = run[p].mode
      BY <1>0, <2>1, RunsOnFrame DEF RunStage
    <2>3. RunInv(p)'
      BY <1>1, <2>2 DEF RunInv, Skip
    <2> QED
      BY <1>0, <1>1, <2>2, <2>3, QuietStep DEF Skip, Running, SeedStages
  <1> QED
    BY <1>2, <1>3

LEMMA FinishKeeps == ASSUME MInv, NEW p \in Runners, Finish(p) PROVE MInv'
  <1> DEFINE to == IF run[p].mode = "seed" THEN "roles" ELSE "done"
  <1>1. /\ RunsOn(p, to) /\ run[p].at \in {"applying", "recording"} /\ ~More(p)
        /\ to \in RunStage /\ to \in {"done"} \cup SeedStages
        /\ to \notin {"idle", "reading", "inspecting", "applying", "recording"}
    BY DEF Finish, Running, RunStage, SeedStages
  <1> HIDE DEF to
  <1>2. /\ run' \in [Runners -> Run] /\ \A q \in Runners \ {p} : run'[q] = run[q]
        /\ run'[p].at = to /\ run'[p].files = run[p].files /\ run'[p].seen = run[p].seen
        /\ run'[p].pos = run[p].pos /\ run'[p].mode = run[p].mode
    BY <1>1, RunsOnFrame DEF MInv
  <1>3. RunInv(p) /\ run[p].files \in Releases /\ run[p].pos \in Int
    BY <1>1, RunType DEF MInv, RunInv
  <1>4. RunInv(p)'
    BY <1>1, <1>2, <1>3 DEF RunInv, Finish
  <1>5. \A v \in 1..Len(run'[p].files) : ledger[v] = run'[p].files[v]
    <2>1. Len(run[p].files) \in Int /\ Len(run[p].files) < run[p].pos
      BY <1>1, <1>3, VersionFacts DEF More, Files
    <2> QED
      BY <1>1, <1>2, <1>3, <2>1 DEF RunInv
  <1>6. left \subseteq left' /\ left' \subseteq Versions
    <2>1. left \subseteq Versions /\ run[p].pos \in 1..(Last + 1)
      BY RunType DEF MInv, MigrationsTypeOK
    <2>2. run[p].pos..Last \subseteq Versions
      BY <2>1, VersionFacts DEF Versions
    <2> QED
      BY <2>1, <2>2 DEF Finish
  <1>7. Running(p, "recording") => \A v \in Versions : v >= run[p].pos => v \in left'
    BY <1>3, VersionFacts DEF Finish, Versions, RunInv, Running
  <1> QED
    BY <1>1, <1>2, <1>4, <1>5, <1>6, <1>7, QuietStep DEF Finish

LEMMA StopKeeps == ASSUME MInv, NEW p \in Runners, StopRun(p) PROVE MInv'
  <1>1. /\ RunsOn(p, "failed") /\ "failed" \in RunStage /\ run[p].at # "idle"
        /\ "failed" \notin {"done"} \cup SeedStages
    BY DEF StopRun, RunStage, SeedStages
  <1>2. /\ run' \in [Runners -> Run] /\ \A q \in Runners \ {p} : run'[q] = run[q]
        /\ run'[p].at = "failed" /\ run'[p].files = run[p].files /\ run'[p].seen = run[p].seen
        /\ run'[p].pos = run[p].pos /\ run'[p].mode = run[p].mode
    BY <1>1, RunsOnFrame DEF MInv
  <1>3. RunInv(p) /\ run[p].pos \in 1..(Last + 1) /\ left \subseteq Versions
    BY RunType DEF MInv, MigrationsTypeOK
  <1>4. RunInv(p)'
    BY <1>1, <1>2, <1>3 DEF RunInv, StopRun
  <1>5. run[p].pos..Last \subseteq Versions /\ \A v \in Versions : v >= run[p].pos => v \in run[p].pos..Last
    BY <1>3, VersionFacts DEF Versions
  <1>6. left \subseteq left' /\ left' \subseteq Versions
    BY <1>3, <1>5 DEF StopRun
  <1>7. Running(p, "recording") => \A v \in Versions : v >= run[p].pos => v \in left'
    BY <1>5 DEF StopRun
  <1> QED
    BY <1>1, <1>2, <1>4, <1>6, <1>7, QuietStep DEF StopRun

LEMMA SeedKeeps == ASSUME MInv, NEW p \in Runners, SeedOn(p) PROVE MInv'
  <1>1. PICK next \in SeedStages \cup {"done", "failed"} : RunsOn(p, next)
    BY DEF SeedOn
  <1>2. /\ next \in RunStage /\ run[p].at \in SeedStages /\ run[p].at # "idle" /\ run[p].at # "recording"
        /\ next \notin {"idle", "reading", "inspecting", "applying", "recording"}
    BY DEF SeedOn, RunStage, SeedStages
  <1>3. /\ run' \in [Runners -> Run] /\ \A q \in Runners \ {p} : run'[q] = run[q]
        /\ run'[p].at = next /\ run'[p].files = run[p].files /\ run'[p].seen = run[p].seen
        /\ run'[p].pos = run[p].pos /\ run'[p].mode = run[p].mode
    BY <1>1, <1>2, RunsOnFrame DEF MInv
  <1>4. RunInv(p) /\ left \subseteq Versions
    BY DEF MInv, MigrationsTypeOK
  <1>5. RunInv(p)'
    BY <1>2, <1>3, <1>4 DEF RunInv, SeedOn
  <1>6. \A v \in 1..Len(run'[p].files) : ledger[v] = run'[p].files[v]
    BY <1>2, <1>3 DEF MInv, DoneMeansCurrent, Files
  <1> QED
    BY <1>2, <1>3, <1>4, <1>5, <1>6, QuietStep DEF SeedOn, Running

\* The two steps that write: version v was in neither the tables nor the
\* ledger, and its row names the contents of the release.
LEMMA WritingStep ==
  ASSUME MInv, NEW p \in Runners, run[p].at \in {"applying", "recording"}, More(p),
         ledger[run[p].pos] = None,
         ledger' = [ledger EXCEPT ![run[p].pos] = Sum(p)],
         run' = [run EXCEPT ![p].pos = @ + 1],
         left' = left
  PROVE  /\ LedgerGrows /\ ledger' \in [Versions -> Checksums \cup {None}]
         /\ run' \in [Runners -> Run] /\ \A q \in Runners : RunInv(q)'
         /\ \A v, w \in Versions : ledger'[v] # None /\ w <= v => ledger'[w] # None
         /\ ledger'[run[p].pos] = Sum(p) /\ DoneMeansCurrent'
  <1>1. /\ run[p].pos \in Versions /\ Sum(p) \in Checksums /\ Sum(p) # None
        /\ run[p].files \in Releases /\ \A v \in Versions : ledger[v] = None => v >= run[p].pos
    BY FilledBelow
  <1>2. ledger \in [Versions -> Checksums \cup {None}] /\ MigrationsTypeOK
    BY DEF MInv, MigrationsTypeOK
  <1>3. ledger' \in [Versions -> Checksums \cup {None}] /\ ledger'[run[p].pos] = Sum(p)
        /\ \A v \in Versions \ {run[p].pos} : ledger'[v] = ledger[v]
    BY <1>1, <1>2
  <1>4. LedgerGrows
    BY <1>3 DEF LedgerGrows
  <1>5. /\ run' \in [Runners -> Run]
        /\ run'[p].at = run[p].at /\ run'[p].files = run[p].files /\ run'[p].seen = run[p].seen
        /\ run'[p].pos = run[p].pos + 1 /\ run'[p].mode = run[p].mode
        /\ \A q \in Runners \ {p} : run'[q] = run[q]
    BY <1>1, <1>2, NextFileFrame
  <1>6. RunInv(p)'
    <2>1. RunInv(p) /\ run[p].pos \in Int /\ Len(run[p].files) \in Int
      BY <1>1, VersionFacts DEF MInv
    <2>2. run'[p].pos <= Len(run'[p].files) + 1
      BY <1>5, <2>1 DEF More, Files
    <2>3. ASSUME NEW v \in Versions, run'[p].seen[v] # None PROVE ledger'[v] = run'[p].seen[v]
      BY <1>4, <1>5, <2>1, <2>3 DEF RunInv, LedgerGrows
    <2>4. ASSUME NEW v \in 1..(run'[p].pos - 1) PROVE ledger'[v] = run'[p].files[v]
      <3>1. v \in Versions /\ (v = run[p].pos \/ v \in 1..(run[p].pos - 1))
        <4>1. v \in 1..run[p].pos /\ run[p].pos \in 1..Last
          BY <1>1, <1>5, <2>1 DEF Versions
        <4> QED
          BY <4>1, VersionFacts DEF Versions
      <3>2. CASE v = run[p].pos
        BY <1>3, <1>5, <3>2 DEF Sum, Files
      <3>3. CASE v \in 1..(run[p].pos - 1)
        <4>1. v # run[p].pos
          BY <2>1, <3>3
        <4> QED
          BY <1>3, <1>5, <2>1, <3>1, <3>3, <4>1 DEF RunInv
      <3> QED
        BY <3>1, <3>2, <3>3
    <2> QED
      BY <1>1, <1>5, <2>1, <2>2, <2>3, <2>4 DEF RunInv
  <1>7. \A q \in Runners : RunInv(q)'
    BY <1>4, <1>5, <1>6, RunKept
  <1>8. ASSUME NEW v \in Versions, NEW w \in Versions, ledger'[v] # None, w <= v
        PROVE  ledger'[w] # None
    <2>0. v \in Int /\ w \in Int /\ run[p].pos \in Int
      BY <1>1, VersionFacts
    <2>1. CASE ledger[w] # None
      BY <1>4, <2>1 DEF LedgerGrows
    <2>2. CASE ledger[w] = None
      <3>1. ledger[v] = None
        <4>1. w \in 1..v
          BY <1>8, <2>0 DEF Versions
        <4> QED
          BY <2>2, <4>1 DEF MInv, LedgerHonest
      <3>2. v = run[p].pos
        BY <1>3, <1>8, <3>1
      <3>3. w >= run[p].pos
        BY <1>1, <2>2
      <3> QED
        BY <1>1, <1>3, <1>8, <2>0, <3>2, <3>3
    <2> QED
      BY <2>1, <2>2
  <1>9. DoneMeansCurrent'
    <2> SUFFICES ASSUME NEW q \in Runners, run'[q].at \in {"done"} \cup SeedStages,
                        NEW v \in 1..Len(run'[q].files)
                 PROVE  ledger'[v] = run'[q].files[v]
      BY DEF DoneMeansCurrent, Files
    <2>1. q # p /\ run'[q] = run[q]
      BY <1>5 DEF SeedStages
    <2>2. ledger[v] = run[q].files[v]
      BY <2>1 DEF MInv, DoneMeansCurrent, Files
    <2>3. run[q].files \in Releases
      <3>1. run[q].at # "idle"
        BY <2>1 DEF SeedStages
      <3> QED
        BY <3>1 DEF MInv, RunInv
    <2> QED
      BY <1>4, <2>1, <2>2, <2>3, VersionFacts DEF LedgerGrows
  <1> QED
    BY <1>3, <1>4, <1>5, <1>7, <1>8, <1>9

LEMMA ApplyKeeps == ASSUME MInv, NEW p \in Runners, Apply(p) PROVE MInv'
  <1> DEFINE v == run[p].pos
  <1>1. /\ run[p].at = "applying" /\ More(p) /\ v \in Versions /\ Sum(p) \in Checksums
        /\ Sum(p) # None /\ run[p].files \in Releases
        /\ \A w \in Versions : ledger[w] = None => w >= v
    BY FilledBelow DEF Apply, Running
  <1>2. CASE ~Applies(v)
    <2>0. left \subseteq Versions /\ MigrationsTypeOK /\ RunInv(p)
      BY DEF MInv, MigrationsTypeOK
    <2>1. RunsOn(p, "failed") /\ UNCHANGED <<built, ledger, adopted, left>>
      BY <1>2 DEF Apply
    <2>2. /\ run' \in [Runners -> Run] /\ \A q \in Runners \ {p} : run'[q] = run[q]
          /\ run'[p].at = "failed" /\ run'[p].files = run[p].files /\ run'[p].seen = run[p].seen
          /\ run'[p].pos = run[p].pos /\ run'[p].mode = run[p].mode
      BY <2>0, <2>1, RunsOnFrame DEF RunStage
    <2>3. RunInv(p)'
      BY <1>1, <2>0, <2>1, <2>2 DEF RunInv
    <2> QED
      BY <1>1, <2>0, <2>1, <2>2, <2>3, QuietStep DEF Running, SeedStages
  <1>3. CASE Applies(v)
    <2>1. /\ built' = [built EXCEPT ![v] = Sum(p)] /\ ledger' = [ledger EXCEPT ![v] = Sum(p)]
          /\ run' = [run EXCEPT ![p].pos = @ + 1] /\ UNCHANGED <<adopted, left>>
      BY <1>3 DEF Apply
    <2>2. built[v] = None /\ ledger[v] = None /\ (v = 1 \/ built[1] # None)
      BY <1>3 DEF Applies
    <2>3. /\ LedgerGrows /\ ledger' \in [Versions -> Checksums \cup {None}]
          /\ run' \in [Runners -> Run] /\ \A q \in Runners : RunInv(q)'
          /\ \A x, w \in Versions : ledger'[x] # None /\ w <= x => ledger'[w] # None
          /\ ledger'[v] = Sum(p) /\ DoneMeansCurrent'
      BY <1>1, <2>1, <2>2, WritingStep
    <2>4. built \in [Versions -> Checksums \cup {None, AutoMigrated}] /\ MigrationsTypeOK
      BY DEF MInv, MigrationsTypeOK
    <2>5. built' \in [Versions -> Checksums \cup {None, AutoMigrated}] /\ built'[v] = Sum(p)
          /\ \A w \in Versions \ {v} : built'[w] = built[w] /\ ledger'[w] = ledger[w]
      BY <1>1, <2>1, <2>4 DEF MigrationsTypeOK
    <2>6. MigrationsTypeOK'
      BY <2>1, <2>3, <2>4, <2>5 DEF MigrationsTypeOK
    <2>7. Sum(p) # AutoMigrated /\ AutoMigrated # None
      BY <1>1, ReleasesOrdered, VersionFacts
    <2>8. AutoFromTheStart'
      BY <2>2, <2>5, <2>7, VersionFacts DEF MInv, AutoFromTheStart
    <2>9. LedgerHonest'
      <3> SUFFICES ASSUME NEW x \in Versions PROVE
              /\ ledger'[x] # None => \A w \in 1..x : ledger'[w] # None
              /\ ledger'[x] # None => x \in adopted' \/ built'[x] = ledger'[x]
              /\ built'[x] \in Checksums => ledger'[x] = built'[x]
        BY DEF LedgerHonest
      <3>1. \A w \in 1..x : w \in Versions /\ w <= x
        BY VersionFacts DEF Versions
      <3>2. x # v => /\ ledger'[x] # None => x \in adopted' \/ built'[x] = ledger'[x]
                     /\ built'[x] \in Checksums => ledger'[x] = built'[x]
        BY <2>1, <2>5 DEF MInv, LedgerHonest
      <3> QED
        BY <2>3, <2>5, <3>1, <3>2
    <2>10. Recoverable'
      <3> SUFFICES ASSUME NEW x \in Versions, built'[x] = AutoMigrated, ledger'[x] = None,
                          x \notin left'
                   PROVE  \E q \in Runners : Running(q, "recording")' /\ x >= run'[q].pos
        BY DEF Recoverable, Nothing
      <3>1. x # v /\ built[x] = AutoMigrated /\ ledger[x] = None
        BY <2>5, <2>7
      <3>2. built[1] = AutoMigrated
        BY <3>1 DEF MInv, AutoFromTheStart
      <3>3. v # 1 /\ 1 \in Versions /\ v \in Int /\ v >= 1
        BY <1>1, <2>2, <2>7, <3>2, VersionFacts DEF Versions
      <3>4. ledger # Nothing
        <4>1. ledger[1] # None
          BY <1>1, <3>3
        <4> QED
          BY <3>3, <4>1 DEF Nothing
      <3>5. PICK q \in Runners : Running(q, "recording") /\ x >= run[q].pos
        BY <2>1, <3>1, <3>4 DEF MInv, Recoverable
      <3>6. q # p /\ run'[q] = run[q]
        BY <1>1, <2>1, <2>4, <3>5 DEF Running, MigrationsTypeOK
      <3> QED
        BY <3>5, <3>6 DEF Running
    <2> QED
      BY <2>3, <2>6, <2>8, <2>9, <2>10 DEF MInv
  <1> QED
    BY <1>2, <1>3

LEMMA RecordKeeps == ASSUME MInv, NEW p \in Runners, Record(p) PROVE MInv'
  <1> DEFINE v == run[p].pos
  <1>1. /\ run[p].at = "recording" /\ More(p) /\ v \in Versions /\ Sum(p) \in Checksums
        /\ Sum(p) # None /\ run[p].files \in Releases /\ built' = built
        /\ \A w \in Versions : ledger[w] = None => w >= v
    BY FilledBelow DEF Record, Running
  <1>2. left \subseteq Versions /\ MigrationsTypeOK /\ RunInv(p) /\ adopted \subseteq Versions
    BY DEF MInv, MigrationsTypeOK
  <1>3. CASE ledger[v] # None
    <2>1. RunsOn(p, "failed") /\ UNCHANGED <<built, ledger, adopted>> /\ left' = left \cup v..Last
      BY <1>3 DEF Record
    <2>2. /\ run' \in [Runners -> Run] /\ \A q \in Runners \ {p} : run'[q] = run[q]
          /\ run'[p].at = "failed" /\ run'[p].files = run[p].files /\ run'[p].seen = run[p].seen
          /\ run'[p].pos = run[p].pos /\ run'[p].mode = run[p].mode
      BY <1>2, <2>1, RunsOnFrame DEF RunStage
    <2>3. RunInv(p)'
      BY <1>1, <1>2, <2>1, <2>2 DEF RunInv
    <2>4. v..Last \subseteq Versions /\ \A w \in Versions : w >= v => w \in v..Last
      BY <1>1, VersionFacts DEF Versions
    <2> QED
      BY <1>1, <1>2, <2>1, <2>2, <2>3, <2>4, QuietStep DEF Running, SeedStages
  <1>4. CASE ledger[v] = None
    <2>1. /\ ledger' = [ledger EXCEPT ![v] = Sum(p)] /\ adopted' = adopted \cup {v}
          /\ run' = [run EXCEPT ![p].pos = @ + 1] /\ left' = left /\ built' = built
      BY <1>4 DEF Record
    <2>2. /\ LedgerGrows /\ ledger' \in [Versions -> Checksums \cup {None}]
          /\ run' \in [Runners -> Run] /\ \A q \in Runners : RunInv(q)'
          /\ \A x, w \in Versions : ledger'[x] # None /\ w <= x => ledger'[w] # None
          /\ ledger'[v] = Sum(p) /\ DoneMeansCurrent'
      BY <1>1, <1>4, <2>1, WritingStep
    <2>3. MigrationsTypeOK'
      BY <1>1, <1>2, <2>1, <2>2 DEF MigrationsTypeOK
    <2>4. AutoFromTheStart'
      BY <2>1 DEF MInv, AutoFromTheStart
    <2>5. \A w \in Versions \ {v} : ledger'[w] = ledger[w]
      BY <1>2, <2>1 DEF MigrationsTypeOK
    <2>6. LedgerHonest'
      <3> SUFFICES ASSUME NEW x \in Versions PROVE
              /\ ledger'[x] # None => \A w \in 1..x : ledger'[w] # None
              /\ ledger'[x] # None => x \in adopted' \/ built'[x] = ledger'[x]
              /\ built'[x] \in Checksums => ledger'[x] = built'[x]
        BY DEF LedgerHonest
      <3>1. \A w \in 1..x : w \in Versions /\ w <= x
        BY VersionFacts DEF Versions
      <3>2. built[x] \in Checksums => ledger[x] = built[x]
        BY DEF MInv, LedgerHonest
      <3>3. built[v] \notin Checksums
        BY <1>1, <1>4, ReleasesOrdered DEF MInv, LedgerHonest
      <3>4. x # v /\ ledger[x] # None => x \in adopted \/ built[x] = ledger[x]
        BY DEF MInv, LedgerHonest
      <3> QED
        BY <2>1, <2>2, <2>5, <3>1, <3>2, <3>3, <3>4
    <2>7. Recoverable'
      <3> SUFFICES ASSUME NEW x \in Versions, ledger'[x] = None
                   PROVE  \E q \in Runners : Running(q, "recording")' /\ x >= run'[q].pos
        BY DEF Recoverable
      <3>1. x # v /\ x >= v /\ x \in Int /\ v \in Int
        BY <1>1, <2>2, <2>5, VersionFacts
      <3>2. run'[p].pos = v + 1 /\ run'[p].at = "recording"
        BY <1>1, <1>2, <2>1, NextFileFrame
      <3> QED
        BY <3>1, <3>2 DEF Running
    <2> QED
      BY <2>2, <2>3, <2>4, <2>6, <2>7 DEF MInv
  <1> QED
    BY <1>3, <1>4

LEMMA MStutters == ASSUME MInv, UNCHANGED mvars PROVE MInv'
  BY DEF MInv, mvars, MigrationsTypeOK, AutoFromTheStart, LedgerHonest, DoneMeansCurrent,
         Recoverable, RunInv, Running, Files

LEMMA MStep == MInv /\ [MNext]_mvars => MInv'
  <1> SUFFICES ASSUME MInv, [MNext]_mvars PROVE MInv'
    OBVIOUS
  <1>1. ASSUME NEW p \in Runners, RunStep(p) PROVE MInv'
    BY <1>1, StartKeeps, ReadKeeps, InspectKeeps, SkipKeeps, ApplyKeeps, RecordKeeps,
       FinishKeeps, StopKeeps DEF RunStep
  <1> QED
    BY <1>1, SeedKeeps, MStutters DEF MNext

LEMMA MStart == MInit => MInv
  <1> SUFFICES ASSUME MInit PROVE MInv
    OBVIOUS
  <1>1. PICK n \in 0..Last : built = [v \in Versions |-> IF v <= n THEN AutoMigrated ELSE None]
    BY DEF MInit
  <1>2. /\ ledger = Nothing /\ run = [p \in Runners |-> NoRun] /\ adopted = {} /\ left = {}
        /\ Nothing \in [Versions -> Checksums \cup {None}] /\ \A v \in Versions : ledger[v] = None
    BY DEF MInit, Nothing
  <1>3. NoRun \in Run
    BY <1>2, VersionFacts DEF NoRun, Run, RunStage
  <1>4. MigrationsTypeOK
    BY <1>1, <1>2, <1>3 DEF MigrationsTypeOK
  <1>5. AutoFromTheStart
    BY <1>1, VersionFacts DEF AutoFromTheStart, Versions
  <1>6. LedgerHonest
    BY <1>1, <1>2, ReleasesOrdered DEF LedgerHonest
  <1>7. DoneMeansCurrent /\ \A p \in Runners : RunInv(p)
    BY <1>2, VersionFacts DEF DoneMeansCurrent, RunInv, NoRun, SeedStages, Nothing
  <1> QED
    BY <1>2, <1>4, <1>5, <1>6, <1>7 DEF MInv, Recoverable

-----------------------------------------------------------------------------
(* Roles and permissions                                                   *)

\* What a request carries at each stage.
ReqInv(q) ==
  /\ req[q].at \notin {"idle", "answered"} => Id(q) \in RoleIds
  /\ req[q].at = "finding" => /\ req[q].op \in {"rename", "delete", "replace"}
                              /\ req[q].op = "rename" => Name(q) \in Names
  /\ req[q].at \in {"checking", "writing"} => req[q].op \in {"create", "rename"} /\ Name(q) \in Names
  /\ req[q].at \in {"clearing", "locking", "granting"} =>
       req[q].op = "replace" /\ req[q].codes \subseteq Codes

\* A replacement has seen every grant of its role, or somebody else has
\* decided on the role since.
SawInv(q) ==
  req[q].at \in {"locking", "granting"} =>
    /\ req[q].saw \subseteq {g \in RoleIds \X Codes \X (Requests \cup {None}) : g[1] = Id(q)}
    /\ Id(q) \in mixed \/ GrantsOf(Id(q)) \subseteq req[q].saw

\* Nothing is granted that the catalogue does not have, and it is whole when
\* the seeder grants it and when a superadmin has it.
CatalogueInv ==
  /\ \A g \in grants : g[2] \in permissions
  /\ \A p \in Runners : Running(p, "granting") /\ Selected(p, "catalog") => permissions = Codes
  /\ rooted # {} => permissions = Codes

\* A role that was given everything still is the superadmin, and no
\* replacement under way would leave it short.
RootInv ==
  /\ \A id \in rooted : Exists(id) /\ Same(role[id], SuperAdminRoleName)
                        /\ (id \in mixed \/ chosen[id] = Codes)
  /\ \A q \in Requests : Replacing(q) /\ Id(q) \in rooted => req[q].codes = Codes

\* Nobody is about to write a name that has been taken meanwhile, unless two
\* checked it at once.
WritingInv ==
  \A q \in Requests : At(q, "writing") =>
    /\ \A id \in RoleIds \ {Id(q)} : Exists(id) /\ Same(role[id], Name(q)) =>
         Lower[Name(q)] \in crowded
    /\ \A o \in Requests \ {q} : At(o, "writing") /\ Same(Name(o), Name(q)) =>
         Lower[Name(q)] \in crowded

\* A token names the role of its account, or that name has gone to another.
TokenInv ==
  \A a \in Accounts : token[a] # None =>
    \/ Lower[token[a]] \in passed
    \/ Exists(RoleOf[a]) /\ Same(role[RoleOf[a]], token[a])

AInv ==
  /\ AccessTypeOK
  /\ \A q \in Requests : ReqInv(q) /\ SawInv(q)
  /\ CatalogueInv
  /\ GrantsChosenUnlessMixed
  /\ RootInv
  /\ RoleNamesUnique /\ WritingInv
  /\ TokenInv

LEMMA NameFacts ==
  /\ Seeded \subseteq Names /\ SuperAdminRoleName \in Names /\ SuperAdminRoleName \in Seeded
  /\ None \notin Names /\ None \notin Requests /\ Seeded \cap Requests = {}
  /\ Seeded \subseteq RoleIds /\ Requests \subseteq RoleIds
  /\ \A n \in Names : Lower[n] \in Names
  /\ \A a \in Accounts : RoleOf[a] \in Seeded
  <1>1. Seeded \subseteq Names
    BY AccessConfig DEF Seeded
  <1> QED
    BY <1>1, AccessConfig DEF RoleIds

\* The request record, field by field.
LEMMA RequestType ==
  ASSUME AccessTypeOK, NEW q \in Requests
  PROVE  /\ req[q] \in Request /\ req \in [Requests -> Request]
         /\ req[q].at \in Stage /\ req[q].codes \in Submitted \cup {{}}
         /\ req[q].name \in Names \cup {None} /\ req[q].id \in RoleIds \cup {None}
         /\ req[q].saw \subseteq RoleIds \X Codes \X (Requests \cup {None})
  BY DEF AccessTypeOK, Request

LEMMA GotoFrame ==
  ASSUME AccessTypeOK, NEW q \in Requests, NEW s \in Stage, Goto(q, s)
  PROVE  /\ req' \in [Requests -> Request] /\ \A o \in Requests \ {q} : req'[o] = req[o]
         /\ req'[q].at = s /\ req'[q].op = req[q].op /\ req'[q].id = req[q].id
         /\ req'[q].name = req[q].name /\ req'[q].codes = req[q].codes /\ req'[q].saw = req[q].saw
  <1>1. req' = [req EXCEPT ![q] = [req[q] EXCEPT !.at = s]]
    BY DEF Goto
  <1>2. req[q] \in Request /\ req \in [Requests -> Request]
    BY RequestType
  <1>3. [req[q] EXCEPT !.at = s] \in Request
    BY <1>2 DEF Request
  <1> QED
    BY <1>1, <1>2, <1>3 DEF Request

LEMMA DoneFrame ==
  ASSUME AccessTypeOK, NEW q \in Requests, Done(q)
  PROVE  /\ req' \in [Requests -> Request] /\ \A o \in Requests \ {q} : req'[o] = req[o]
         /\ req'[q].at = "answered" /\ ReqInv(q)' /\ SawInv(q)'
         /\ ~Replacing(q)' /\ ~At(q, "writing")'
  <1> DEFINE over == [NoRequest EXCEPT !.at = "answered"]
  <1>1. over \in Request /\ over.at = "answered"
    BY DEF NoRequest, Request, Stage
  <1>2. req' = [req EXCEPT ![q] = over] /\ req \in [Requests -> Request]
    BY RequestType DEF Done
  <1> HIDE DEF over
  <1>3. req' \in [Requests -> Request] /\ req'[q] = over /\ \A o \in Requests \ {q} : req'[o] = req[o]
    BY <1>1, <1>2
  <1> QED
    BY <1>1, <1>3 DEF ReqInv, SawInv, Replacing, At

LEMMA AsksFrame ==
  ASSUME AccessTypeOK, NEW q \in Requests, NEW s \in Stage,
         NEW op \in {"create", "rename", "delete", "replace"}, NEW id \in RoleIds,
         NEW n \in Names \cup {None}, NEW codes \in Submitted \cup {{}}, Asks(q, s, op, id, n, codes)
  PROVE  /\ req' \in [Requests -> Request] /\ \A o \in Requests \ {q} : req'[o] = req[o]
         /\ req'[q].at = s /\ req'[q].op = op /\ req'[q].id = id /\ req'[q].name = n
  <1> DEFINE new == [at |-> s, op |-> op, id |-> id, name |-> n, codes |-> codes, saw |-> {}]
  <1>1. new \in Request
    BY DEF Request
  <1>2. req' = [req EXCEPT ![q] = new] /\ req \in [Requests -> Request]
    BY RequestType DEF Asks
  <1>3. new.at = s /\ new.op = op /\ new.id = id /\ new.name = n
    OBVIOUS
  <1> HIDE DEF new
  <1> QED
    BY <1>1, <1>2, <1>3

\* A step of one request that decides nothing yet.
LEMMA QuietRequest ==
  ASSUME AInv, NEW q \in Requests,
         UNCHANGED <<mvars, tables, token, chosen, mixed, passed, rooted>>,
         crowded \subseteq crowded', crowded' \subseteq Names,
         req' \in [Requests -> Request], \A o \in Requests \ {q} : req'[o] = req[o],
         ReqInv(q)', SawInv(q)',
         Replacing(q)' /\ req'[q].id \in rooted => req'[q].codes = Codes,
         At(q, "writing")' =>
           /\ \A id \in RoleIds \ {req'[q].id} : Exists(id) /\ Same(role[id], req'[q].name) =>
                Lower[req'[q].name] \in crowded'
           /\ \A o \in Requests \ {q} : At(o, "writing") /\ Same(Name(o), req'[q].name) =>
                Lower[req'[q].name] \in crowded'
  PROVE  AInv'
  <1>0. UNCHANGED <<role, permissions, grants, people, token, chosen, mixed, passed, rooted>>
        /\ run' = run
    BY DEF tables, mvars
  <1>1. AccessTypeOK'
    BY <1>0 DEF AInv, AccessTypeOK
  <1>2. \A o \in Requests : ReqInv(o)' /\ SawInv(o)'
    BY <1>0 DEF AInv, ReqInv, SawInv, Id, Name, GrantsOf
  <1>3. CatalogueInv' /\ GrantsChosenUnlessMixed'
    BY <1>0 DEF AInv, CatalogueInv, GrantsChosenUnlessMixed, CodesOf, GrantsOf, Running, Selected
  <1>4. RootInv'
    BY <1>0 DEF AInv, RootInv, Exists, Same, Replacing, Id
  <1>5. RoleNamesUnique'
    BY <1>0 DEF AInv, RoleNamesUnique, Exists, Same
  <1>6. WritingInv'
    <2> SUFFICES ASSUME NEW o \in Requests, At(o, "writing")'
                 PROVE  /\ \A id \in RoleIds \ {req'[o].id} : Exists(id) /\ Same(role[id], req'[o].name) =>
                             Lower[req'[o].name] \in crowded'
                        /\ \A x \in Requests \ {o} : At(x, "writing")' /\ Same(req'[x].name, req'[o].name)
                             => Lower[req'[o].name] \in crowded'
      BY <1>0 DEF WritingInv, Exists, Same, Id, Name
    <2>1. CASE o = q
      BY <2>1 DEF At, Name
    <2>2. CASE o # q
      <3>1. At(o, "writing") /\ req'[o] = req[o]
        BY <2>2 DEF At
      <3>2. \A id \in RoleIds \ {req[o].id} : Exists(id) /\ Same(role[id], req[o].name) =>
              Lower[req[o].name] \in crowded'
        BY <3>1 DEF AInv, WritingInv, Id, Name
      <3>3. ASSUME NEW x \in Requests \ {o, q}, At(x, "writing")', Same(req'[x].name, req[o].name)
            PROVE  Lower[req[o].name] \in crowded'
        BY <3>1, <3>3 DEF AInv, WritingInv, At, Name, Same
      <3>4. ASSUME At(q, "writing")', Same(req'[q].name, req[o].name)
            PROVE  Lower[req[o].name] \in crowded'
        BY <2>2, <3>1, <3>4 DEF Same, Name
      <3> QED
        BY <3>1, <3>2, <3>3, <3>4
    <2> QED
      BY <2>1, <2>2
  <1>7. TokenInv'
    BY <1>0 DEF AInv, TokenInv, Exists, Same
  <1> QED
    BY <1>1, <1>2, <1>3, <1>4, <1>5, <1>6, <1>7 DEF AInv

LEMMA ArriveKeeps == ASSUME AInv, NEW q \in Requests, Arrive(q) PROVE AInv'
  <1>0. AccessTypeOK /\ UNCHANGED <<mvars, tables, token, chosen, mixed, passed, rooted, crowded>>
    BY DEF AInv, Arrive, history
  <1>1. ASSUME NEW s \in {"checking", "finding"}, NEW op \in {"create", "rename", "delete", "replace"},
               NEW id \in RoleIds, NEW n \in Names \cup {None}, NEW codes \in Submitted \cup {{}},
               Asks(q, s, op, id, n, codes),
               s = "checking" <=> op = "create", op \in {"create", "rename"} => n \in Names
        PROVE  AInv'
    <2>1. /\ req' \in [Requests -> Request] /\ \A o \in Requests \ {q} : req'[o] = req[o]
          /\ req'[q].at = s /\ req'[q].op = op /\ req'[q].id = id /\ req'[q].name = n
      BY <1>0, <1>1, AsksFrame DEF Stage
    <2>2. ReqInv(q)' /\ SawInv(q)' /\ ~Replacing(q)' /\ ~At(q, "writing")'
      BY <1>1, <2>1 DEF ReqInv, SawInv, Replacing, At, Id, Name
    <2> QED
      BY <1>0, <2>1, <2>2, QuietRequest DEF AccessTypeOK
  <1> QED
    BY <1>1, NameFacts DEF Arrive

LEMMA FindKeeps == ASSUME AInv, NEW q \in Requests, Find(q) PROVE AInv'
  <1>0. /\ AccessTypeOK /\ UNCHANGED <<mvars, tables, token, chosen, mixed, passed, rooted, crowded>>
        /\ crowded \subseteq Names /\ ReqInv(q) /\ req[q].at = "finding"
    BY DEF AInv, AccessTypeOK, Find, history, At
  <1>1. CASE Done(q)
    BY <1>0, <1>1, DoneFrame, QuietRequest
  <1>2. CASE ~Done(q)
    <2> DEFINE to == CASE req[q].op = "rename" -> "checking" [] req[q].op = "delete" -> "using"
                       [] OTHER -> "clearing"
    <2>1. Goto(q, to) /\ KnownCodes(q) /\ ~Guarded(q) /\ Exists(Id(q))
      BY <1>2 DEF Find
    <2>2. to \in Stage /\ to \in {"checking", "using", "clearing"}
          /\ (to = "checking" => req[q].op = "rename")
          /\ (to = "clearing" => req[q].op = "replace")
      BY <1>0 DEF Stage, ReqInv
    <2> HIDE DEF to
    <2>3. /\ req' \in [Requests -> Request] /\ \A o \in Requests \ {q} : req'[o] = req[o]
          /\ req'[q].at = to /\ req'[q].op = req[q].op /\ req'[q].id = req[q].id
          /\ req'[q].name = req[q].name /\ req'[q].codes = req[q].codes /\ req'[q].saw = req[q].saw
      BY <1>0, <2>1, <2>2, GotoFrame
    <2>4. ReqInv(q)' /\ SawInv(q)' /\ ~At(q, "writing")'
      BY <1>0, <2>1, <2>2, <2>3 DEF ReqInv, SawInv, At, Id, Name, KnownCodes
    <2>5. Replacing(q)' /\ req'[q].id \in rooted => req'[q].codes = Codes
      BY <2>1, <2>2, <2>3 DEF Replacing, Guarded, AInv, RootInv, Id
    <2> QED
      BY <1>0, <2>3, <2>4, <2>5, QuietRequest
  <1> QED
    BY <1>1, <1>2

LEMMA CheckNameKeeps == ASSUME AInv, NEW q \in Requests, CheckName(q) PROVE AInv'
  <1>0. /\ AccessTypeOK /\ UNCHANGED <<mvars, tables, token, chosen, mixed, passed, rooted>>
        /\ crowded \subseteq Names /\ ReqInv(q) /\ req[q].at = "checking" /\ Name(q) \in Names
    BY DEF AInv, AccessTypeOK, CheckName, At, ReqInv
  <1>1. CASE ExistsByName(Name(q), Id(q))
    <2>1. Done(q) /\ crowded' = crowded
      BY <1>1 DEF CheckName
    <2> QED
      BY <1>0, <2>1, DoneFrame, QuietRequest
  <1>2. CASE ~ExistsByName(Name(q), Id(q))
    <2>1. /\ Goto(q, "writing")
          /\ crowded' = IF \E o \in Requests \ {q} : At(o, "writing") /\ Same(Name(o), Name(q))
                        THEN crowded \cup {Lower[Name(q)]} ELSE crowded
      BY <1>2 DEF CheckName
    <2>2. /\ req' \in [Requests -> Request] /\ \A o \in Requests \ {q} : req'[o] = req[o]
          /\ req'[q].at = "writing" /\ req'[q].op = req[q].op /\ req'[q].id = req[q].id
          /\ req'[q].name = req[q].name
      BY <1>0, <2>1, GotoFrame DEF Stage
    <2>3. ReqInv(q)' /\ SawInv(q)' /\ ~Replacing(q)'
      BY <1>0, <2>2 DEF ReqInv, SawInv, Id, Name, Replacing
    <2>4. crowded \subseteq crowded' /\ crowded' \subseteq Names
      BY <1>0, <2>1, NameFacts
    <2>5. \A id \in RoleIds \ {req'[q].id} : ~(Exists(id) /\ Same(role[id], req'[q].name))
      BY <1>2, <2>2 DEF ExistsByName, Id, Name
    <2>6. \A o \in Requests \ {q} : At(o, "writing") /\ Same(Name(o), req'[q].name) =>
                Lower[req'[q].name] \in crowded'
      BY <2>1, <2>2 DEF Name
    <2> QED
      BY <1>0, <2>2, <2>3, <2>4, <2>5, <2>6, QuietRequest
  <1> QED
    BY <1>1, <1>2

LEMMA CheckUseKeeps == ASSUME AInv, NEW q \in Requests, CheckUse(q) PROVE AInv'
  <1>0. /\ AccessTypeOK /\ UNCHANGED <<mvars, tables, token, chosen, mixed, passed, rooted, crowded>>
        /\ crowded \subseteq Names /\ ReqInv(q) /\ req[q].at = "using"
    BY DEF AInv, AccessTypeOK, CheckUse, history, At
  <1>1. CASE Done(q)
    BY <1>0, <1>1, DoneFrame, QuietRequest
  <1>2. CASE Goto(q, "deleting")
    <2>1. /\ req' \in [Requests -> Request] /\ \A o \in Requests \ {q} : req'[o] = req[o]
          /\ req'[q].at = "deleting" /\ req'[q].id = req[q].id
      BY <1>0, <1>2, GotoFrame DEF Stage
    <2>2. ReqInv(q)' /\ SawInv(q)' /\ ~At(q, "writing")' /\ ~Replacing(q)'
      BY <1>0, <2>1 DEF ReqInv, SawInv, At, Id, Replacing
    <2> QED
      BY <1>0, <2>1, <2>2, QuietRequest
  <1> QED
    BY <1>1, <1>2 DEF CheckUse

LEMMA StopAsks == ASSUME AInv, NEW q \in Requests, Stop(q) PROVE AInv'
  <1>0. /\ AccessTypeOK /\ UNCHANGED <<mvars, tables, token, chosen, mixed, passed, rooted, crowded>>
        /\ crowded \subseteq Names /\ Done(q)
    BY DEF AInv, AccessTypeOK, Stop, history
  <1> QED
    BY <1>0, DoneFrame, QuietRequest

\* The two statements before the INSERT of a replacement: what it has seen is
\* what its role holds, as long as nobody else decides.
LEMMA SeeingFrame ==
  ASSUME AInv, NEW q \in Requests, req[q].at \in {"clearing", "locking"}, NEW s \in {"locking", "granting"},
         NEW seen \in SUBSET (RoleIds \X Codes \X (Requests \cup {None})),
         req' = [req EXCEPT ![q].at = s, ![q].saw = seen],
         UNCHANGED <<mvars, tables, token, history>>,
         \A g \in seen : g[1] = Id(q),
         Id(q) \in mixed \/ GrantsOf(Id(q)) \subseteq seen
  PROVE  AInv'
  <1>0. /\ AccessTypeOK /\ UNCHANGED <<mvars, tables, token, chosen, mixed, passed, rooted, crowded>>
        /\ crowded \subseteq Names /\ ReqInv(q) /\ req[q] \in Request /\ req \in [Requests -> Request]
        /\ grants' = grants
    BY RequestType DEF AInv, AccessTypeOK, history, tables
  <1> DEFINE half == [req[q] EXCEPT !.at = s]
             new == [half EXCEPT !.saw = seen]
  <1>1. half \in Request /\ half.at = s /\ half.id = req[q].id /\ half.op = req[q].op
        /\ half.codes = req[q].codes /\ half.name = req[q].name
    BY <1>0 DEF Request, Stage
  <1> HIDE DEF half
  <1>2. /\ new \in Request /\ new.at = s /\ new.id = req[q].id /\ new.op = req[q].op
        /\ new.codes = req[q].codes /\ new.name = req[q].name /\ new.saw = seen
    BY <1>1 DEF Request
  <1>3. req' = [req EXCEPT ![q] = new]
    BY DEF half
  <1> HIDE DEF new
  <1>4. req' \in [Requests -> Request] /\ req'[q] = new /\ \A o \in Requests \ {q} : req'[o] = req[o]
    BY <1>0, <1>2, <1>3
  <1>5. ReqInv(q)' /\ ~At(q, "writing")'
    BY <1>0, <1>2, <1>4 DEF ReqInv, At, Id, Name
  <1>6. SawInv(q)'
    BY <1>0, <1>2, <1>4 DEF SawInv, Id, GrantsOf
  <1>7. Replacing(q)' /\ req'[q].id \in rooted => req'[q].codes = Codes
    <2>1. Replacing(q)
      BY <1>0 DEF Replacing, ReqInv
    <2> QED
      BY <1>2, <1>4, <2>1 DEF AInv, RootInv, Id
  <1> QED
    BY <1>0, <1>4, <1>5, <1>6, <1>7, QuietRequest

LEMMA ClearKeeps == ASSUME AInv, NEW q \in Requests, Clear(q) PROVE AInv'
  <1>1. GrantsOf(Id(q)) \in SUBSET (RoleIds \X Codes \X (Requests \cup {None}))
    BY DEF AInv, AccessTypeOK, GrantsOf
  <1>2. \A g \in GrantsOf(Id(q)) : g[1] = Id(q)
    BY DEF GrantsOf
  <1> QED
    BY <1>1, <1>2, SeeingFrame DEF Clear, At

LEMMA LockKeeps == ASSUME AInv, NEW q \in Requests, Lock(q) PROVE AInv'
  <1>1. SawInv(q) /\ req[q].at = "locking"
    BY DEF AInv, Lock, At
  <1>2. req[q].saw \cap grants \in SUBSET (RoleIds \X Codes \X (Requests \cup {None}))
    BY DEF AInv, AccessTypeOK
  <1>3. \A g \in req[q].saw \cap grants : g[1] = Id(q)
    BY <1>1 DEF SawInv
  <1>4. Id(q) \in mixed \/ GrantsOf(Id(q)) \subseteq req[q].saw \cap grants
    BY <1>1 DEF SawInv, GrantsOf
  <1>5. req' = [req EXCEPT ![q].at = "granting", ![q].saw = req[q].saw \cap grants]
    BY DEF Lock
  <1> QED
    BY <1>1, <1>2, <1>3, <1>4, <1>5, SeeingFrame DEF Lock

LEMMA WriteNameKeeps == ASSUME AInv, NEW q \in Requests, WriteName(q) PROVE AInv'
  <1> DEFINE id == Id(q)
             n == Name(q)
             takes == (req[q].op = "create" \/ Exists(id)) /\ \A i \in RoleIds \ {id} : role[i] # n
  <1>0. /\ AccessTypeOK /\ ReqInv(q) /\ At(q, "writing") /\ Done(q) /\ id \in RoleIds /\ n \in Names
        /\ UNCHANGED <<mvars, permissions, grants, people, token, chosen, mixed, crowded>>
    BY DEF AInv, WriteName, At, ReqInv
  <1>1. /\ req' \in [Requests -> Request] /\ \A o \in Requests \ {q} : req'[o] = req[o]
        /\ req'[q].at = "answered" /\ ReqInv(q)' /\ SawInv(q)' /\ ~Replacing(q)' /\ ~At(q, "writing")'
    BY <1>0, DoneFrame
  <1>2. CASE ~takes
    <2>1. UNCHANGED <<role, passed, rooted>>
      BY <1>2 DEF WriteName
    <2> QED
      BY <1>0, <1>1, <2>1, QuietRequest DEF tables, AccessTypeOK
  <1>3. CASE takes
    <2>1. /\ role' = [role EXCEPT ![id] = n]
          /\ passed' = IF role[id] \in {None, n} THEN passed ELSE passed \cup {Lower[role[id]]}
          /\ rooted' = IF Same(n, SuperAdminRoleName) THEN rooted ELSE rooted \ {id}
      BY <1>3 DEF WriteName
    <2>2. role \in [RoleIds -> Names \cup {None}] /\ passed \subseteq Names /\ rooted \subseteq RoleIds
          /\ crowded \subseteq Names
      BY <1>0 DEF AccessTypeOK
    <2>3. role' \in [RoleIds -> Names \cup {None}] /\ role'[id] = n
          /\ \A i \in RoleIds \ {id} : role'[i] = role[i]
      BY <1>0, <2>1, <2>2
    <2>4. passed' \subseteq Names /\ rooted' \subseteq rooted /\ passed \subseteq passed'
      BY <1>0, <2>1, <2>2, NameFacts
    <2>5. AccessTypeOK'
      BY <1>0, <1>1, <2>2, <2>3, <2>4 DEF AccessTypeOK
    <2>6. \A o \in Requests : ReqInv(o)' /\ SawInv(o)'
      BY <1>0, <1>1 DEF AInv, ReqInv, SawInv, Id, Name, GrantsOf
    <2>7. CatalogueInv' /\ GrantsChosenUnlessMixed'
      BY <1>0, <2>4 DEF AInv, CatalogueInv, GrantsChosenUnlessMixed, CodesOf, GrantsOf, Running,
                        Selected, mvars
    <2>8. RootInv'
      <3>1. ASSUME NEW i \in rooted'
            PROVE  Exists(i)' /\ Same(role'[i], SuperAdminRoleName) /\ (i \in mixed' \/ chosen'[i] = Codes)
        <4>1. i \in rooted /\ i \in RoleIds
          BY <2>2, <2>4
        <4>2. i = id => Same(n, SuperAdminRoleName)
          BY <2>1
        <4> QED
          BY <1>0, <2>3, <4>1, <4>2, NameFacts DEF AInv, RootInv, Exists
      <3>2. \A o \in Requests : Replacing(o)' /\ Id(o)' \in rooted' => req'[o].codes = Codes
        BY <1>1, <2>4 DEF AInv, RootInv, Replacing, Id
      <3> QED
        BY <3>1, <3>2 DEF RootInv, Same
    <2>9. RoleNamesUnique'
      <3> SUFFICES ASSUME NEW i \in RoleIds, NEW j \in RoleIds, i # j, Exists(i)', Exists(j)'
                   PROVE  /\ role'[i] # role'[j]
                          /\ Same(role'[i], role'[j]) => Lower[role'[i]] \in crowded'
        BY DEF RoleNamesUnique, Same
      <3>1. CASE i # id /\ j # id
        BY <1>0, <2>3, <3>1 DEF AInv, RoleNamesUnique, Exists
      <3>2. ASSUME NEW k \in RoleIds \ {id}, role[k] # None, Same(role[k], n)
            PROVE  Lower[n] \in crowded
        BY <1>0, <3>2 DEF AInv, WritingInv, Exists
      <3>3. CASE i = id
        BY <1>0, <1>3, <2>3, <3>2, <3>3 DEF Exists, Same
      <3>4. CASE j = id
        BY <1>0, <1>3, <2>3, <3>2, <3>4 DEF Exists, Same
      <3> QED
        BY <3>1, <3>3, <3>4
    <2>10. WritingInv'
      <3> SUFFICES ASSUME NEW o \in Requests, At(o, "writing")'
                   PROVE  /\ \A i \in RoleIds \ {Id(o)'} : Exists(i)' /\ Same(role'[i], Name(o)') =>
                               Lower[Name(o)'] \in crowded'
                          /\ \A x \in Requests \ {o} : At(x, "writing")' /\ Same(Name(x)', Name(o)')
                               => Lower[Name(o)'] \in crowded'
        BY DEF WritingInv, Same
      <3>1. o # q /\ req'[o] = req[o] /\ At(o, "writing")
        BY <1>1 DEF At
      <3>2. ASSUME NEW i \in RoleIds \ {Id(o)}, Exists(i)', Same(role'[i], Name(o))
            PROVE  Lower[Name(o)] \in crowded
        <4>1. CASE i = id
          BY <1>0, <2>3, <3>1, <3>2, <4>1 DEF AInv, WritingInv
        <4>2. CASE i # id
          BY <2>3, <3>1, <3>2, <4>2 DEF AInv, WritingInv, Exists
        <4> QED
          BY <4>1, <4>2
      <3>3. ASSUME NEW x \in Requests \ {o}, At(x, "writing")', Same(Name(x)', Name(o))
            PROVE  Lower[Name(o)] \in crowded
        <4>1. At(x, "writing") /\ req'[x] = req[x]
          BY <1>1, <3>3 DEF At
        <4> QED
          BY <3>1, <3>3, <4>1 DEF AInv, WritingInv, Name, Same
      <3> QED
        BY <1>0, <3>1, <3>2, <3>3 DEF Id, Name
    <2>11. TokenInv'
      <3> SUFFICES ASSUME NEW a \in Accounts, token[a] # None
                   PROVE  \/ Lower[token[a]] \in passed'
                          \/ Exists(RoleOf[a])' /\ Same(role'[RoleOf[a]], token[a])
        BY <1>0 DEF TokenInv, Same
      <3>1. CASE Lower[token[a]] \in passed
        BY <2>4, <3>1
      <3>2. CASE Exists(RoleOf[a]) /\ Same(role[RoleOf[a]], token[a])
        <4>1. RoleOf[a] \in RoleIds
          BY NameFacts
        <4>2. CASE RoleOf[a] # id
          BY <2>3, <3>2, <4>1, <4>2 DEF Exists
        <4>3. CASE RoleOf[a] = id
          BY <2>1, <2>3, <3>2, <4>3, NameFacts DEF Exists, Same
        <4> QED
          BY <4>2, <4>3
      <3> QED
        BY <3>1, <3>2 DEF AInv, TokenInv
    <2> QED
      BY <2>5, <2>6, <2>7, <2>8, <2>9, <2>10, <2>11 DEF AInv
  <1> QED
    BY <1>2, <1>3

\* What depends on the names alone survives a step that leaves them alone.
LEMMA NamesKept ==
  ASSUME AInv, UNCHANGED <<role, token, crowded, passed>>,
         \A o \in Requests : At(o, "writing")' => req'[o] = req[o]
  PROVE  RoleNamesUnique' /\ WritingInv' /\ TokenInv'
  <1>1. RoleNamesUnique'
    BY DEF AInv, RoleNamesUnique, Exists, Same
  <1>2. WritingInv'
    <2> SUFFICES ASSUME NEW o \in Requests, At(o, "writing")'
                 PROVE  /\ \A i \in RoleIds \ {Id(o)'} : Exists(i)' /\ Same(role'[i], Name(o)') =>
                             Lower[Name(o)'] \in crowded'
                        /\ \A x \in Requests \ {o} : At(x, "writing")' /\ Same(Name(x)', Name(o)')
                             => Lower[Name(o)'] \in crowded'
      BY DEF WritingInv, Same
    <2>1. req'[o] = req[o] /\ At(o, "writing")
      BY DEF At
    <2>2. \A x \in Requests : At(x, "writing")' => At(x, "writing") /\ req'[x] = req[x]
      BY DEF At
    <2> QED
      BY <2>1, <2>2 DEF AInv, WritingInv, Exists, Same, Id, Name
  <1>3. TokenInv'
    BY DEF AInv, TokenInv, Exists, Same
  <1> QED
    BY <1>1, <1>2, <1>3

LEMMA DeleteKeeps == ASSUME AInv, NEW q \in Requests, DeleteRole(q) PROVE AInv'
  <1> DEFINE id == Id(q)
  <1>0. /\ AccessTypeOK /\ ReqInv(q) /\ At(q, "deleting") /\ Done(q) /\ id \in RoleIds
        /\ UNCHANGED <<mvars, permissions, people, token, mixed, crowded>>
    BY DEF AInv, DeleteRole, At, ReqInv
  <1>1. /\ req' \in [Requests -> Request] /\ \A o \in Requests \ {q} : req'[o] = req[o]
        /\ req'[q].at = "answered" /\ ReqInv(q)' /\ SawInv(q)' /\ ~Replacing(q)' /\ ~At(q, "writing")'
    BY <1>0, DoneFrame
  <1>2. CASE ~Exists(id) \/ InUse(id)
    <2>1. UNCHANGED <<role, grants, chosen, passed, rooted>>
      BY <1>2 DEF DeleteRole
    <2> QED
      BY <1>0, <1>1, <2>1, QuietRequest DEF tables, AccessTypeOK
  <1>3. CASE Exists(id) /\ ~InUse(id)
    <2>1. /\ role' = [role EXCEPT ![id] = None] /\ grants' = grants \ GrantsOf(id)
          /\ chosen' = [chosen EXCEPT ![id] = {}] /\ passed' = passed \cup {Lower[role[id]]}
          /\ rooted' = rooted \ {id}
      BY <1>3 DEF DeleteRole
    <2>2. /\ role \in [RoleIds -> Names \cup {None}] /\ passed \subseteq Names /\ rooted \subseteq RoleIds
          /\ chosen \in [RoleIds -> SUBSET Codes] /\ role[id] \in Names
      BY <1>0, <1>3 DEF AccessTypeOK, Exists
    <2>3. /\ role' \in [RoleIds -> Names \cup {None}] /\ role'[id] = None
          /\ \A i \in RoleIds \ {id} : role'[i] = role[i] /\ chosen'[i] = chosen[i]
          /\ chosen' \in [RoleIds -> SUBSET Codes] /\ chosen'[id] = {}
      BY <1>0, <2>1, <2>2
    <2>4. AccessTypeOK'
      BY <1>0, <1>1, <2>1, <2>2, <2>3, NameFacts DEF AccessTypeOK
    <2>5. /\ \A i \in RoleIds \ {id} : GrantsOf(i)' = GrantsOf(i)
          /\ {g \in grants' : g[1] = id} = {}
      BY <2>1 DEF GrantsOf
    <2>6. \A o \in Requests : ReqInv(o)' /\ SawInv(o)'
      <3>1. \A i : GrantsOf(i)' \subseteq GrantsOf(i)
        BY <2>1 DEF GrantsOf
      <3> QED
        BY <1>0, <1>1, <3>1 DEF AInv, ReqInv, SawInv, Id, Name
    <2>7. CatalogueInv'
      BY <1>0, <2>1 DEF AInv, CatalogueInv, Running, Selected, mvars
    <2>8. GrantsChosenUnlessMixed'
      <3> SUFFICES ASSUME NEW i \in RoleIds \ mixed PROVE CodesOf(i)' = chosen'[i]
        BY <1>0 DEF GrantsChosenUnlessMixed
      <3>1. CASE i = id
        BY <2>3, <2>5, <3>1 DEF CodesOf, GrantsOf
      <3>2. CASE i # id
        BY <2>3, <2>5, <3>2 DEF AInv, GrantsChosenUnlessMixed, CodesOf
      <3> QED
        BY <3>1, <3>2
    <2>9. RootInv'
      BY <1>0, <1>1, <2>1, <2>2, <2>3 DEF AInv, RootInv, Exists, Same, Replacing, Id
    <2>10. RoleNamesUnique'
      BY <1>0, <2>3 DEF AInv, RoleNamesUnique, Exists, Same
    <2>11. WritingInv'
      <3> SUFFICES ASSUME NEW o \in Requests, At(o, "writing")'
                   PROVE  /\ \A i \in RoleIds \ {Id(o)'} : Exists(i)' /\ Same(role'[i], Name(o)') =>
                               Lower[Name(o)'] \in crowded'
                          /\ \A x \in Requests \ {o} : At(x, "writing")' /\ Same(Name(x)', Name(o)')
                               => Lower[Name(o)'] \in crowded'
        BY DEF WritingInv, Same
      <3>1. req'[o] = req[o] /\ At(o, "writing")
        BY <1>1 DEF At
      <3>2. \A x \in Requests : At(x, "writing")' => At(x, "writing") /\ req'[x] = req[x]
        BY <1>1 DEF At
      <3> QED
        BY <1>0, <2>3, <3>1, <3>2 DEF AInv, WritingInv, Exists, Same, Id, Name
    <2>12. TokenInv'
      <3> SUFFICES ASSUME NEW a \in Accounts, token[a] # None
                   PROVE  \/ Lower[token[a]] \in passed'
                          \/ Exists(RoleOf[a])' /\ Same(role'[RoleOf[a]], token[a])
        BY <1>0 DEF TokenInv, Same
      <3>1. RoleOf[a] \in RoleIds
        BY NameFacts
      <3>2. RoleOf[a] = id => (Same(role[id], token[a]) => Lower[token[a]] \in passed')
        BY <2>1 DEF Same
      <3> QED
        BY <2>1, <2>3, <3>1, <3>2 DEF AInv, TokenInv, Exists
    <2> QED
      BY <2>4, <2>6, <2>7, <2>8, <2>9, <2>10, <2>11, <2>12 DEF AInv
  <1> QED
    BY <1>2, <1>3

LEMMA GrantKeeps == ASSUME AInv, NEW q \in Requests, Grant(q) PROVE AInv'
  <1> DEFINE id == Id(q)
             wanted == req[q].codes \cap permissions
             kept == grants \ req[q].saw
             added == {<<id, c, q>> : c \in {d \in wanted : \A g \in kept : g[1] # id \/ g[2] # d}}
  <1>0. /\ AccessTypeOK /\ ReqInv(q) /\ SawInv(q) /\ At(q, "granting") /\ Done(q) /\ id \in RoleIds
        /\ UNCHANGED <<mvars, role, permissions, people, token, crowded, passed, rooted>>
        /\ req[q].codes \subseteq Codes /\ req[q].op = "replace"
    BY DEF AInv, Grant, At, ReqInv
  <1>1. /\ req' \in [Requests -> Request] /\ \A o \in Requests \ {q} : req'[o] = req[o]
        /\ req'[q].at = "answered" /\ ReqInv(q)' /\ SawInv(q)' /\ ~Replacing(q)' /\ ~At(q, "writing")'
    BY <1>0, DoneFrame
  <1>2. CASE ~(wanted = {} \/ Exists(id))
    <2>1. UNCHANGED <<grants, chosen, mixed>>
      BY <1>2 DEF Grant
    <2> QED
      BY <1>0, <1>1, <2>1, QuietRequest DEF tables, AccessTypeOK
  <1>3. CASE wanted = {} \/ Exists(id)
    <2>1. /\ grants' = kept \cup added
          /\ chosen' = [chosen EXCEPT ![id] = wanted]
          /\ mixed' = IF Overlaps(q) THEN mixed \cup {id} ELSE mixed
      BY <1>3 DEF Grant
    <2>2. /\ grants \subseteq RoleIds \X Codes \X (Requests \cup {None}) /\ mixed \subseteq RoleIds
          /\ chosen \in [RoleIds -> SUBSET Codes] /\ permissions \subseteq Codes /\ wanted \subseteq Codes
      BY <1>0 DEF AccessTypeOK
    <2>3. /\ added \subseteq RoleIds \X Codes \X (Requests \cup {None})
          /\ \A g \in added : g[1] = id /\ g[2] \in wanted
      BY <1>0, <2>2
    <2>4. /\ chosen' \in [RoleIds -> SUBSET Codes] /\ chosen'[id] = wanted
          /\ \A i \in RoleIds \ {id} : chosen'[i] = chosen[i]
      BY <1>0, <2>1, <2>2
    <2>5. mixed \subseteq mixed' /\ mixed' \subseteq RoleIds
      BY <1>0, <2>1, <2>2
    <2>6. AccessTypeOK'
      <3>1. grants' \subseteq RoleIds \X Codes \X (Requests \cup {None})
        BY <2>1, <2>2, <2>3
      <3> QED
        BY <1>0, <1>1, <2>4, <2>5, <3>1 DEF AccessTypeOK
    <2>7. \A i \in RoleIds \ {id} : GrantsOf(i)' = GrantsOf(i)
      <3>1. \A g \in req[q].saw : g[1] = id
        BY <1>0 DEF SawInv, At
      <3> QED
        BY <2>1, <2>3, <3>1 DEF GrantsOf
    <2>8. \A o \in Requests : ReqInv(o)' /\ SawInv(o)'
      <3> SUFFICES ASSUME NEW o \in Requests \ {q} PROVE ReqInv(o)' /\ SawInv(o)'
        BY <1>1
      <3>1. ReqInv(o)' /\ req'[o] = req[o]
        BY <1>1 DEF AInv, ReqInv, Id, Name
      <3>2. ASSUME req[o].at \in {"locking", "granting"}
            PROVE  Id(o) \in mixed' \/ {g \in grants' : g[1] = Id(o)} \subseteq req[o].saw
        <4>1. Id(o) \in RoleIds
          BY <3>2 DEF AInv, ReqInv
        <4>2. CASE Id(o) = id
          BY <2>1, <3>2, <4>2 DEF Overlaps
        <4>3. CASE Id(o) # id
          <5>1. {g \in grants' : g[1] = Id(o)} = {g \in grants : g[1] = Id(o)}
            BY <2>7, <4>1, <4>3 DEF GrantsOf
          <5> QED
            BY <2>5, <3>2, <5>1 DEF AInv, SawInv, GrantsOf
        <4> QED
          BY <4>2, <4>3
      <3> QED
        BY <3>1, <3>2 DEF AInv, SawInv, Id, GrantsOf
    <2>9. CatalogueInv'
      <3>1. \A g \in grants' : g[2] \in permissions
        BY <2>1, <2>3 DEF AInv, CatalogueInv
      <3> QED
        BY <1>0, <3>1 DEF AInv, CatalogueInv, Running, Selected, mvars
    <2>10. GrantsChosenUnlessMixed'
      <3> SUFFICES ASSUME NEW i \in RoleIds \ mixed' PROVE CodesOf(i)' = chosen'[i]
        BY DEF GrantsChosenUnlessMixed
      <3>1. CASE i # id
        BY <2>4, <2>5, <2>7, <3>1 DEF AInv, GrantsChosenUnlessMixed, CodesOf
      <3>2. CASE i = id
        <4>1. GrantsOf(id) \subseteq req[q].saw
          BY <1>0, <2>5, <3>2 DEF SawInv, At
        <4>2. \A g \in kept : g[1] # id
          BY <4>1 DEF GrantsOf
        <4>3. added = {<<id, c, q>> : c \in wanted}
          BY <4>2
        <4>4. {g \in grants' : g[1] = id} = added
          BY <2>1, <2>3, <4>2 DEF GrantsOf
        <4>5. {g[2] : g \in {h \in grants' : h[1] = id}} = wanted
          <5>1. \A c \in wanted : <<id, c, q>> \in added /\ <<id, c, q>>[2] = c
            BY <4>3
          <5> HIDE DEF added, wanted
          <5> QED
            BY <2>3, <4>4, <5>1
        <4> QED
          BY <2>4, <3>2, <4>5 DEF CodesOf, GrantsOf
      <3> QED
        BY <3>1, <3>2
    <2>11. RootInv'
      <3>1. ASSUME NEW i \in rooted
            PROVE  Exists(i)' /\ Same(role'[i], SuperAdminRoleName) /\ (i \in mixed' \/ chosen'[i] = Codes)
        <4>1. i \in RoleIds /\ permissions = Codes
          BY <1>0, <3>1 DEF AccessTypeOK, AInv, CatalogueInv
        <4>2. i = id => wanted = Codes
          BY <1>0, <3>1, <4>1 DEF AInv, RootInv, Replacing, At
        <4> QED
          BY <1>0, <2>4, <2>5, <3>1, <4>1, <4>2 DEF AInv, RootInv, Exists
      <3> QED
        BY <1>0, <1>1, <3>1 DEF AInv, RootInv, Replacing, Id, Same
    <2>12. RoleNamesUnique' /\ WritingInv' /\ TokenInv'
      BY <1>0, <1>1, NamesKept DEF At
    <2> QED
      BY <2>6, <2>8, <2>9, <2>10, <2>11, <2>12 DEF AInv
  <1> QED
    BY <1>2, <1>3

\* Everything is granted to the superadmin there is.
LEMMA GrantAllKeeps ==
  ASSUME AInv, GrantAll(Roots, Codes), permissions' = Codes,
         UNCHANGED <<role, people, token, req, crowded, passed>>
  PROVE  AInv'
  <1> DEFINE new == UNION {{<<id, c, None>> : c \in Codes \ CodesOf(id)} : id \in Roots}
  <1>0. /\ grants' = grants \cup new
        /\ chosen' = [id \in RoleIds |-> IF id \in Roots THEN Codes ELSE chosen[id]]
        /\ mixed' = mixed \cup {Id(q) : q \in {o \in Requests : Id(o) \in Roots /\
                                                 req[o].at \in {"locking", "granting"}}}
        /\ rooted' = rooted \cup (Roots \ {Id(q) : q \in {o \in Requests : Replacing(o)}})
    BY DEF GrantAll
  <1>1. /\ grants \subseteq RoleIds \X Codes \X (Requests \cup {None}) /\ mixed \subseteq RoleIds
        /\ chosen \in [RoleIds -> SUBSET Codes] /\ rooted \subseteq RoleIds /\ Roots \subseteq RoleIds
    BY DEF AInv, AccessTypeOK, Roots
  <1>2. new \subseteq RoleIds \X Codes \X (Requests \cup {None}) /\ \A g \in new : g[1] \in Roots
    BY <1>1
  <1> HIDE DEF new
  <1>3. AccessTypeOK'
    <2>1. mixed' \subseteq RoleIds /\ rooted' \subseteq RoleIds /\ chosen' \in [RoleIds -> SUBSET Codes]
      BY <1>0, <1>1
    <2>2. grants' \subseteq RoleIds \X Codes \X (Requests \cup {None})
      BY <1>0, <1>1, <1>2
    <2> QED
      BY <2>1, <2>2 DEF AInv, AccessTypeOK
  <1>4. \A id \in RoleIds \ Roots : GrantsOf(id)' = GrantsOf(id)
    BY <1>0, <1>2 DEF GrantsOf
  <1>5. \A q \in Requests : ReqInv(q)' /\ SawInv(q)'
    <2> SUFFICES ASSUME NEW q \in Requests PROVE SawInv(q)'
      BY DEF AInv, ReqInv, Id, Name
    <2>1. ASSUME req[q].at \in {"locking", "granting"}
          PROVE  Id(q) \in mixed' \/ {g \in grants' : g[1] = Id(q)} \subseteq req[q].saw
      <3>1. Id(q) \in RoleIds
        BY <2>1 DEF AInv, ReqInv
      <3>2. CASE Id(q) \in Roots
        BY <1>0, <2>1, <3>2
      <3>3. CASE Id(q) \notin Roots
        <4>1. {g \in grants' : g[1] = Id(q)} = {g \in grants : g[1] = Id(q)}
          BY <1>4, <3>1, <3>3 DEF GrantsOf
        <4> QED
          BY <1>0, <2>1, <4>1 DEF AInv, SawInv, GrantsOf
      <3> QED
        BY <3>2, <3>3
    <2> QED
      BY <2>1 DEF AInv, SawInv, Id, GrantsOf
  <1>6. CatalogueInv'
    BY <1>3 DEF CatalogueInv, AccessTypeOK
  <1>7. GrantsChosenUnlessMixed'
    <2> SUFFICES ASSUME NEW id \in RoleIds \ mixed' PROVE CodesOf(id)' = chosen'[id]
      BY DEF GrantsChosenUnlessMixed
    <2>1. CASE id \notin Roots
      BY <1>0, <1>4, <2>1 DEF AInv, GrantsChosenUnlessMixed, CodesOf
    <2>2. CASE id \in Roots
      <3>1. CodesOf(id)' \subseteq Codes
        BY <1>3 DEF AccessTypeOK, CodesOf, GrantsOf
      <3>2. ASSUME NEW c \in Codes PROVE c \in CodesOf(id)'
        <4>1. CASE c \in CodesOf(id)
          BY <1>0, <4>1 DEF CodesOf, GrantsOf
        <4>2. CASE c \notin CodesOf(id)
          <5>1. <<id, c, None>> \in new /\ <<id, c, None>>[1] = id /\ <<id, c, None>>[2] = c
            BY <2>2, <4>2 DEF new
          <5> QED
            BY <1>0, <5>1 DEF CodesOf, GrantsOf
        <4> QED
          BY <4>1, <4>2
      <3> QED
        BY <1>0, <1>1, <2>2, <3>1, <3>2
    <2> QED
      BY <2>1, <2>2
  <1>8. RootInv'
    <2>1. ASSUME NEW id \in rooted'
          PROVE  Exists(id)' /\ Same(role'[id], SuperAdminRoleName) /\ (id \in mixed' \/ chosen'[id] = Codes)
      <3>1. CASE id \in Roots
        BY <1>0, <1>1, <3>1 DEF Roots, Exists
      <3>2. CASE id \notin Roots
        BY <1>0, <1>1, <3>2 DEF AInv, RootInv, Exists
      <3> QED
        BY <3>1, <3>2
    <2>2. \A q \in Requests : Replacing(q) /\ Id(q) \in rooted' => Id(q) \in rooted
      BY <1>0
    <2> QED
      BY <2>1, <2>2 DEF AInv, RootInv, Replacing, Id, Same
  <1>9. RoleNamesUnique' /\ WritingInv' /\ TokenInv'
    BY NamesKept
  <1> QED
    BY <1>3, <1>5, <1>6, <1>7, <1>8, <1>9 DEF AInv

\* Steps that touch the catalogue, the accounts and the commands only.
LEMMA RolesKept ==
  ASSUME AInv, UNCHANGED <<role, grants, token, req, history>>,
         permissions \subseteq permissions', permissions' \subseteq Codes, people' \subseteq Accounts,
         \A p \in Runners : Running(p, "granting")' /\ Selected(p, "catalog")' => permissions' = Codes
  PROVE  AInv'
  <1>1. AccessTypeOK' /\ GrantsChosenUnlessMixed' /\ RootInv'
    BY DEF AInv, AccessTypeOK, GrantsChosenUnlessMixed, CodesOf, GrantsOf, RootInv, Exists, Same,
           Replacing, Id, history
  <1>2. \A q \in Requests : ReqInv(q)' /\ SawInv(q)'
    BY DEF AInv, ReqInv, SawInv, Id, Name, GrantsOf, history
  <1>3. CatalogueInv'
    BY DEF AInv, CatalogueInv, history
  <1>4. RoleNamesUnique' /\ WritingInv' /\ TokenInv'
    BY NamesKept DEF history
  <1> QED
    BY <1>1, <1>2, <1>3, <1>4 DEF AInv

LEMMA RunStepStages ==
  ASSUME MigrationsTypeOK, NEW p \in Runners, RunStep(p), NEW r \in Runners,
         run'[r].at = "granting"
  PROVE  run'[r] = run[r]
  <1>1. run[p] \in Run /\ run \in [Runners -> Run]
    BY DEF MigrationsTypeOK
  <1>2. r # p => run'[r] = run[r]
    BY <1>1 DEF RunStep, StartRun, ReadLedger, Inspect, Skip, Apply, Record, Finish, StopRun, RunsOn
  <1>3. run'[p].at # "granting"
    <2>1. ASSUME NEW s, RunsOn(p, s) PROVE run'[p].at = s
      BY <1>1, <2>1 DEF RunsOn, Run
    <2>2. ASSUME run' = [run EXCEPT ![p].pos = @ + 1] PROVE run'[p].at = run[p].at
      BY <1>1, <2>2 DEF Run
    <2>3. ASSUME StartRun(p) PROVE run'[p].at = "reading"
      BY <1>1, <2>3 DEF StartRun
    <2>4. ASSUME ReadLedger(p) PROVE run'[p].at \in {"inspecting", "failed", "applying"}
      <3>1. run'[p].at = IF ledger = Nothing THEN "inspecting"
                         ELSE IF run[p].mode = "baseline" THEN "failed" ELSE "applying"
        BY <1>1, <2>4 DEF ReadLedger, Run
      <3> QED
        BY <3>1
    <2>5. ASSUME Inspect(p) PROVE run'[p].at # "granting"
      BY <2>1, <2>5 DEF Inspect
    <2>6. ASSUME Skip(p) PROVE run'[p].at # "granting"
      BY <2>1, <2>2, <2>6 DEF Skip, Running, RunsOn
    <2>7. ASSUME Apply(p) PROVE run'[p].at # "granting"
      BY <2>1, <2>2, <2>7 DEF Apply, Running
    <2>8. ASSUME Record(p) PROVE run'[p].at # "granting"
      BY <2>1, <2>2, <2>8 DEF Record, Running
    <2>9. ASSUME Finish(p) PROVE run'[p].at # "granting"
      BY <2>1, <2>9 DEF Finish
    <2>10. ASSUME StopRun(p) PROVE run'[p].at # "granting"
      BY <2>1, <2>10 DEF StopRun
    <2> QED
      BY <2>3, <2>4, <2>5, <2>6, <2>7, <2>8, <2>9, <2>10 DEF RunStep
  <1> QED
    BY <1>2, <1>3

LEMMA MigrateKeeps == ASSUME AInv, MInv, NEW p \in Runners, Migrate(p) PROVE AInv'
  <1>0. RunStep(p) /\ UNCHANGED <<role, people, token, req, crowded, passed>>
    BY DEF Migrate
  <1>1. CASE built[Catalogue] = None /\ built'[Catalogue] # None
    <2>1. permissions' = Codes /\ GrantAll(Roots, Codes)
      BY <1>1 DEF Migrate
    <2> QED
      BY <1>0, <2>1, GrantAllKeeps
  <1>2. CASE ~(built[Catalogue] = None /\ built'[Catalogue] # None)
    <2>1. UNCHANGED <<permissions, grants, chosen, mixed, rooted>>
      BY <1>2 DEF Migrate
    <2>2. ASSUME NEW r \in Runners, Running(r, "granting")', Selected(r, "catalog")'
          PROVE  permissions' = Codes
      <3>1. run'[r] = run[r]
        BY <1>0, <2>2, RunStepStages DEF MInv, Running
      <3> QED
        BY <2>1, <2>2, <3>1 DEF AInv, CatalogueInv, Running, Selected
    <2> QED
      BY <1>0, <2>1, <2>2, RolesKept DEF AInv, AccessTypeOK, history
  <1> QED
    BY <1>1, <1>2

LEMMA SeedCatalogKeeps == ASSUME AInv, MInv, NEW p \in Runners, SeedCatalog(p) PROVE AInv'
  <1>0. /\ run[p].at = "catalog" /\ UNCHANGED <<role, grants, people, token, req, history>>
        /\ MigrationsTypeOK /\ permissions \subseteq Codes /\ people \subseteq Accounts
    BY DEF AInv, AccessTypeOK, MInv, SeedCatalog, Running
  <1>1. permissions' \in {permissions, Codes}
    BY DEF SeedCatalog
  <1>2. PICK s \in {"granting", "failed"} :
          RunsOn(p, s) /\ (s = "granting" /\ Selected(p, "catalog") => permissions' = Codes)
    BY DEF SeedCatalog, Then
  <1>3. /\ run'[p].at = s /\ run'[p].skip = run[p].skip
        /\ \A q \in Runners \ {p} : run'[q] = run[q]
    BY <1>0, <1>2, RunsOnFrame DEF RunStage, SeedStages
  <1>4. ASSUME NEW r \in Runners, Running(r, "granting")', Selected(r, "catalog")'
        PROVE  permissions' = Codes
    <2>1. CASE r = p
      BY <1>2, <1>3, <1>4, <2>1 DEF Running, Selected
    <2>2. CASE r # p
      BY <1>1, <1>3, <1>4, <2>2 DEF AInv, CatalogueInv, Running, Selected
    <2> QED
      BY <2>1, <2>2
  <1> QED
    BY <1>0, <1>1, <1>4, RolesKept

LEMMA SeedGrantsKeeps == ASSUME AInv, MInv, NEW p \in Runners, SeedGrants(p) PROVE AInv'
  <1>0. /\ run[p].at = "granting" /\ RunsOn(p, "users") /\ MigrationsTypeOK
        /\ UNCHANGED <<role, permissions, people, token, req, crowded, passed>>
    BY DEF MInv, SeedGrants, Running, Then
  <1>1. CASE Selected(p, "catalog")
    <2>1. permissions = Codes
      BY <1>0, <1>1 DEF AInv, CatalogueInv, Running
    <2> QED
      BY <1>0, <1>1, <2>1, GrantAllKeeps DEF SeedGrants
  <1>2. CASE ~Selected(p, "catalog")
    <2>1. UNCHANGED <<grants, chosen, mixed, rooted>>
      BY <1>2 DEF SeedGrants
    <2>2. run'[p].at = "users" /\ \A q \in Runners \ {p} : run'[q] = run[q]
      BY <1>0, RunsOnFrame DEF RunStage, SeedStages
    <2>3. \A r \in Runners : Running(r, "granting")' /\ Selected(r, "catalog")' => permissions' = Codes
      BY <1>0, <2>2 DEF AInv, CatalogueInv, Running, Selected
    <2> QED
      BY <1>0, <2>1, <2>3, RolesKept DEF AInv, AccessTypeOK, history
  <1> QED
    BY <1>1, <1>2

LEMMA SeedUsersKeeps == ASSUME AInv, MInv, NEW p \in Runners, SeedUsers(p) PROVE AInv'
  <1>0. /\ UNCHANGED <<role, permissions, grants, token, req, history>>
        /\ MigrationsTypeOK /\ people' \subseteq Accounts /\ permissions \subseteq Codes
    BY DEF AInv, AccessTypeOK, MInv, SeedUsers
  <1>1. PICK s \in {"done", "failed"} : RunsOn(p, s)
    BY DEF SeedUsers, Then
  <1>2. run'[p].at = s /\ \A q \in Runners \ {p} : run'[q] = run[q]
    BY <1>0, <1>1, RunsOnFrame DEF RunStage, SeedStages
  <1>3. \A r \in Runners : Running(r, "granting")' /\ Selected(r, "catalog")' => permissions' = Codes
    BY <1>0, <1>2 DEF AInv, CatalogueInv, Running, Selected
  <1> QED
    BY <1>0, <1>3, RolesKept

LEMMA IssueKeeps == ASSUME AInv, NEW a \in Accounts, Issue(a) PROVE AInv'
  <1>0. /\ UNCHANGED <<mvars, tables, req, history>>
        /\ token' = [token EXCEPT ![a] = role[RoleOf[a]]]
    BY DEF Issue
  <1>1. token \in [Accounts -> Names \cup {None}] /\ role[RoleOf[a]] \in Names \cup {None}
    BY NameFacts DEF AInv, AccessTypeOK
  <1>2. /\ token' \in [Accounts -> Names \cup {None}] /\ token'[a] = role[RoleOf[a]]
        /\ \A b \in Accounts \ {a} : token'[b] = token[b]
    BY <1>0, <1>1
  <1>3. AccessTypeOK' /\ CatalogueInv' /\ GrantsChosenUnlessMixed' /\ RootInv'
    BY <1>0, <1>2 DEF AInv, AccessTypeOK, CatalogueInv, GrantsChosenUnlessMixed, CodesOf, GrantsOf,
                      RootInv, Exists, Same, Replacing, Id, history, tables, mvars, Running, Selected
  <1>4. \A q \in Requests : ReqInv(q)' /\ SawInv(q)'
    BY <1>0 DEF AInv, ReqInv, SawInv, Id, Name, GrantsOf, history, tables
  <1>5. RoleNamesUnique' /\ WritingInv'
    BY <1>0 DEF AInv, RoleNamesUnique, WritingInv, Exists, Same, At, Id, Name, history, tables
  <1>6. TokenInv'
    BY <1>0, <1>2 DEF AInv, TokenInv, Exists, Same, history, tables
  <1> QED
    BY <1>3, <1>4, <1>5, <1>6 DEF AInv

LEMMA SeedRolesKeeps == ASSUME AInv, MInv, NEW p \in Runners, SeedRoles(p) PROVE AInv'
  <1>0. /\ UNCHANGED <<permissions, grants, people, token, req, chosen, mixed>>
        /\ AccessTypeOK /\ MigrationsTypeOK /\ people \subseteq Accounts /\ permissions \subseteq Codes
    BY DEF AInv, AccessTypeOK, MInv, SeedRoles
  <1>1. PICK s \in {"catalog", "failed"} : RunsOn(p, s)
    BY DEF SeedRoles, Then
  <1>2. run'[p].at = s /\ \A q \in Runners \ {p} : run'[q] = run[q]
    BY <1>0, <1>1, RunsOnFrame DEF RunStage, SeedStages
  <1>3. \A r \in Runners : Running(r, "granting")' /\ Selected(r, "catalog")' => permissions' = Codes
    BY <1>0, <1>2 DEF AInv, CatalogueInv, Running, Selected
  <1>4. CASE UNCHANGED <<role, crowded, passed, rooted>>
    BY <1>0, <1>3, <1>4, RolesKept DEF history
  <1>5. CASE ~UNCHANGED <<role, crowded, passed, rooted>>
    <2> DEFINE given == {id \in Seeded : role[id] \notin {None, id}}
               doubled == {m \in Seeded :
                  \/ \E id \in RoleIds \ {m} : role'[id] # None /\ Same(role'[id], m)
                  \/ \E q \in Requests : At(q, "writing") /\ Same(Name(q), m)}
    <2>1. /\ ~Clash
          /\ role' = [id \in RoleIds |-> IF id \in Seeded THEN id ELSE role[id]]
          /\ crowded' = crowded \cup {Lower[n] : n \in doubled}
          /\ passed' = passed \cup {Lower[role[id]] : id \in given}
          /\ rooted' = {id \in rooted : Same(role'[id], SuperAdminRoleName)}
      BY <1>5 DEF SeedRoles
    <2>2. /\ role \in [RoleIds -> Names \cup {None}] /\ crowded \subseteq Names /\ passed \subseteq Names
          /\ rooted \subseteq RoleIds
      BY <1>0 DEF AccessTypeOK
    <2>3. /\ \A id \in Seeded : role'[id] = id
          /\ \A id \in RoleIds \ Seeded : role'[id] = role[id]
          /\ role' \in [RoleIds -> Names \cup {None}]
      BY <2>1, <2>2, NameFacts
    <2>4. given \subseteq Seeded /\ doubled \subseteq Seeded /\ \A id \in given : role[id] \in Names
      BY <2>2, NameFacts
    <2>5. /\ crowded \subseteq crowded' /\ passed \subseteq passed' /\ rooted' \subseteq rooted
          /\ crowded' \subseteq Names /\ passed' \subseteq Names
      BY <2>1, <2>2, <2>4, NameFacts
    <2>6. \A m \in Seeded : m \in doubled => Lower[m] \in crowded'
      BY <2>1
    <2>7. AccessTypeOK'
      BY <1>0, <2>2, <2>3, <2>5 DEF AccessTypeOK
    <2>8. \A q \in Requests : ReqInv(q)' /\ SawInv(q)'
      BY <1>0 DEF AInv, ReqInv, SawInv, Id, Name, GrantsOf
    <2>9. CatalogueInv'
      BY <1>0, <1>3, <2>5 DEF AInv, CatalogueInv
    <2>10. GrantsChosenUnlessMixed'
      BY <1>0 DEF AInv, GrantsChosenUnlessMixed, CodesOf, GrantsOf
    <2>11. RootInv'
      <3>1. ASSUME NEW id \in rooted'
            PROVE  Exists(id)' /\ Same(role'[id], SuperAdminRoleName) /\ (id \in mixed' \/ chosen'[id] = Codes)
        <4>1. id \in rooted /\ Same(role'[id], SuperAdminRoleName) /\ id \in RoleIds
          BY <2>1, <2>2
        <4>2. Exists(id)'
          BY <2>3, <4>1, NameFacts DEF AInv, RootInv, Exists
        <4> QED
          BY <1>0, <4>1, <4>2 DEF AInv, RootInv
      <3> QED
        BY <1>0, <2>5, <3>1 DEF AInv, RootInv, Replacing, Id, Same
    <2>12. RoleNamesUnique'
      <3> SUFFICES ASSUME NEW i \in RoleIds, NEW j \in RoleIds, i # j, Exists(i)', Exists(j)'
                   PROVE  /\ role'[i] # role'[j]
                          /\ Same(role'[i], role'[j]) => Lower[role'[i]] \in crowded'
        BY DEF RoleNamesUnique, Same
      <3>1. ASSUME NEW id \in RoleIds \ Seeded PROVE role[id] \notin Seeded
        <4> SUFFICES ASSUME NEW n \in 1..Len(Fixture), role[id] = Fixture[n] PROVE FALSE
          BY DEF Seeded
        <4>1. \A m \in 1..Len(Fixture) : id # Fixture[m]
          BY <3>1 DEF Seeded
        <4>2. \A m \in 1..(n - 1) : m \in 1..Len(Fixture)
          BY AccessConfig
        <4> QED
          BY <2>1, <4>1, <4>2 DEF Clash
      <3>2. role'[i] # role'[j]
        <4>1. CASE i \in Seeded /\ j \in Seeded
          BY <2>3, <4>1
        <4>2. CASE i \notin Seeded /\ j \notin Seeded
          BY <2>3, <4>2 DEF AInv, RoleNamesUnique, Exists
        <4>3. CASE i \in Seeded /\ j \notin Seeded
          BY <2>3, <3>1, <4>3
        <4>4. CASE i \notin Seeded /\ j \in Seeded
          BY <2>3, <3>1, <4>4
        <4> QED
          BY <4>1, <4>2, <4>3, <4>4
      <3>3. ASSUME Same(role'[i], role'[j]) PROVE Lower[role'[i]] \in crowded'
        <4>1. CASE i \in Seeded
          <5>1. i \in doubled
            BY <2>3, <3>3, <4>1 DEF Exists, Same
          <5> QED
            BY <2>3, <2>6, <4>1, <5>1
        <4>2. CASE j \in Seeded
          <5>1. j \in doubled
            BY <2>3, <3>3, <4>2 DEF Exists, Same
          <5> QED
            BY <2>3, <2>6, <3>3, <4>2, <5>1 DEF Same
        <4>3. CASE i \notin Seeded /\ j \notin Seeded
          BY <2>3, <2>5, <3>3, <4>3 DEF AInv, RoleNamesUnique, Exists, Same
        <4> QED
          BY <4>1, <4>2, <4>3
      <3> QED
        BY <3>2, <3>3
    <2>13. WritingInv'
      <3> SUFFICES ASSUME NEW o \in Requests, At(o, "writing")
                   PROVE  /\ \A i \in RoleIds \ {Id(o)} : Exists(i)' /\ Same(role'[i], Name(o)) =>
                               Lower[Name(o)] \in crowded'
                          /\ \A x \in Requests \ {o} : At(x, "writing") /\ Same(Name(x), Name(o))
                               => Lower[Name(o)] \in crowded'
        BY <1>0 DEF WritingInv, Same, At, Id, Name
      <3>1. ASSUME NEW i \in RoleIds \ {Id(o)}, Exists(i)', Same(role'[i], Name(o))
            PROVE  Lower[Name(o)] \in crowded'
        <4>1. CASE i \in Seeded
          <5>1. i \in doubled
            BY <2>3, <3>1, <4>1 DEF Same
          <5> QED
            BY <2>3, <2>6, <3>1, <4>1, <5>1 DEF Same
        <4>2. CASE i \notin Seeded
          BY <2>3, <2>5, <3>1, <4>2 DEF AInv, WritingInv, Exists
        <4> QED
          BY <4>1, <4>2
      <3> QED
        BY <2>5, <3>1 DEF AInv, WritingInv
    <2>14. TokenInv'
      <3> SUFFICES ASSUME NEW a \in Accounts, token[a] # None
                   PROVE  \/ Lower[token[a]] \in passed'
                          \/ Exists(RoleOf[a])' /\ Same(role'[RoleOf[a]], token[a])
        BY <1>0 DEF TokenInv, Same
      <3>1. RoleOf[a] \in Seeded /\ RoleOf[a] \in RoleIds
        BY NameFacts
      <3>2. CASE Lower[token[a]] \in passed
        BY <2>5, <3>2
      <3>3. CASE Exists(RoleOf[a]) /\ Same(role[RoleOf[a]], token[a])
        <4>1. CASE role[RoleOf[a]] = RoleOf[a]
          BY <2>3, <3>1, <3>3, <4>1 DEF Exists
        <4>2. CASE role[RoleOf[a]] # RoleOf[a]
          <5>1. RoleOf[a] \in given
            BY <3>1, <3>3, <4>2 DEF Exists
          <5> QED
            BY <2>1, <3>3, <5>1 DEF Same
        <4> QED
          BY <4>1, <4>2
      <3> QED
        BY <3>2, <3>3 DEF AInv, TokenInv
    <2> QED
      BY <2>7, <2>8, <2>9, <2>10, <2>11, <2>12, <2>13, <2>14 DEF AInv
  <1> QED
    BY <1>4, <1>5

-----------------------------------------------------------------------------
(* Both together                                                           *)

LEMMA Idle == NoRun \in Run /\ NoRequest \in Request /\ Nothing \in [Versions -> Checksums \cup {None}]
  <1>1. Nothing \in [Versions -> Checksums \cup {None}] /\ 1 \in 1..(Last + 1)
    BY VersionFacts DEF Nothing
  <1>2. NoRun \in Run
    BY <1>1 DEF NoRun, Run, RunStage
  <1>3. NoRequest \in Request
    BY DEF NoRequest, Request, Stage
  <1> QED
    BY <1>1, <1>2, <1>3

LEMMA QuietStart ==
  ASSUME req = [q \in Requests |-> NoRequest], run = [p \in Runners |-> NoRun]
  PROVE  /\ \A q \in Requests : ReqInv(q) /\ SawInv(q) /\ ~Replacing(q) /\ ~At(q, "writing")
         /\ \A p \in Runners : ~Running(p, "granting") /\ ~Running(p, "recording") /\ RunInv(p)
                               /\ run[p].at \notin {"done"} \cup SeedStages
  <1>1. \A q \in Requests : req[q].at = "idle"
    BY DEF NoRequest
  <1>2. \A p \in Runners : run[p].at = "idle" /\ \A v \in Versions : run[p].seen[v] = None
    BY DEF NoRun, Nothing
  <1> QED
    BY <1>1, <1>2 DEF ReqInv, SawInv, Replacing, At, Running, RunInv, SeedStages

LEMMA AccessStart == Init => AInv /\ MInv
  <1> SUFFICES ASSUME Init PROVE AInv /\ MInv
    OBVIOUS
  <1>0. /\ adopted = {} /\ left = {} /\ run = [p \in Runners |-> NoRun]
        /\ req = [q \in Requests |-> NoRequest] /\ mixed = {} /\ crowded = {} /\ passed = {}
    BY DEF Init
  <1>1. /\ \A q \in Requests : ReqInv(q) /\ SawInv(q) /\ ~Replacing(q) /\ ~At(q, "writing")
        /\ \A p \in Runners : ~Running(p, "granting") /\ ~Running(p, "recording") /\ RunInv(p)
                              /\ run[p].at \notin {"done"} \cup SeedStages
        /\ req \in [Requests -> Request] /\ run \in [Runners -> Run]
    BY <1>0, QuietStart, Idle
  <1>2. ASSUME MInit, role = [id \in RoleIds |-> None], permissions = {}, grants = {}, people = {},
               token = [a \in Accounts |-> None], chosen = [id \in RoleIds |-> {}], rooted = {}
        PROVE  AInv /\ MInv
    <2>1. AccessTypeOK
      BY <1>0, <1>1, <1>2 DEF AccessTypeOK
    <2>2. CatalogueInv /\ GrantsChosenUnlessMixed /\ RootInv /\ RoleNamesUnique /\ WritingInv /\ TokenInv
      BY <1>1, <1>2 DEF CatalogueInv, GrantsChosenUnlessMixed, CodesOf, GrantsOf, RootInv,
                        RoleNamesUnique, Exists, WritingInv, TokenInv
    <2> QED
      BY <1>1, <1>2, <2>1, <2>2, MStart DEF AInv
  <1>3. ASSUME NEW files \in Releases, NEW some \in SUBSET Codes,
               built = [v \in Versions |-> IF v <= Len(files) THEN files[v] ELSE None],
               ledger = built, role = [id \in RoleIds |-> IF id \in Seeded THEN id ELSE None],
               permissions = Codes, people = Accounts,
               chosen = [id \in RoleIds |-> IF id = SuperAdminRoleName THEN Codes
                                            ELSE IF id \in Seeded THEN some ELSE {}],
               grants = UNION {{<<id, c, None>> : c \in chosen[id]} : id \in Seeded},
               token = [a \in Accounts |-> role[RoleOf[a]]],
               rooted = {SuperAdminRoleName}
        PROVE  AInv /\ MInv
    <2>1. \A v \in Versions : v <= Len(files) => v \in 1..Len(files)
      BY VersionFacts DEF Versions
    <2>2. /\ \A v \in Versions : v <= Len(files) => built[v] \in Checksums /\ built[v] # None
          /\ \A v \in Versions : ~(v <= Len(files)) => built[v] = None
          /\ built \in [Versions -> Checksums \cup {None}]
      BY <1>3, <2>1, VersionFacts
    <2>3. MigrationsTypeOK
      BY <1>0, <1>1, <1>3, <2>2 DEF MigrationsTypeOK
    <2>4. \A v \in Versions : built[v] # AutoMigrated
      BY <2>2, ReleasesOrdered, VersionFacts
    <2>5. LedgerHonest
      <3>1. ASSUME NEW v \in Versions, ledger[v] # None, NEW w \in 1..v PROVE ledger[w] # None
        <4>1. w \in Versions /\ v <= Len(files) /\ Len(files) \in Int
          BY <1>3, <2>2, <3>1, VersionFacts DEF Versions
        <4>2. w <= Len(files)
          BY <4>1, VersionFacts
        <4> QED
          BY <1>3, <2>2, <4>1, <4>2
      <3> QED
        BY <1>3, <3>1 DEF LedgerHonest
    <2>6. MInv
      BY <1>1, <2>3, <2>4, <2>5 DEF MInv, AutoFromTheStart, DoneMeansCurrent, Recoverable
    <2>7. /\ role \in [RoleIds -> Names \cup {None}] /\ \A id \in Seeded : role[id] = id /\ role[id] # None
          /\ \A id \in RoleIds \ Seeded : role[id] = None
      BY <1>3, NameFacts
    <2>8. /\ chosen \in [RoleIds -> SUBSET Codes] /\ chosen[SuperAdminRoleName] = Codes
          /\ \A id \in RoleIds \ Seeded : chosen[id] = {}
      BY <1>3, NameFacts
    <2>9. grants \subseteq RoleIds \X Codes \X (Requests \cup {None})
      <3>1. ASSUME NEW id \in Seeded, NEW c \in chosen[id]
            PROVE  <<id, c, None>> \in RoleIds \X Codes \X (Requests \cup {None})
        <4>1. id \in RoleIds /\ c \in Codes
          BY <2>8, NameFacts
        <4> QED
          BY <4>1
      <3>2. ASSUME NEW g \in grants PROVE g \in RoleIds \X Codes \X (Requests \cup {None})
        <4>1. PICK i \in Seeded : g \in {<<i, c, None>> : c \in chosen[i]}
          BY <1>3
        <4>2. PICK c \in chosen[i] : g = <<i, c, None>>
          BY <4>1
        <4> QED
          BY <3>1, <4>2
      <3> QED
        BY <3>2
    <2>10. token \in [Accounts -> Names \cup {None}] /\ \A a \in Accounts : token[a] = role[RoleOf[a]]
      BY <1>3, <2>7, NameFacts
    <2>11. AccessTypeOK
      <3>1. rooted \subseteq RoleIds
        BY <1>3, NameFacts
      <3> QED
        BY <1>0, <1>1, <1>3, <2>7, <2>8, <2>9, <2>10, <3>1 DEF AccessTypeOK
    <2>12. CatalogueInv
      BY <1>1, <1>3, <2>9 DEF CatalogueInv
    <2>13. GrantsChosenUnlessMixed
      <3> SUFFICES ASSUME NEW id \in RoleIds PROVE CodesOf(id) = chosen[id]
        BY DEF GrantsChosenUnlessMixed
      <3>1. ASSUME NEW g \in grants, g[1] = id PROVE g[2] \in chosen[id]
        <4>1. PICK i \in Seeded : g \in {<<i, c, None>> : c \in chosen[i]}
          BY <1>3
        <4> QED
          BY <3>1, <4>1
      <3>2. ASSUME NEW c \in chosen[id] PROVE <<id, c, None>> \in grants /\ <<id, c, None>>[1] = id
        <4>1. id \in Seeded
          BY <2>8, <3>2
        <4> QED
          BY <1>3, <4>1
      <3>3. \A c \in CodesOf(id) : c \in chosen[id]
        BY <3>1 DEF CodesOf, GrantsOf
      <3>4. ASSUME NEW c \in chosen[id] PROVE c \in CodesOf(id)
        <4>1. <<id, c, None>> \in grants /\ <<id, c, None>>[1] = id /\ <<id, c, None>>[2] = c
          BY <3>2
        <4> QED
          BY <4>1 DEF CodesOf, GrantsOf
      <3> QED
        BY <3>3, <3>4
    <2>14. RootInv
      BY <1>1, <1>3, <2>7, <2>8, NameFacts DEF RootInv, Exists, Same
    <2>15. RoleNamesUnique
      <3> SUFFICES ASSUME NEW i \in RoleIds, NEW j \in RoleIds, i # j, Exists(i), Exists(j)
                   PROVE  /\ role[i] # role[j]
                          /\ Same(role[i], role[j]) => Lower[role[i]] \in crowded
        BY DEF RoleNamesUnique
      <3>1. i \in Seeded /\ j \in Seeded /\ role[i] = i /\ role[j] = j
        BY <2>7 DEF Exists
      <3> QED
        BY <3>1, AccessConfig DEF Same
    <2>16. WritingInv /\ TokenInv
      BY <1>1, <2>7, <2>10, NameFacts DEF WritingInv, TokenInv, Exists, Same
    <2> QED
      BY <1>1, <2>6, <2>11, <2>12, <2>13, <2>14, <2>15, <2>16 DEF AInv
  <1>4. PICK codes \in Submitted : codes \subseteq Codes /\ codes \notin {{}, Codes}
    BY AccessConfig
  <1>5. (CHOOSE c \in Submitted : c \subseteq Codes /\ c \notin {{}, Codes}) \in SUBSET Codes
    BY <1>4
  <1> QED
    BY <1>2, <1>3, <1>5 DEF Init

\* Whatever the back office does, the history of the schema moves as in
\* Migrations.
LEMMA HistoryMoves == ASSUME AInv, MInv, [Next]_avars PROVE [MNext]_mvars
  <1>1. ASSUME NEW q \in Requests, Serve(q) PROVE UNCHANGED mvars
    BY <1>1 DEF Serve, Arrive, Find, CheckName, WriteName, CheckUse, DeleteRole, Clear, Lock, Grant, Stop
  <1>2. ASSUME NEW a \in Accounts, Issue(a) PROVE UNCHANGED mvars
    BY <1>2 DEF Issue
  <1>3. ASSUME NEW p \in Runners, Command(p) PROVE RunStep(p) \/ SeedOn(p)
    <2>1. CASE Migrate(p)
      BY <2>1 DEF Migrate
    <2>2. CASE SeedRoles(p)
      BY <2>2 DEF SeedRoles, SeedOn, Running, SeedStages, Then
    <2>3. CASE SeedCatalog(p)
      BY <2>3 DEF SeedCatalog, SeedOn, Running, SeedStages, Then
    <2>4. CASE SeedGrants(p)
      BY <2>4 DEF SeedGrants, SeedOn, Running, SeedStages, Then
    <2>5. CASE SeedUsers(p)
      BY <2>5 DEF SeedUsers, SeedOn, Running, SeedStages, Then
    <2> QED
      BY <1>3, <2>1, <2>2, <2>3, <2>4, <2>5 DEF Command
  <1> QED
    BY <1>1, <1>2, <1>3 DEF Next, MNext, avars

LEMMA AccessStutters == ASSUME AInv, UNCHANGED avars PROVE AInv'
  BY RolesKept DEF AInv, AccessTypeOK, CatalogueInv, avars, tables, history, mvars, Running, Selected

LEMMA AccessStep == AInv /\ MInv /\ [Next]_avars => AInv' /\ MInv'
  <1> SUFFICES ASSUME AInv, MInv, [Next]_avars PROVE AInv' /\ MInv'
    OBVIOUS
  <1>1. MInv'
    BY HistoryMoves, MStep
  <1>2. ASSUME NEW q \in Requests, Serve(q) PROVE AInv'
    BY <1>2, ArriveKeeps, FindKeeps, CheckNameKeeps, WriteNameKeeps, CheckUseKeeps, DeleteKeeps,
       ClearKeeps, LockKeeps, GrantKeeps, StopAsks DEF Serve
  <1>3. ASSUME NEW p \in Runners, Command(p) PROVE AInv'
    BY <1>3, MigrateKeeps, SeedRolesKeeps, SeedCatalogKeeps, SeedGrantsKeeps, SeedUsersKeeps DEF Command
  <1> QED
    BY <1>1, <1>2, <1>3, IssueKeeps, AccessStutters DEF Next

LEMMA AccessCorrect == Spec => [](AInv /\ MInv)
  BY AccessStart, AccessStep, PTL DEF Spec

\* Migrations by itself, whoever runs it: the ledger stays honest, a command
\* that reports success has brought the database up to its release, and a
\* database can be brought up to date unless a baseline stopped short.
THEOREM HistoryCorrect == MSpec => [](MigrationsTypeOK /\ LedgerHonest /\ DoneMeansCurrent /\ Recoverable)
  <1>1. MInv => MigrationsTypeOK /\ LedgerHonest /\ DoneMeansCurrent /\ Recoverable
    BY DEF MInv
  <1> QED
    BY <1>1, MStart, MStep, PTL DEF MSpec

\* Every variable of the back office has its type.
THEOREM TypeCorrect == Spec => [](MigrationsTypeOK /\ AccessTypeOK)
  <1>1. AInv /\ MInv => MigrationsTypeOK /\ AccessTypeOK
    BY DEF AInv, MInv
  <1> QED
    BY <1>1, AccessCorrect, PTL

\* The ledger says what ran, without gaps.
THEOREM LedgerIsHonest == Spec => []LedgerHonest
  <1>1. AInv /\ MInv => LedgerHonest
    BY DEF MInv
  <1> QED
    BY <1>1, AccessCorrect, PTL

\* Success means that the ledger agrees with every file of the release.
THEOREM SuccessIsCurrent == Spec => []DoneMeansCurrent
  <1>1. AInv /\ MInv => DoneMeansCurrent
    BY DEF MInv
  <1> QED
    BY <1>1, AccessCorrect, PTL

\* Only a baseline that stopped short leaves a database behind for good.
THEOREM StaysRecoverable == Spec => []Recoverable
  <1>1. AInv /\ MInv => Recoverable
    BY DEF MInv
  <1> QED
    BY <1>1, AccessCorrect, PTL

\* What a role may do is what was last decided for it, unless two decided at once.
THEOREM GrantsAreChosen == Spec => []GrantsChosenUnlessMixed
  <1>1. AInv /\ MInv => GrantsChosenUnlessMixed
    BY DEF AInv
  <1> QED
    BY <1>1, AccessCorrect, PTL

\* The superadmin role keeps every permission it was given.
THEOREM SuperAdminKept == Spec => []SuperAdminKeepsAll
  <1>1. AInv /\ MInv => SuperAdminKeepsAll
    BY DEF AInv, RootInv, GrantsChosenUnlessMixed, SuperAdminKeepsAll, AccessTypeOK
  <1> QED
    BY <1>1, AccessCorrect, PTL

\* Two roles never have the same name, nor names that differ in capitals only
\* unless they were checked at once.
THEOREM NamesAreUnique == Spec => []RoleNamesUnique
  <1>1. AInv /\ MInv => RoleNamesUnique
    BY DEF AInv
  <1> QED
    BY <1>1, AccessCorrect, PTL

\* A token opens what the role of its account may do and no more.
THEOREM AdmittedByOwn == Spec => []AdmittedByOwnRole
  <1>1. AInv /\ MInv => AdmittedByOwnRole
    <2> SUFFICES ASSUME AInv, NEW a \in Accounts, token[a] # None,
                        Lower[token[a]] \notin passed \cup crowded,
                        NEW c \in Codes, RequirePermission(a, {c})
                 PROVE  c \in CodesOf(RoleOf[a])
      BY DEF AdmittedByOwnRole
    <2>1. RoleOf[a] \in RoleIds /\ Exists(RoleOf[a]) /\ Same(role[RoleOf[a]], token[a])
      BY NameFacts DEF AInv, TokenInv
    <2>2. PICK g \in grants : Exists(g[1]) /\ Same(role[g[1]], token[a]) /\ g[2] = c
      BY DEF RequirePermission, PermissionsFor
    <2>3. g[1] \in RoleIds
      BY <2>2 DEF AInv, AccessTypeOK
    <2>4. g[1] = RoleOf[a]
      BY <2>1, <2>2, <2>3 DEF AInv, RoleNamesUnique, Same
    <2> QED
      BY <2>2, <2>4 DEF CodesOf, GrantsOf
  <1> QED
    BY <1>1, AccessCorrect, PTL
=============================================================================
