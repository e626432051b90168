----------------------------- MODULE Migrations -----------------------------
(***************************************************************************)
(* The schema history: numbered SQL files embedded in a release, and a     *)
(* ledger of those that ran.  Operators run `migrate`, `migrate -baseline` *)
(* and `seed -migrate` from the release they hold, possibly at once and    *)
(* possibly from different releases; nothing takes a lock.  A file and its *)
(* ledger row commit together; the rows of a baseline commit one by one.   *)
(***************************************************************************)
EXTENDS Integers, Sequences, FiniteSets

CONSTANTS
  Runners,   \* bound: each runs one command
  Checksums, \* contents of the files
  Releases,  \* what the embedded files may be: one checksum per version
  Last,      \* the newest version of any release
  Skips      \* bound: the stages a run of the seeder may be told to skip

VARIABLES
  built,     \* version -> contents that created its tables
  ledger,    \* schema_migrations: version -> checksum
  run,       \* the commands under way
  adopted,   \* versions a baseline recorded (history variable)
  left       \* versions a baseline stopped short of (history variable)

mvars == <<built, ledger, run, adopted, left>>

None == "none"
AutoMigrated == "auto"  \* created by AutoMigrate, before this history
Versions == 1..Last
SeedStages == {"roles", "catalog", "granting", "users"}

ASSUME ReleasesOrdered ==
  /\ Last \in Nat \ {0}
  /\ \A files \in Releases : files \in Seq(Checksums) /\ Len(files) \in Versions
  /\ None \notin Checksums /\ AutoMigrated \notin Checksums
  /\ Skips \subseteq SUBSET SeedStages

Modes == {"migrate", "baseline", "seed"}
RunStage == {"idle", "reading", "inspecting", "applying", "recording", "failed", "done"}
              \cup SeedStages
Nothing == [v \in Versions |-> None]
Run == [at: RunStage, mode: Modes \cup {None}, files: Releases \cup {<<>>},
        seen: [Versions -> Checksums \cup {None}], pos: 1..(Last + 1), skip: SUBSET SeedStages]
NoRun == [at |-> "idle", mode |-> None, files |-> <<>>, seen |-> Nothing, pos |-> 1, skip |-> {}]

Running(p, stage) == run[p].at = stage
Files(p) == run[p].files
RunsOn(p, stage) == run' = [run EXCEPT ![p].at = stage]

\* A command starts from one of the releases.
StartRun(p) ==
  /\ Running(p, "idle")
  /\ \E mode \in Modes, files \in Releases, skip \in Skips :
       /\ mode # "seed" => skip = {}
       /\ run' = [run EXCEPT ![p] = [at |-> "reading", mode |-> mode, files |-> files,
                                     seen |-> Nothing, pos |-> 1, skip |-> skip]]
  /\ UNCHANGED <<built, ledger, adopted, left>>

\* What was recorded is read once; the rest of the run relies on it.
ReadLedger(p) ==
  /\ Running(p, "reading")
  /\ run' = [run EXCEPT ![p].seen = ledger,
       ![p].at = IF ledger = Nothing THEN "inspecting"
                 ELSE IF run[p].mode = "baseline" THEN "failed" ELSE "applying"]
  /\ UNCHANGED <<built, ledger, adopted, left>>

\* With an empty ledger the tables decide: a schema that is there needs a
\* baseline, and only that.
Inspect(p) ==
  /\ Running(p, "inspecting")
  /\ RunsOn(p, IF built[1] # None
               THEN IF run[p].mode = "baseline" THEN "recording" ELSE "failed"
               ELSE IF run[p].mode = "baseline" THEN "failed" ELSE "applying")
  /\ UNCHANGED <<built, ledger, adopted, left>>

More(p) == run[p].pos <= Len(Files(p))
Sum(p) == Files(p)[run[p].pos]

\* Mutant of Skip: the checksum is not compared.
Skip_Unchecked(p) ==
  /\ Running(p, "applying") /\ More(p) /\ run[p].seen[run[p].pos] # None
  /\ run' = [run EXCEPT ![p].pos = @ + 1]
  /\ UNCHANGED <<built, ledger, adopted, left>>

\* A file that ran before must be the one that ran.
Skip(p) ==
  /\ Running(p, "applying") /\ More(p) /\ run[p].seen[run[p].pos] # None
  /\ run' = IF run[p].seen[run[p].pos] = Sum(p) THEN [run EXCEPT ![p].pos = @ + 1]
            ELSE [run EXCEPT ![p].at = "failed"]
  /\ UNCHANGED <<built, ledger, adopted, left>>

\* The files create what they name and refer to what came before: a second
\* time, or without the first file, they fail.
Applies(v) == built[v] = None /\ ledger[v] = None /\ (v = 1 \/ built[1] # None)

\* Mutant of Apply: the file commits before its ledger row is written.
Apply_TwoSteps(p) ==
  LET v == run[p].pos IN
  /\ Running(p, "applying") /\ More(p) /\ run[p].seen[v] = None
  /\ IF Applies(v)
     THEN /\ built' = [built EXCEPT ![v] = Sum(p)]
          /\ ledger' \in {ledger, [ledger EXCEPT ![v] = Sum(p)]}
          /\ run' = [run EXCEPT ![p].pos = @ + 1]
     ELSE RunsOn(p, "failed") /\ UNCHANGED <<built, ledger>>
  /\ UNCHANGED <<adopted, left>>

\* applyOne: the file and its ledger row, in one transaction.
Apply(p) ==
  LET v == run[p].pos IN
  /\ Running(p, "applying") /\ More(p) /\ run[p].seen[v] = None
  /\ IF Applies(v)
     THEN /\ built' = [built EXCEPT ![v] = Sum(p)]
          /\ ledger' = [ledger EXCEPT ![v] = Sum(p)]
          /\ run' = [run EXCEPT ![p].pos = @ + 1]
     ELSE RunsOn(p, "failed") /\ UNCHANGED <<built, ledger>>
  /\ UNCHANGED <<adopted, left>>

\* Mutant of Record: only the first version is recorded.
Record_First(p) ==
  /\ Running(p, "recording") /\ run[p].pos = 1
  /\ IF ledger[1] = None
     THEN /\ ledger' = [ledger EXCEPT ![1] = Sum(p)]
          /\ adopted' = adopted \cup {1}
          /\ run' = [run EXCEPT ![p].pos = Len(Files(p)) + 1]
          /\ UNCHANGED left
     ELSE /\ RunsOn(p, "failed")
          /\ left' = left \cup Versions
          /\ UNCHANGED <<ledger, adopted>>
  /\ UNCHANGED built

\* Baseline: one row, in a transaction of its own.
Record(p) ==
  LET v == run[p].pos IN
  /\ Running(p, "recording") /\ More(p)
  /\ IF ledger[v] = None
     THEN /\ ledger' = [ledger EXCEPT ![v] = Sum(p)]
          /\ adopted' = adopted \cup {v}
          /\ run' = [run EXCEPT ![p].pos = @ + 1]
          /\ UNCHANGED left
     ELSE /\ RunsOn(p, "failed")
          /\ left' = left \cup v..Last
          /\ UNCHANGED <<ledger, adopted>>
  /\ UNCHANGED built

\* Everything the release embeds is in; the seeder goes on with its stages.
Finish(p) ==
  /\ Running(p, "applying") \/ Running(p, "recording")
  /\ ~More(p)
  /\ RunsOn(p, IF run[p].mode = "seed" THEN "roles" ELSE "done")
  /\ left' = IF run[p].mode = "baseline" THEN left \cup run[p].pos..Last ELSE left
  /\ UNCHANGED <<built, ledger, adopted>>

\* A statement fails or the process dies: the open transaction is rolled back.
StopRun(p) ==
  /\ run[p].at \notin {"idle", "failed", "done"}
  /\ RunsOn(p, "failed")
  /\ left' = IF Running(p, "recording") THEN left \cup run[p].pos..Last ELSE left
  /\ UNCHANGED <<built, ledger, adopted>>

RunStep(p) ==
  \/ StartRun(p) \/ ReadLedger(p) \/ Inspect(p) \/ Skip(p) \/ Apply(p) \/ Record(p)
  \/ Finish(p) \/ StopRun(p)

\* An empty database, or one AutoMigrate built up to some version.
MInit ==
  /\ \E n \in 0..Last : built = [v \in Versions |-> IF v <= n THEN AutoMigrated ELSE None]
  /\ ledger = Nothing
  /\ run = [p \in Runners |-> NoRun]
  /\ adopted = {} /\ left = {}

\* The stages of the seeder; they leave the history alone.
SeedOn(p) ==
  /\ run[p].at \in SeedStages
  /\ \E next \in SeedStages \cup {"done", "failed"} : RunsOn(p, next)
  /\ UNCHANGED <<built, ledger, adopted, left>>

MNext == \E p \in Runners : RunStep(p) \/ SeedOn(p)
MSpec == MInit /\ [][MNext]_mvars
-----------------------------------------------------------------------------
\* Types of everything.
MigrationsTypeOK ==
  /\ built \in [Versions -> Checksums \cup {None, AutoMigrated}]
  /\ ledger \in [Versions -> Checksums \cup {None}]
  /\ run \in [Runners -> Run]
  /\ adopted \subseteq Versions /\ left \subseteq Versions

\* applyOne, and "two environments diverge while both claim to be at the same
\* version": the ledger has no gaps; what it says ran is what ran, unless a
\* baseline said so; and what ran is in it.
LedgerHonest ==
  \A v \in Versions :
    /\ ledger[v] # None => \A w \in 1..v : ledger[w] # None
    /\ ledger[v] # None => v \in adopted \/ built[v] = ledger[v]
    /\ built[v] \in Checksums => ledger[v] = built[v]

\* Migrate and Baseline: when a command reports success the ledger agrees with
\* every file of its release, whatever ran beside it since it read the ledger.
DoneMeansCurrent ==
  \A p \in Runners : run[p].at \in {"done"} \cup SeedStages =>
    \A v \in 1..Len(Files(p)) : ledger[v] = Files(p)[v]

\* Baseline: what AutoMigrate built is recorded together with the rest, or a
\* baseline was cut short or came from an older release; then no command can
\* bring this database up to date any more.
Recoverable ==
  ledger # Nothing =>
    \A v \in Versions : built[v] = AutoMigrated /\ ledger[v] = None =>
      v \in left \/ \E p \in Runners : Running(p, "recording") /\ v >= run[p].pos
=============================================================================
