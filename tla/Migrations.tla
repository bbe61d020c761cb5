----------------------------- MODULE Migrations -----------------------------
(***************************************************************************)
(* Starting on a database file of any age.  The web server and the workers *)
(* open the same file together, and each first runs the migrations: it     *)
(* creates the ledger, then plans, applies or adopts the three known       *)
(* migrations in order, and serves only when all are recorded.  A process  *)
(* may die between any two of its transactions and is started again.       *)
(*                                                                         *)
(* The schema is a set of pieces: what each version of the foundation      *)
(* added, the rebuilt requirements table, the API and integration tables.  *)
(* A transaction (BEGIN IMMEDIATE ... COMMIT) is one step, and so is each  *)
(* statement outside one.                                                  *)
(***************************************************************************)
EXTENDS Integers, FiniteSets

CONSTANTS
    Starters,         \* processes that migrate and then serve
    Checkers,         \* processes that run the read-only check
    Installations,    \* the databases a process may find
    MaxDeaths,        \* bound: crashes, failed writes and lock time-outs
    MaxRequirements   \* bound: publications of the requirements

Processes == Starters \cup Checkers

\* What version 1, 2, 3 and 4 of the foundation schema brought.
Foundation == <<"base", "retry", "oidc", "requests">>
LatestVersion == 4
Migrated == 1..3
Requires == <<{"base", "retry", "oidc", "requests"},
              {"history", "versions", "keys"},
              {"integration", "headers"}>>
Pieces == UNION {Requires[i] : i \in Migrated}

Database == [version : 0..LatestVersion + 1, pieces : SUBSET Pieces, ledger : BOOLEAN,
             records : [Migrated -> {"absent", "applied", "adopted"}],
             rows : SUBSET [id : Nat, active : BOOLEAN], cited : SUBSET Nat,
             sound : BOOLEAN]

\* What the releases of OpenCOI leave behind, also when they die half-way: the
\* foundation of one version, whatever is there of the rest, and no record of
\* a migration that was not made.
Undamaged(d) ==
    /\ d.version <= LatestVersion
    /\ d.pieces \cap Requires[1] = {Foundation[v] : v \in 1..d.version}
    /\ \A i \in Migrated : d.records[i] # "absent" =>
          /\ \A j \in 1..i : d.records[j] # "absent"
          /\ Requires[i] \subseteq d.pieces
    /\ d.cited \subseteq {r.id : r \in d.rows}

ASSUME InstallationAssumption ==
    \A d \in Installations :
        /\ d \in Database
        /\ d.sound <=> Undamaged(d)
        /\ (\E i \in Migrated : d.records[i] # "absent") => d.ledger
        /\ IsFiniteSet(d.rows) /\ {r.id : r \in d.rows} = 1..Cardinality(d.rows)
        /\ \A r, s \in d.rows : r.id = s.id \/ (r.active /\ s.active) => r = s

ASSUME ProcessAssumption == Starters \cap Checkers = {}

ASSUME BoundAssumption == {MaxDeaths, MaxRequirements} \subseteq Nat

VARIABLES
    disk,        \* the database file: version, pieces, ledger, records, rows,
                 \* what its findings cite, and whether it was sound when found
    job,         \* what each process is at
    deaths,
    published    \* history: the requirements ever published

vars == <<disk, job, deaths, published>>

Down == [pc |-> "down", step |-> 1, seen |-> {}, foreignKeys |-> FALSE]

Init ==
    /\ disk \in Installations
    /\ job = [p \in Processes |-> Down]
    /\ deaths = 0
    /\ published = {r.id : r \in disk.rows}

-----------------------------------------------------------------------------
(* What the catalog tells of the schema.                                   *)

\* Mutant: one of the objects a migration makes stands for all of them.
TracedIn(i, d) ==
    (i = 1 => d.version >= LatestVersion) /\ Requires[i] \cap d.pieces # {}

InstalledIn(i, d) ==
    (i = 1 => d.version >= LatestVersion) /\ Requires[i] \subseteq d.pieces
Installed(i) == InstalledIn(i, disk)

Recorded == {i \in Migrated : disk.records[i] # "absent"}

\* The ledger that was read names installed migrations only, without a gap.
Consistent(seen) ==
    /\ \A i \in seen : Installed(i)
    /\ \A i \in seen : 1..i \subseteq seen

\* PRAGMA foreign_key_check: findings cite requirements by row.
NoViolation(d) == d.cited \subseteq {r.id : r \in d.rows}

At(p, pc)      == job[p].pc = pc
Goto(p, pc)    == job' = [job EXCEPT ![p].pc = pc]
Refuse(p)      == Goto(p, "refused") /\ UNCHANGED disk
\* On to the next migration, or to the final check.
Advance(p)     == job' = [job EXCEPT ![p].pc = "reading", ![p].step = @ + 1]
Write(p, i, kind, d) == disk' = [d EXCEPT !.records[i] = kind] /\ Advance(p)

-----------------------------------------------------------------------------
(* Opening and planning.  A plan reads the ledger, then the catalog,       *)
(* outside a transaction.                                                  *)

Open(p) ==
    /\ At(p, "down")
    /\ job' = [job EXCEPT ![p].pc = IF p \in Starters THEN "opened" ELSE "reading",
                          ![p].foreignKeys = TRUE]
    /\ UNCHANGED disk

CreateLedger(p) ==
    /\ At(p, "opened")
    /\ IF disk.version > LatestVersion
         THEN Refuse(p)
         ELSE disk' = [disk EXCEPT !.ledger = TRUE] /\ Goto(p, "reading")

ReadLedger(p) ==
    /\ At(p, "reading")
    /\ IF disk.version > LatestVersion
         THEN Goto(p, "refused")
         ELSE job' = [job EXCEPT ![p].pc = "inspecting",
                                 ![p].seen = IF disk.ledger THEN Recorded ELSE {}]
    /\ UNCHANGED disk

\* The plan of one migration: recorded, adopt or apply.
Plan(p) ==
    LET i == job[p].step IN
    /\ At(p, "inspecting") /\ p \in Starters /\ i \in Migrated
    /\ Consistent(job[p].seen)
    /\ \/ i \in job[p].seen /\ Advance(p)
       \/ i \notin job[p].seen /\ Installed(i) /\ Goto(p, "adopting")
       \/ i \notin job[p].seen /\ ~Installed(i) /\ i # 2 /\ Goto(p, "applying")
       \/ i \notin job[p].seen /\ ~Installed(i) /\ i = 2 /\ Goto(p, "looking")
    /\ UNCHANGED disk

\* databaseMigrationsCurrent, at the end of a start and of a check.
Concluding(p) == At(p, "inspecting") /\ (p \in Checkers \/ job[p].step \notin Migrated)

Conclude(p) ==
    LET current == job[p].seen = Migrated IN
    /\ Concluding(p)
    /\ Consistent(job[p].seen)
    /\ current => NoViolation(disk) /\ job[p].foreignKeys
    /\ Goto(p, IF current THEN "ready" ELSE IF p \in Starters THEN "refused" ELSE "pending")
    /\ UNCHANGED disk

\* MigrationIntegrityError, out of any of the reads above.
Mistrust(p) ==
    /\ At(p, "inspecting")
    /\ \/ ~Consistent(job[p].seen)
       \/ Concluding(p) /\ job[p].seen = Migrated /\ ~NoViolation(disk)
    /\ Refuse(p)

-----------------------------------------------------------------------------
(* Migrations in a transaction.  Each looks at ledger and catalog again.   *)

\* Mutant: the transaction trusts the plan made before it.
NeverRaced(i) == FALSE
Raced(i) == i \in Recorded

\* The versions whose tables initializeDatabase has still to create.
Missing == {Foundation[v] : v \in disk.version + 1 .. LatestVersion}

\* A second CREATE TABLE or ADD COLUMN of the foundation would fail.
Initializable == Missing \cap disk.pieces = {}

Initialized ==
    [disk EXCEPT !.version = LatestVersion,
                 !.pieces = @ \cup Missing \cup IF disk.version = 0 THEN {"history"} ELSE {}]

\* CREATE ... IF NOT EXISTS, and the column only where it is missing.
Integrated == [disk EXCEPT !.pieces = @ \cup Requires[3]]

Applied(i) == IF i = 1 THEN Initialized ELSE Integrated

\* A transaction that ends in a record, in nothing, or in an error.
Settle(p, i, kind, done, sound) ==
    IF ~Consistent(Recorded) THEN Refuse(p)
    ELSE IF Raced(i) THEN Advance(p) /\ UNCHANGED disk
    ELSE IF sound /\ i \notin Recorded THEN Write(p, i, kind, done)
    ELSE Refuse(p)

Adopt(p) ==
    LET i == job[p].step IN
    /\ At(p, "adopting")
    /\ Settle(p, i, "adopted", disk, Installed(i) /\ NoViolation(disk))

ApplyInTransaction(p) ==
    LET i == job[p].step IN
    /\ At(p, "applying")
    /\ IF Installed(i)
         THEN Settle(p, i, "adopted", disk, NoViolation(disk))
         ELSE Settle(p, i, "applied", Applied(i),
                     /\ i = 1 => Initializable
                     /\ InstalledIn(i, Applied(i)) /\ NoViolation(Applied(i)))

-----------------------------------------------------------------------------
(* Migration 2 owns its transaction, for the rebuild of the requirements   *)
(* needs foreign keys off.  It looks for the index before it takes the     *)
(* lock: two processes may both rebuild.                                   *)

Look(p) ==
    /\ At(p, "looking")
    /\ job' = [job EXCEPT ![p].pc = IF "history" \in disk.pieces THEN "adding" ELSE "rebuilding",
                          ![p].foreignKeys = "history" \in disk.pieces]
    /\ UNCHANGED disk

\* Mutant: the rebuild carries over the rows in force.
CopiedInForce(rows) == {r \in rows : r.active}
Copied(rows) == rows

Rebuild(p) ==
    LET rebuilt == [disk EXCEPT !.pieces = @ \cup {"history"}, !.rows = Copied(@)] IN
    /\ At(p, "rebuilding")
    /\ disk' = IF NoViolation(rebuilt) THEN rebuilt ELSE disk
    /\ job' = [job EXCEPT ![p].pc = IF NoViolation(rebuilt) THEN "adding" ELSE "refused",
                          ![p].foreignKeys = TRUE]

\* Mutant: the additive tables are created without IF NOT EXISTS.
CanCreateOnce(piece) == piece \notin disk.pieces
CanCreate(piece) == TRUE

\* The additive statements of the API schema, each committed by itself.
Add(p, piece, from, to) ==
    /\ At(p, from)
    /\ IF CanCreate(piece)
         THEN disk' = [disk EXCEPT !.pieces = @ \cup {piece}] /\ Goto(p, to)
         ELSE Refuse(p)

AddVersions(p) == Add(p, "versions", "adding", "keying")
AddKeys(p)     == Add(p, "keys", "keying", "verifying")

Verify(p) ==
    /\ At(p, "verifying")
    /\ IF Installed(2) /\ NoViolation(disk) /\ job[p].foreignKeys
         THEN Goto(p, "recording") ELSE Goto(p, "refused")
    /\ UNCHANGED disk

Record(p) == At(p, "recording") /\ Settle(p, 2, "applied", disk, TRUE)

-----------------------------------------------------------------------------
(* A process that is ready serves: an administrator publishes requirements,*)
(* which retires the row in force, and certificates are evaluated.         *)

Publish(p) ==
    LET new == Cardinality(disk.rows) + 1 IN
    /\ At(p, "ready") /\ p \in Starters
    /\ new <= MaxRequirements
    /\ disk' = [disk EXCEPT !.rows = {[r EXCEPT !.active = FALSE] : r \in @}
                                       \cup {[id |-> new, active |-> TRUE]}]
    /\ published' = published \cup {new}
    /\ UNCHANGED <<job, deaths>>

\* Findings of a new certificate cite the row in force.
Evaluate(p) ==
    /\ At(p, "ready") /\ p \in Starters
    /\ \E r \in disk.rows : r.active /\ disk' = [disk EXCEPT !.cited = @ \cup {r.id}]
    /\ UNCHANGED <<job, deaths, published>>

\* A crash, a failed write or a lock that stays taken: a transaction in
\* progress is rolled back, and the connection goes with the process.
Dies(p) ==
    /\ ~At(p, "down") /\ ~At(p, "refused")
    /\ deaths < MaxDeaths
    /\ deaths' = deaths + 1
    /\ job' = [job EXCEPT ![p] = Down]
    /\ UNCHANGED <<disk, published>>

\* A check has reported and is run again later.
CheckAgain(p) ==
    /\ p \in Checkers /\ job[p].pc \in {"ready", "pending"}
    /\ job' = [job EXCEPT ![p] = Down]
    /\ UNCHANGED disk

Start(p) ==
    /\ \/ Open(p) \/ CreateLedger(p) \/ ReadLedger(p)
       \/ Plan(p) \/ Conclude(p) \/ Mistrust(p)
       \/ Adopt(p) \/ ApplyInTransaction(p)
       \/ Look(p) \/ Rebuild(p) \/ AddVersions(p) \/ AddKeys(p) \/ Verify(p) \/ Record(p)
       \/ CheckAgain(p)
    /\ UNCHANGED <<deaths, published>>

Next == \E p \in Processes : Start(p) \/ Publish(p) \/ Evaluate(p) \/ Dies(p)

\* A supervisor starts a process that ended, and a started process runs on.
Fairness == \A p \in Starters : WF_vars(Start(p))
Spec == Init /\ [][Next]_vars /\ Fairness

-----------------------------------------------------------------------------
(* Properties.                                                             *)

\* A migration a process records is in the schema, whole, and so is every
\* one before it; a process that serves, or a check that passed, found all
\* of them recorded, with foreign keys enforced on its connection
\* (validatedLedgerById, databaseMigrationsCurrent).
LedgerTellsTheTruth ==
    /\ disk.sound => \A i \in Recorded : 1..i \subseteq Recorded /\ Requires[i] \subseteq disk.pieces
    /\ \A p \in Processes : At(p, "ready") =>
         disk.sound /\ Recorded = Migrated /\ job[p].foreignKeys

\* However often the table of requirements is rebuilt, and whatever a
\* process that already serves publishes meanwhile, every row published
\* stays, cited by findings or not, and one is in force
\* (REQUIREMENT_HISTORY_MIGRATION_SQL).
RequirementsSurvive ==
    disk.sound =>
        /\ published = {r.id : r \in disk.rows}
        /\ disk.cited \subseteq published
        /\ \A r, s \in disk.rows : r.id = s.id \/ (r.active /\ s.active) => r = s

\* Processes that start together on a sound database of any supported age
\* never make each other refuse it.
SoundIsNeverRefused == disk.sound => \A p \in Processes : ~At(p, "refused")

\* A process that starts on a sound database comes to serve, whichever step
\* it or another one died at before (docs/DATABASE_MIGRATIONS.md: a crash
\* after the rebuild but before its ledger insert is safe).
EveryStartSucceeds ==
    \A p \in Starters : At(p, "opened") /\ disk.sound ~> At(p, "ready")
=============================================================================
