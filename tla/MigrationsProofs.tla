-------------------------- MODULE MigrationsProofs --------------------------
(***************************************************************************)
(* Proofs about Migrations, for any number of processes and any databases  *)
(* that satisfy InstallationAssumption.                                    *)
(***************************************************************************)
EXTENDS Migrations, FiniteSetTheorems, TLAPS

-----------------------------------------------------------------------------
(* Types.                                                                  *)

Pcs == {"down", "opened", "reading", "inspecting", "adopting", "applying",
        "looking", "rebuilding", "adding", "keying", "verifying", "recording",
        "ready", "pending", "refused"}
Job == [pc : Pcs, step : 1..4, seen : SUBSET Migrated, foreignKeys : BOOLEAN]

\* The steps of migration 2 outside a transaction.
Owning == {"looking", "rebuilding", "adding", "keying", "verifying", "recording"}

\* Which migration a process can be at.
StepFits(j) ==
    /\ j.pc \in {"adopting", "applying"} => j.step \in Migrated
    /\ j.pc \in Owning => j.step = 2

TypeInv ==
    /\ disk \in Database
    /\ job \in [Processes -> Job]
    /\ \A p \in Processes : StepFits(job[p])
    /\ deaths \in Nat
    /\ published \in SUBSET Nat

\* What each migration requires, spelled out.
LEMMA Requirements ==
    /\ Requires[1] = {"base", "retry", "oidc", "requests"}
    /\ Requires[2] = {"history", "versions", "keys"}
    /\ Requires[3] = {"integration", "headers"}
    /\ Migrated = {1, 2, 3} /\ LatestVersion = 4
    /\ Pieces = Requires[1] \cup Requires[2] \cup Requires[3]
<1>1. Migrated = {1, 2, 3}
  BY DEF Migrated
<1>2. Pieces = Requires[1] \cup Requires[2] \cup Requires[3]
  BY <1>1 DEF Pieces
<1> QED BY <1>1, <1>2 DEF Requires, LatestVersion

\* Foundation as a function of the version.
LEMMA Foundations ==
    /\ Foundation[1] = "base" /\ Foundation[2] = "retry"
    /\ Foundation[3] = "oidc" /\ Foundation[4] = "requests"
BY DEF Foundation

\* What the steps write is a database.
LEMMA Written ==
    ASSUME TypeInv
    PROVE  /\ [disk EXCEPT !.ledger = TRUE] \in Database
           /\ Initialized \in Database /\ Integrated \in Database
           /\ [disk EXCEPT !.pieces = @ \cup {"history"}, !.rows = Copied(@)] \in Database
           /\ \A x \in {"versions", "keys"} : [disk EXCEPT !.pieces = @ \cup {x}] \in Database
<1>1. Missing \in SUBSET Pieces
  <2>1. ASSUME NEW v \in disk.version + 1 .. LatestVersion PROVE Foundation[v] \in Pieces
    <3>1. v \in 1..4
      BY Requirements DEF TypeInv, Database
    <3> QED BY <3>1, Requirements, Foundations
  <2> QED BY <2>1 DEF Missing
<1>2. {"history", "versions", "keys"} \in SUBSET Pieces /\ Requires[3] \in SUBSET Pieces
  BY Requirements
<1>3. Initialized \in Database
  <2>1. disk.pieces \cup Missing \cup (IF disk.version = 0 THEN {"history"} ELSE {}) \in SUBSET Pieces
    BY <1>1, <1>2 DEF TypeInv, Database
  <2>2. LatestVersion \in 0..LatestVersion + 1
    BY Requirements
  <2> QED BY <2>1, <2>2 DEF Initialized, TypeInv, Database
<1>4. Integrated \in Database
  BY <1>2 DEF Integrated, TypeInv, Database
<1>5. [disk EXCEPT !.pieces = @ \cup {"history"}, !.rows = Copied(@)] \in Database
  BY <1>2 DEF Copied, TypeInv, Database
<1>6. \A x \in {"versions", "keys"} : [disk EXCEPT !.pieces = @ \cup {x}] \in Database
  BY <1>2 DEF TypeInv, Database
<1> QED BY <1>3, <1>4, <1>5, <1>6 DEF TypeInv, Database

\* A process that goes to another point keeps the types.
LEMMA Going ==
    ASSUME TypeInv, NEW p \in Processes, NEW pc \in Pcs, Goto(p, pc),
           pc \in Owning => job[p].step = 2,
           pc \in {"adopting", "applying"} => job[p].step \in Migrated
    PROVE  /\ job' \in [Processes -> Job]
           /\ \A q \in Processes : StepFits(job'[q])
<1>1. job[p] \in Job /\ job \in [Processes -> Job]
  BY DEF TypeInv
<1> DEFINE j == [job[p] EXCEPT !.pc = pc]
<1>2. j \in Job /\ StepFits(j)
  BY <1>1 DEF Job, StepFits
<1>3. job' = [job EXCEPT ![p] = j]
  BY DEF Goto
<1> HIDE DEF j
<1> QED BY <1>1, <1>2, <1>3 DEF TypeInv

\* So does one that advances to the next migration.
LEMMA Advancing ==
    ASSUME TypeInv, NEW p \in Processes, job[p].step \in Migrated, Advance(p)
    PROVE  /\ job' \in [Processes -> Job]
           /\ \A q \in Processes : StepFits(job'[q])
<1>1. job[p] \in Job /\ job \in [Processes -> Job]
  BY DEF TypeInv
<1> DEFINE j == [job[p] EXCEPT !.pc = "reading", !.step = @ + 1]
<1>2. j \in Job /\ StepFits(j)
  <2>1. job[p].step + 1 \in 1..4
    BY <1>1, Requirements DEF Job
  <2> QED BY <1>1, <2>1 DEF Job, Pcs, StepFits, Owning
<1>3. job' = [job EXCEPT ![p] = j]
  BY DEF Advance
<1> HIDE DEF j
<1> QED BY <1>1, <1>2, <1>3 DEF TypeInv

\* A transaction that writes a database leaves one.
LEMMA Settling ==
    ASSUME TypeInv, NEW p \in Processes, NEW i \in Migrated, i = job[p].step,
           NEW kind \in {"applied", "adopted"}, NEW d \in Database, NEW sound,
           Settle(p, i, kind, d, sound)
    PROVE  /\ disk' \in Database
           /\ job' \in [Processes -> Job]
           /\ \A q \in Processes : StepFits(job'[q])
<1>1. CASE Refuse(p)
  <2>1. Goto(p, "refused")
    BY <1>1 DEF Refuse
  <2> QED BY <1>1, <2>1, Going DEF Refuse, TypeInv, Pcs, Owning
<1>2. CASE Advance(p) /\ UNCHANGED disk
  BY <1>2, Advancing DEF TypeInv
<1>3. CASE Write(p, i, kind, d)
  <2>1. [d EXCEPT !.records[i] = kind] \in Database
    BY DEF Database
  <2> QED BY <1>3, <2>1, Advancing DEF Write
<1> QED BY <1>1, <1>2, <1>3 DEF Settle

\* The types hold at first.
LEMMA InitType == Init => TypeInv
<1> SUFFICES ASSUME Init PROVE TypeInv
  OBVIOUS
<1>1. disk \in Database
  BY InstallationAssumption DEF Init
<1>2. published \in SUBSET Nat
  BY <1>1 DEF Init, Database
<1>3. Down \in Job /\ StepFits(Down)
  BY DEF Down, Job, Pcs, StepFits, Owning
<1> QED BY <1>1, <1>2, <1>3 DEF Init, TypeInv

\* A step of a start keeps the types.
LEMMA StartType ==
    ASSUME TypeInv, NEW p \in Processes, Start(p)
    PROVE  TypeInv'
<1>0. job[p] \in Job /\ StepFits(job[p]) /\ job \in [Processes -> Job] /\ disk \in Database
  BY DEF TypeInv
<1>q. SUFFICES /\ disk' \in Database
               /\ job' \in [Processes -> Job]
               /\ \A q \in Processes : StepFits(job'[q])
  BY DEF TypeInv, Start
<1>1. CASE Open(p)
  <2> DEFINE j == [job[p] EXCEPT !.pc = IF p \in Starters THEN "opened" ELSE "reading",
                                 !.foreignKeys = TRUE]
  <2>1. j \in Job /\ StepFits(j)
    BY <1>0 DEF Job, Pcs, StepFits, Owning
  <2>2. job' = [job EXCEPT ![p] = j] /\ UNCHANGED disk
    BY <1>1 DEF Open
  <2> HIDE DEF j
  <2> QED BY <1>0, <2>1, <2>2 DEF TypeInv
<1>2. CASE CreateLedger(p)
  BY <1>0, <1>2, Going, Written DEF CreateLedger, Refuse, Pcs, Owning
<1>3. CASE ReadLedger(p)
  <2>1. CASE disk.version > LatestVersion
    BY <1>0, <1>3, <2>1, Going DEF ReadLedger, Pcs, Owning
  <2>2. CASE ~(disk.version > LatestVersion)
    <3> DEFINE j == [job[p] EXCEPT !.pc = "inspecting",
                                   !.seen = IF disk.ledger THEN Recorded ELSE {}]
    <3>1. j \in Job /\ StepFits(j)
      BY <1>0 DEF Job, Pcs, StepFits, Owning, Recorded
    <3>2. job' = [job EXCEPT ![p] = j] /\ UNCHANGED disk
      BY <1>3, <2>2 DEF ReadLedger
    <3> HIDE DEF j
    <3> QED BY <1>0, <3>1, <3>2 DEF TypeInv
  <2> QED BY <2>1, <2>2
<1>4. CASE Plan(p)
  <2>1. job[p].step \in Migrated /\ UNCHANGED disk
    BY <1>4 DEF Plan
  <2>2. CASE Advance(p)
    BY <1>0, <2>1, <2>2, Advancing
  <2>3. CASE Goto(p, "adopting") \/ Goto(p, "applying")
    BY <1>0, <2>1, <2>3, Going DEF Pcs, Owning
  <2>4. CASE Goto(p, "looking") /\ job[p].step = 2
    BY <1>0, <2>1, <2>4, Going DEF Pcs, Owning
  <2> QED BY <1>4, <2>2, <2>3, <2>4 DEF Plan
<1>5. CASE Conclude(p)
  BY <1>0, <1>5, Going DEF Conclude, Pcs, Owning
<1>6. CASE Mistrust(p)
  BY <1>0, <1>6, Going DEF Mistrust, Refuse, Pcs, Owning
<1>7. CASE Adopt(p)
  BY <1>0, <1>7, Settling DEF Adopt, At, StepFits
<1>8. CASE ApplyInTransaction(p)
  <2>1. Applied(job[p].step) \in Database
    BY <1>0, Written DEF Applied
  <2>2. job[p].step \in Migrated
    BY <1>0, <1>8 DEF ApplyInTransaction, At, StepFits
  <2>3. CASE Installed(job[p].step)
    BY <1>0, <1>8, <2>2, <2>3, Settling DEF ApplyInTransaction
  <2>4. CASE ~Installed(job[p].step)
    BY <1>0, <1>8, <2>1, <2>2, <2>4, Settling DEF ApplyInTransaction
  <2> QED BY <2>3, <2>4
<1>9. CASE Look(p)
  <2> DEFINE j == [job[p] EXCEPT !.pc = IF "history" \in disk.pieces THEN "adding" ELSE "rebuilding",
                                 !.foreignKeys = "history" \in disk.pieces]
  <2>1. j \in Job /\ StepFits(j)
    <3>1. ("history" \in disk.pieces) \in BOOLEAN
      OBVIOUS
    <3> QED BY <1>0, <1>9, <3>1 DEF Look, At, Job, Pcs, StepFits, Owning
  <2>2. job' = [job EXCEPT ![p] = j] /\ UNCHANGED disk
    BY <1>9 DEF Look
  <2> HIDE DEF j
  <2> QED BY <1>0, <2>1, <2>2 DEF TypeInv
<1>10. CASE Rebuild(p)
  <2> DEFINE ok == NoViolation([disk EXCEPT !.pieces = @ \cup {"history"}, !.rows = Copied(@)])
             j == [job[p] EXCEPT !.pc = IF ok THEN "adding" ELSE "refused", !.foreignKeys = TRUE]
  <2>1. j \in Job /\ StepFits(j)
    BY <1>0, <1>10 DEF Rebuild, At, Job, Pcs, StepFits, Owning
  <2>2. job' = [job EXCEPT ![p] = j]
    BY <1>10 DEF Rebuild
  <2>3. disk' \in Database
    BY <1>0, <1>10, Written DEF Rebuild
  <2> HIDE DEF j
  <2> QED BY <1>0, <2>1, <2>2, <2>3 DEF TypeInv
<1>11. CASE AddVersions(p)
  BY <1>0, <1>11, Going, Written DEF AddVersions, Add, CanCreate, At, StepFits, Pcs, Owning
<1>12. CASE AddKeys(p)
  BY <1>0, <1>12, Going, Written DEF AddKeys, Add, CanCreate, At, StepFits, Pcs, Owning
<1>13. CASE Verify(p)
  BY <1>0, <1>13, Going DEF Verify, At, StepFits, Pcs, Owning
<1>14. CASE Record(p)
  <2>1. job[p].step = 2 /\ 2 \in Migrated
    BY <1>0, <1>14, Requirements DEF Record, At, StepFits, Owning
  <2> QED BY <1>0, <1>14, <2>1, Settling DEF Record
<1>15. CASE CheckAgain(p)
  <2>1. Down \in Job /\ StepFits(Down)
    BY DEF Down, Job, Pcs, StepFits, Owning
  <2> QED BY <1>0, <1>15, <2>1 DEF CheckAgain, TypeInv
<1> QED
  BY <1>1, <1>2, <1>3, <1>4, <1>5, <1>6, <1>7, <1>8, <1>9, <1>10, <1>11, <1>12, <1>13, <1>14,
     <1>15 DEF Start

\* The requirements: numbered without a gap, one row for each, at most one in
\* force.
RowsInv ==
    /\ IsFiniteSet(disk.rows)
    /\ {r.id : r \in disk.rows} = 1..Cardinality(disk.rows)
    /\ \A r, s \in disk.rows : r.id = s.id \/ (r.active /\ s.active) => r = s
    /\ published = {r.id : r \in disk.rows}

Requirement == [id : Nat, active : BOOLEAN]
Retired(r)  == [r EXCEPT !.active = FALSE]
InForce(n)  == [id |-> n, active |-> TRUE]

\* A requirement that is retired keeps its number and is no longer active.
LEMMA RetiredIs ==
    ASSUME NEW r \in Requirement
    PROVE  Retired(r) \in Requirement /\ Retired(r).id = r.id /\ Retired(r).active = FALSE
BY DEF Requirement, Retired

\* A requirement that is published is active under its number.
LEMMA InForceIs ==
    ASSUME NEW n \in Nat
    PROVE  InForce(n) \in Requirement /\ InForce(n).id = n /\ InForce(n).active = TRUE
BY DEF Requirement, InForce

\* A publication retires the rows and adds the next one.
LEMMA Publishing ==
    ASSUME TypeInv, RowsInv, NEW p \in Processes, Publish(p)
    PROVE  LET n == Cardinality(disk.rows)
               rows == {Retired(r) : r \in disk.rows} \cup {InForce(n + 1)} IN
           /\ n \in Nat
           /\ disk.rows \in SUBSET Requirement /\ rows \in SUBSET Requirement
           /\ disk' = [disk EXCEPT !.rows = rows] /\ disk'.rows = rows
           /\ published' = published \cup {n + 1}
           /\ UNCHANGED <<job, deaths>>
<1> DEFINE n == Cardinality(disk.rows)
           rows == {Retired(r) : r \in disk.rows} \cup {InForce(n + 1)}
<1>1. n \in Nat
  <2>1. IsFiniteSet(disk.rows)
    BY DEF RowsInv
  <2> QED BY <2>1, FS_CardinalityType
<1>2. disk.rows \in SUBSET Requirement /\ disk \in Database
  BY DEF TypeInv, Database, Requirement
<1>3. {Retired(r) : r \in disk.rows} \in SUBSET Requirement
  BY <1>2, RetiredIs
<1>4. InForce(n + 1) \in Requirement
  <2> HIDE DEF n
  <2>1. n + 1 \in Nat
    BY <1>1
  <2> QED BY <2>1, InForceIs
<1>5. /\ disk' = [disk EXCEPT !.rows = rows] /\ published' = published \cup {n + 1}
      /\ UNCHANGED <<job, deaths>>
  BY DEF Publish, Retired, InForce
<1> HIDE DEF rows, n
<1>6. disk'.rows = rows
  BY <1>2, <1>5 DEF Database
<1> QED BY <1>1, <1>2, <1>3, <1>4, <1>5, <1>6 DEF rows, n

\* Every step keeps the types.
LEMMA NextType == TypeInv /\ RowsInv /\ [Next]_vars => TypeInv'
<1> SUFFICES ASSUME TypeInv, RowsInv, [Next]_vars PROVE TypeInv'
  OBVIOUS
<1>1. ASSUME NEW p \in Processes, Start(p) PROVE TypeInv'
  BY <1>1, StartType
<1>2. ASSUME NEW p \in Processes, Publish(p) PROVE TypeInv'
  <2> DEFINE n == Cardinality(disk.rows)
             rows == {Retired(r) : r \in disk.rows} \cup {InForce(n + 1)}
  <2>1. /\ n \in Nat /\ rows \in SUBSET Requirement /\ disk' = [disk EXCEPT !.rows = rows]
        /\ published' = published \cup {n + 1} /\ UNCHANGED <<job, deaths>>
    BY <1>2, Publishing
  <2> HIDE DEF n, rows
  <2> QED BY <2>1 DEF TypeInv, Database, Requirement
<1>3. ASSUME NEW p \in Processes, Evaluate(p) PROVE TypeInv'
  <2>1. PICK r \in disk.rows : disk' = [disk EXCEPT !.cited = @ \cup {r.id}]
    BY <1>3 DEF Evaluate
  <2>2. r.id \in Nat
    BY DEF TypeInv, Database
  <2> QED BY <1>3, <2>1, <2>2 DEF Evaluate, TypeInv, Database
<1>4. ASSUME NEW p \in Processes, Dies(p) PROVE TypeInv'
  <2>1. Down \in Job /\ StepFits(Down)
    BY DEF Down, Job, Pcs, StepFits, Owning
  <2> QED BY <1>4, <2>1 DEF Dies, TypeInv
<1>5. CASE UNCHANGED vars
  BY <1>5 DEF vars, TypeInv
<1> QED BY <1>1, <1>2, <1>3, <1>4, <1>5 DEF Next

-----------------------------------------------------------------------------
(* What a step leaves of the file, and the requirements in it.             *)

\* A start changes neither the rows nor what cites them, and takes nothing away.
Grown ==
    /\ disk.pieces \subseteq disk'.pieces
    /\ disk.ledger => disk'.ledger
    /\ Recorded \subseteq Recorded'

Kept ==
    /\ disk'.rows = disk.rows /\ disk'.cited = disk.cited /\ disk'.sound = disk.sound
    /\ Grown

\* Settling a migration adds to the schema and loses no row.
LEMMA SettleKeeps ==
    ASSUME TypeInv, NEW p \in Processes, NEW i \in Migrated,
           NEW kind \in {"applied", "adopted"}, NEW d \in Database, NEW sound,
           d.rows = disk.rows, d.cited = disk.cited, d.sound = disk.sound,
           disk.pieces \subseteq d.pieces, d.ledger = disk.ledger, d.records = disk.records,
           Settle(p, i, kind, d, sound)
    PROVE  Kept
<1>1. CASE UNCHANGED disk
  BY <1>1 DEF Kept, Grown, Recorded
<1>2. CASE Write(p, i, kind, d)
  <2>1. disk' = [d EXCEPT !.records[i] = kind]
    BY <1>2 DEF Write
  <2>2. disk'.records = [disk.records EXCEPT ![i] = kind] /\ disk'.pieces = d.pieces
    BY <2>1 DEF Database
  <2>3. \A j \in Migrated : disk.records[j] # "absent" => disk'.records[j] # "absent"
    BY <2>2 DEF TypeInv, Database
  <2> QED BY <2>1, <2>3 DEF Kept, Grown, Recorded, Database
<1> QED BY <1>1, <1>2 DEF Settle, Refuse

\* Neither does any step of a start.
LEMMA StartKeeps ==
    ASSUME TypeInv, NEW p \in Processes, Start(p)
    PROVE  Kept
<1>0. disk \in Database /\ StepFits(job[p])
  BY DEF TypeInv
<1>1. CASE UNCHANGED disk
  BY <1>1 DEF Kept, Grown, Recorded
<1>2. CASE CreateLedger(p)
  BY <1>0, <1>2 DEF CreateLedger, Refuse, Kept, Grown, Recorded, Database
<1>3. CASE Adopt(p)
  BY <1>0, <1>3, SettleKeeps DEF Adopt, At, StepFits
<1>4. CASE ApplyInTransaction(p)
  <2> DEFINE i == job[p].step
  <2>1. i \in Migrated
    BY <1>0, <1>4 DEF ApplyInTransaction, At, StepFits
  <2>2. Applied(i) \in Database
    BY Written DEF Applied
  <2>3. /\ Applied(i).rows = disk.rows /\ Applied(i).cited = disk.cited
        /\ Applied(i).sound = disk.sound /\ Applied(i).ledger = disk.ledger
        /\ Applied(i).records = disk.records /\ disk.pieces \subseteq Applied(i).pieces
    BY <1>0 DEF Applied, Initialized, Integrated, Database
  <2>4. CASE Installed(i)
    BY <1>0, <1>4, <2>1, <2>4, SettleKeeps DEF ApplyInTransaction
  <2>5. CASE ~Installed(i)
    BY <1>0, <1>4, <2>1, <2>2, <2>3, <2>5, SettleKeeps DEF ApplyInTransaction
  <2> QED BY <2>4, <2>5
<1>5. CASE Rebuild(p)
  BY <1>0, <1>1, <1>5 DEF Rebuild, Copied, Kept, Grown, Recorded, Database
<1>6. CASE AddVersions(p) \/ AddKeys(p)
  BY <1>0, <1>6 DEF AddVersions, AddKeys, Add, CanCreate, Kept, Grown, Recorded, Database
<1>7. CASE Record(p)
  <2>1. job[p].step = 2 /\ 2 \in Migrated
    BY <1>0, <1>7, Requirements DEF Record, At, StepFits, Owning
  <2> QED BY <1>0, <1>7, <2>1, SettleKeeps DEF Record
<1> QED
  BY <1>1, <1>2, <1>3, <1>4, <1>5, <1>6, <1>7
  DEF Start, Open, ReadLedger, Plan, Conclude, Mistrust, Refuse, Look, Verify, CheckAgain

\* Publication retires the row in force and adds the next one.
LEMMA PublishRows ==
    ASSUME TypeInv, RowsInv, NEW p \in Processes, Publish(p)
    PROVE  RowsInv'
<1> DEFINE n == Cardinality(disk.rows)
           f == [r \in disk.rows |-> Retired(r)]
           retired == {Retired(r) : r \in disk.rows}
<1>1. /\ n \in Nat /\ disk.rows \in SUBSET Requirement
      /\ disk'.rows = retired \cup {InForce(n + 1)} /\ published' = published \cup {n + 1}
  BY Publishing
<1>2. \A r \in disk.rows : r.id \in 1..n
  BY DEF RowsInv
<1>3. \A r \in disk.rows : Retired(r) \in retired /\ Retired(r).id = r.id
  BY <1>1, RetiredIs
<1>4. ASSUME NEW x \in retired
      PROVE  x.active = FALSE /\ \E r \in disk.rows : x = Retired(r) /\ x.id = r.id
  <2>1. PICK r \in disk.rows : x = Retired(r)
    OBVIOUS
  <2>2. Retired(r).id = r.id /\ Retired(r).active = FALSE
    BY <1>1, RetiredIs
  <2> QED BY <2>1, <2>2
<1>5. InForce(n + 1).id = n + 1 /\ InForce(n + 1).active = TRUE
  <2> HIDE DEF n, retired, f
  <2>1. n + 1 \in Nat
    BY <1>1
  <2> QED BY <2>1, InForceIs
<1>6. ASSUME NEW x \in retired, NEW y \in retired, x.id = y.id PROVE x = y
  <2> HIDE DEF retired, f
  <2>1. PICK r \in disk.rows : x = Retired(r) /\ x.id = r.id
    BY <1>4
  <2>2. PICK s \in disk.rows : y = Retired(s) /\ y.id = s.id
    BY <1>4
  <2>3. r = s
    BY <1>6, <2>1, <2>2 DEF RowsInv
  <2> QED BY <2>1, <2>2, <2>3
<1>7. ExistsBijection(disk.rows, retired)
  <2>1. f \in Surjection(disk.rows, retired)
    BY DEF Surjection
  <2>2. \A r, s \in disk.rows : f[r] = f[s] => r = s
    BY <1>3 DEF RowsInv
  <2> HIDE DEF f, retired
  <2> QED BY <2>1, <2>2 DEF ExistsBijection, Bijection, Injection, Surjection, IsInjective
<1>8. IsFiniteSet(retired) /\ Cardinality(retired) = n
  <2>1. IsFiniteSet(disk.rows)
    BY DEF RowsInv
  <2> HIDE DEF retired
  <2> QED BY <1>7, <2>1, FS_Bijection
<1> HIDE DEF retired, f, n
<1>9. InForce(n + 1) \notin retired
  BY <1>1, <1>2, <1>4, <1>5
<1>10. IsFiniteSet(disk'.rows) /\ Cardinality(disk'.rows) = n + 1
  BY <1>1, <1>8, <1>9, FS_AddElement
<1>11. {r.id : r \in disk'.rows} = {r.id : r \in disk.rows} \cup {n + 1}
  <2>1. ASSUME NEW r \in disk'.rows PROVE r.id \in {s.id : s \in disk.rows} \cup {n + 1}
    BY <1>1, <1>4, <1>5
  <2>2. ASSUME NEW s \in disk.rows PROVE s.id \in {r.id : r \in disk'.rows}
    BY <1>1, <1>3
  <2>3. n + 1 \in {r.id : r \in disk'.rows}
    BY <1>1, <1>5
  <2> QED BY <2>1, <2>2, <2>3
<1>12. {r.id : r \in disk.rows} = 1..n /\ 1..(n + 1) = (1..n) \cup {n + 1}
  BY <1>1 DEF RowsInv, n
<1>13. ASSUME NEW r \in disk'.rows, NEW s \in disk'.rows,
              r.id = s.id \/ (r.active /\ s.active)
       PROVE  r = s
  <2>1. r \in retired \/ r = InForce(n + 1)
    BY <1>1
  <2>2. s \in retired \/ s = InForce(n + 1)
    BY <1>1
  <2>3. ASSUME NEW x \in retired PROVE x.active = FALSE /\ x.id # n + 1
    <3>1. PICK q \in disk.rows : x.id = q.id
      BY <1>4
    <3>2. q.id \in 1..n
      BY <1>2
    <3>3. q.id # n + 1
      BY <1>1, <3>2
    <3> QED BY <1>4, <3>1, <3>3
  <2>4. CASE r \in retired /\ s \in retired
    BY <1>6, <1>13, <2>3, <2>4
  <2>5. CASE r = InForce(n + 1) \/ s = InForce(n + 1)
    BY <1>5, <1>13, <2>1, <2>2, <2>3, <2>5
  <2> QED BY <2>1, <2>2, <2>4, <2>5
<1> QED BY <1>1, <1>10, <1>11, <1>12, <1>13 DEF RowsInv

-----------------------------------------------------------------------------
(* Sound databases.                                                        *)

\* Each version of the foundation adds another piece.
LEMMA FoundationInjective ==
    \A u, v \in 1..4 : Foundation[u] = Foundation[v] => u = v
<1> SUFFICES ASSUME NEW u \in 1..4, NEW v \in 1..4, Foundation[u] = Foundation[v] PROVE u = v
  OBVIOUS
<1>1. u \in {1, 2, 3, 4} /\ v \in {1, 2, 3, 4}
  OBVIOUS
<1> QED BY <1>1, Foundations

\* Together they are what the first migration requires.
LEMMA FoundationComplete ==
    Requires[1] = {Foundation[v] : v \in 1..4}
<1>1. 1..4 = {1, 2, 3, 4}
  OBVIOUS
<1> QED BY <1>1, Foundations, Requirements

\* What an undamaged database is consistent with.
LEMMA UndamagedIs ==
    ASSUME TypeInv, Undamaged(disk)
    PROVE  /\ disk.version \in 0..4
           /\ Requires[1] \subseteq disk.pieces => disk.version = 4
           /\ \A i \in Migrated : Installed(i) <=> Requires[i] \subseteq disk.pieces
           /\ Consistent(Recorded)
           /\ NoViolation(disk)
<1>1. disk.version \in 0..4
  BY Requirements DEF TypeInv, Database, Undamaged
<1>2. ASSUME Requires[1] \subseteq disk.pieces PROVE disk.version = 4
  <2>1. Foundation[4] \in {Foundation[v] : v \in 1..disk.version}
    BY <1>2, FoundationComplete DEF Undamaged
  <2>2. PICK v \in 1..disk.version : Foundation[v] = Foundation[4]
    BY <2>1
  <2>3. v = 4
    BY <1>1, <2>2, FoundationInjective
  <2> QED BY <1>1, <2>3
<1>3. \A i \in Migrated : Installed(i) <=> Requires[i] \subseteq disk.pieces
  BY <1>2, Requirements DEF Installed, InstalledIn
<1>4. Consistent(Recorded)
  <2>1. ASSUME NEW i \in Recorded PROVE Installed(i) /\ 1..i \subseteq Recorded
    <3>1. i \in Migrated /\ disk.records[i] # "absent"
      BY DEF Recorded
    <3>2. /\ \A j \in 1..i : disk.records[j] # "absent"
          /\ Requires[i] \subseteq disk.pieces
      BY <3>1 DEF Undamaged
    <3>3. 1..i \subseteq Migrated
      BY <3>1, Requirements DEF Migrated
    <3> QED BY <1>3, <3>1, <3>2, <3>3 DEF Recorded
  <2> QED BY <2>1 DEF Consistent
<1> QED BY <1>1, <1>2, <1>3, <1>4 DEF Undamaged, NoViolation

\* The foundation completes what an undamaged database has of it.
LEMMA InitializedIs ==
    ASSUME TypeInv, Undamaged(disk)
    PROVE  Initializable /\ Undamaged(Initialized) /\ InstalledIn(1, Initialized)
<1>1. disk.version \in 0..4 /\ LatestVersion = 4
  BY UndamagedIs, Requirements
<1>2. ASSUME NEW x \in Missing, x \in disk.pieces PROVE FALSE
  <2>1. PICK v \in disk.version + 1 .. 4 : x = Foundation[v]
    BY <1>1 DEF Missing
  <2>2. v \in 1..4
    BY <1>1
  <2>3. x \in {Foundation[u] : u \in 1..disk.version}
    BY <1>2, <2>1, <2>2, FoundationComplete DEF Undamaged
  <2>4. PICK u \in 1..disk.version : x = Foundation[u]
    BY <2>3
  <2>5. u \in 1..4 /\ u # v
    BY <1>1, <2>1
  <2> QED BY <2>1, <2>2, <2>4, <2>5, FoundationInjective
<1>3. Requires[1] \subseteq disk.pieces \cup Missing
  <2>1. ASSUME NEW v \in 1..4 PROVE Foundation[v] \in disk.pieces \cup Missing
    <3>1. CASE v \in 1..disk.version
      BY <3>1 DEF Undamaged
    <3>2. CASE v \in disk.version + 1 .. 4
      BY <1>1, <3>2 DEF Missing
    <3> QED BY <1>1, <3>1, <3>2
  <2> QED BY <2>1, FoundationComplete
<1> DEFINE more == IF disk.version = 0 THEN {"history"} ELSE {}
<1>4. /\ Initialized.version = 4 /\ Initialized.pieces = disk.pieces \cup Missing \cup more
      /\ Initialized.records = disk.records /\ Initialized.cited = disk.cited
      /\ Initialized.rows = disk.rows
  BY <1>1 DEF Initialized, TypeInv, Database
<1> HIDE DEF more
<1>5. Initialized.pieces \cap Requires[1] = {Foundation[v] : v \in 1..4}
  BY <1>3, <1>4, FoundationComplete
<1>6. Undamaged(Initialized)
  BY <1>1, <1>4, <1>5 DEF Undamaged
<1>7. InstalledIn(1, Initialized)
  BY <1>1, <1>3, <1>4 DEF InstalledIn
<1> QED BY <1>2, <1>6, <1>7 DEF Initializable

\* The integration schema leaves an undamaged file undamaged, with the third migration installed.
LEMMA IntegratedIs ==
    ASSUME TypeInv, Undamaged(disk)
    PROVE  Undamaged(Integrated) /\ InstalledIn(3, Integrated)
<1>1. /\ Integrated.version = disk.version /\ Integrated.pieces = disk.pieces \cup Requires[3]
      /\ Integrated.records = disk.records /\ Integrated.cited = disk.cited
      /\ Integrated.rows = disk.rows
  BY DEF Integrated, TypeInv, Database
<1>2. Requires[1] \cap Requires[3] = {}
  BY Requirements
<1>3. Integrated.pieces \cap Requires[1] = disk.pieces \cap Requires[1]
  BY <1>1, <1>2
<1> QED BY <1>1, <1>3 DEF Undamaged, InstalledIn

\* A transaction on an undamaged database ends in a record, its own or another's.
LEMMA SoundSettle ==
    ASSUME TypeInv, Undamaged(disk),
           NEW p \in Processes, NEW i \in Migrated, i = job[p].step,
           NEW kind \in {"applied", "adopted"}, NEW d \in Database, NEW sound,
           Undamaged(d), disk.version <= d.version, d.records = disk.records,
           Requires[i] \subseteq d.pieces, 1..(i - 1) \subseteq Recorded, sound,
           Settle(p, i, kind, d, sound)
    PROVE  /\ Undamaged(disk') /\ Advance(p) /\ i \in Recorded'
           /\ disk.version <= disk'.version
<1>1. Consistent(Recorded) /\ disk.version \in 0..4
  BY UndamagedIs
<1>2. CASE i \in Recorded
  <2>1. Advance(p) /\ UNCHANGED disk
    BY <1>1, <1>2 DEF Settle, Raced
  <2> QED BY <1>1, <1>2, <2>1 DEF Recorded
<1>3. CASE i \notin Recorded
  <2>1. Write(p, i, kind, d)
    BY <1>1, <1>3 DEF Settle, Raced
  <2>2. disk' = [d EXCEPT !.records[i] = kind] /\ Advance(p)
    BY <2>1 DEF Write
  <2>3. /\ disk'.version = d.version /\ disk'.pieces = d.pieces
        /\ disk'.records = [disk.records EXCEPT ![i] = kind]
        /\ disk'.cited = d.cited /\ disk'.rows = d.rows
    BY <2>2 DEF Database
  <2>4. \A j \in Migrated : disk'.records[j] = IF j = i THEN kind ELSE disk.records[j]
    BY <2>3 DEF TypeInv, Database
  <2>5. ASSUME NEW j \in Migrated, disk'.records[j] # "absent"
        PROVE  /\ \A k \in 1..j : disk'.records[k] # "absent"
               /\ Requires[j] \subseteq disk'.pieces
    <3>1. 1..j \subseteq Migrated
      BY Requirements DEF Migrated
    <3>2. CASE j = i
      <4>1. \A k \in 1..i : k = i \/ k \in 1..(i - 1)
        BY Requirements
      <4>2. \A k \in 1..(i - 1) : disk.records[k] # "absent"
        BY DEF Recorded
      <4> QED BY <2>3, <2>4, <3>1, <3>2, <4>1, <4>2
    <3>3. CASE j # i
      <4>1. \A k \in 1..j : disk.records[k] # "absent"
        BY <2>4, <2>5, <3>3 DEF Undamaged
      <4>2. Requires[j] \subseteq disk'.pieces
        BY <2>3, <2>4, <2>5, <3>3 DEF Undamaged
      <4> QED BY <2>4, <3>1, <4>1, <4>2
    <3> QED BY <3>2, <3>3
  <2>6. Undamaged(disk')
    BY <2>3, <2>5 DEF Undamaged
  <2> QED BY <2>2, <2>3, <2>4, <2>6 DEF Recorded
<1> QED BY <1>2, <1>3

\* What a process relies on while it starts on a sound database: what it has
\* seen and made stays, so that no other process can make it refuse.
SoundJob(p) ==
    /\ job[p].pc # "refused"
    /\ job[p].foreignKeys \/ job[p].pc \in {"down", "rebuilding"}
    /\ job[p].pc = "inspecting" => job[p].seen \subseteq Recorded /\ Consistent(job[p].seen)
    /\ job[p].pc \in {"adopting", "applying"} \cup Owning => p \in Starters
    /\ p \in Starters /\ job[p].pc \notin {"down", "opened"} =>
          disk.ledger /\ 1..(job[p].step - 1) \subseteq Recorded
    /\ job[p].pc = "down" => job[p].step = 1
    /\ job[p].pc = "opened" => p \in Starters /\ job[p].step = 1
    /\ p \in Starters /\ job[p].pc = "inspecting" =>
          1..(job[p].step - 1) \subseteq job[p].seen
    /\ job[p].pc = "adopting" => Installed(job[p].step)
    /\ job[p].pc = "applying" => job[p].step # 2
    /\ job[p].pc \in {"adding", "keying", "verifying", "recording"} => "history" \in disk.pieces
    /\ job[p].pc \in {"keying", "verifying", "recording"} => "versions" \in disk.pieces
    /\ job[p].pc \in {"verifying", "recording"} => "keys" \in disk.pieces
    /\ job[p].pc = "ready" => Recorded = Migrated /\ job[p].foreignKeys

SoundInv == Undamaged(disk) /\ \A p \in Processes : SoundJob(p)

\* What a step that only adds leaves of what the others rely on.
LEMMA Others ==
    ASSUME TypeInv, TypeInv', SoundInv, Grown, disk.version <= disk'.version,
           NEW p \in Processes, job'[p] = job[p]
    PROVE  SoundJob(p)'
<1>0. job[p] \in Job /\ StepFits(job[p]) /\ SoundJob(p)
  BY DEF TypeInv, SoundInv
<1>1. \A i \in Migrated : InstalledIn(i, disk) => InstalledIn(i, disk')
  <2>1. disk.version \in Int /\ disk'.version \in Int /\ disk.pieces \subseteq disk'.pieces
    BY DEF TypeInv, Database, Grown
  <2> QED BY <2>1, Requirements DEF InstalledIn
<1>4. job[p].pc = "inspecting" =>
         \A i \in job[p].seen : InstalledIn(i, disk') /\ 1..i \subseteq job[p].seen
  <2>1. job[p].pc = "inspecting" => Consistent(job[p].seen)
    BY <1>0 DEF SoundJob
  <2>2. job[p].seen \subseteq Migrated
    BY <1>0 DEF Job
  <2> QED BY <1>1, <2>1, <2>2 DEF Consistent, Installed
<1>5. job[p].pc = "adopting" => InstalledIn(job[p].step, disk')
  BY <1>0, <1>1 DEF SoundJob, StepFits, Installed
<1>6. Recorded \subseteq Recorded' /\ Recorded' \subseteq Migrated
  BY DEF Grown, Recorded
<1>7. disk.pieces \subseteq disk'.pieces /\ (disk.ledger => disk'.ledger)
  BY DEF Grown
<1>8. job[p].pc = "inspecting" => job[p].seen \subseteq Recorded'
  BY <1>0, <1>6 DEF SoundJob
<1>9. p \in Starters /\ job[p].pc \notin {"down", "opened"} =>
         disk'.ledger /\ 1..(job[p].step - 1) \subseteq Recorded'
  BY <1>0, <1>6, <1>7 DEF SoundJob
<1>10. job[p].pc = "ready" => Recorded' = Migrated
  BY <1>0, <1>6 DEF SoundJob
<1>11. /\ job[p].pc \in {"adding", "keying", "verifying", "recording"} => "history" \in disk'.pieces
       /\ job[p].pc \in {"keying", "verifying", "recording"} => "versions" \in disk'.pieces
       /\ job[p].pc \in {"verifying", "recording"} => "keys" \in disk'.pieces
  BY <1>0, <1>7 DEF SoundJob
<1> QED BY <1>0, <1>4, <1>5, <1>8, <1>9, <1>10, <1>11 DEF SoundJob, Consistent, Installed

\* On to the next migration, with this one recorded.
LEMMA Onward ==
    ASSUME TypeInv, SoundInv, Kept, NEW p \in Processes, p \in Starters, Advance(p),
           job[p].pc \notin {"down", "opened", "rebuilding"},
           job[p].step \in Recorded'
    PROVE  SoundJob(p)'
<1>1. job[p] \in Job /\ SoundJob(p) /\ job \in [Processes -> Job]
  BY DEF TypeInv, SoundInv
<1>2. job'[p] = [job[p] EXCEPT !.pc = "reading", !.step = @ + 1]
  BY <1>1 DEF Advance
<1>3. /\ job'[p].pc = "reading" /\ job'[p].step = job[p].step + 1
      /\ job'[p].foreignKeys = job[p].foreignKeys
  BY <1>1, <1>2 DEF Job
<1>4. 1..job[p].step \subseteq Recorded'
  <2>1. job[p].step \in 1..4
    BY <1>1 DEF Job
  <2>2. \A j \in 1..job[p].step : j = job[p].step \/ j \in 1..(job[p].step - 1)
    BY <2>1
  <2>3. 1..(job[p].step - 1) \subseteq Recorded
    BY <1>1 DEF SoundJob
  <2> QED BY <2>2, <2>3 DEF Kept, Grown
<1>5. disk'.ledger
  BY <1>1 DEF SoundJob, Kept, Grown
<1>6. job'[p].foreignKeys
  BY <1>1, <1>3 DEF SoundJob
<1>7. 1..(job'[p].step - 1) \subseteq Recorded'
  <2>1. job'[p].step - 1 = job[p].step
    BY <1>1, <1>3 DEF Job
  <2> QED BY <1>4, <2>1
<1> QED BY <1>3, <1>5, <1>6, <1>7 DEF SoundJob, Owning

\* A process that goes to another point keeps what it read.
LEMMA Went ==
    ASSUME TypeInv, NEW p \in Processes, NEW pc, Goto(p, pc)
    PROVE  /\ job'[p].pc = pc /\ job'[p].step = job[p].step
           /\ job'[p].seen = job[p].seen /\ job'[p].foreignKeys = job[p].foreignKeys
<1>1. job[p] \in Job /\ job \in [Processes -> Job]
  BY DEF TypeInv
<1>2. job'[p] = [job[p] EXCEPT !.pc = pc]
  BY <1>1 DEF Goto
<1> QED BY <1>1, <1>2 DEF Job

\* Opening, planning and the final check find a sound database sound.
LEMMA SoundPlan ==
    ASSUME TypeInv, SoundInv, Kept, NEW p \in Processes,
           Open(p) \/ CreateLedger(p) \/ ReadLedger(p) \/ Plan(p) \/ Conclude(p) \/ Mistrust(p)
    PROVE  Undamaged(disk') /\ disk.version <= disk'.version /\ SoundJob(p)'
<1>1. /\ job[p] \in Job /\ SoundJob(p) /\ job \in [Processes -> Job]
      /\ Undamaged(disk) /\ disk \in Database
  BY DEF TypeInv, SoundInv
<1>2. /\ disk.version \in 0..4 /\ LatestVersion = 4 /\ Consistent(Recorded) /\ NoViolation(disk)
      /\ \A i \in Migrated : Installed(i) <=> Requires[i] \subseteq disk.pieces
  BY <1>1, UndamagedIs, Requirements
<1>3. Recorded \subseteq Migrated
  BY DEF Recorded
<1>a. CASE CreateLedger(p)
  <2>1. disk' = [disk EXCEPT !.ledger = TRUE] /\ Goto(p, "reading") /\ job[p].pc = "opened"
    BY <1>2, <1>a DEF CreateLedger, At
  <2>2. /\ disk'.version = disk.version /\ disk'.pieces = disk.pieces
        /\ disk'.records = disk.records /\ disk'.cited = disk.cited /\ disk'.rows = disk.rows
        /\ disk'.ledger = TRUE
    BY <1>1, <2>1 DEF Database
  <2>3. Undamaged(disk') /\ disk.version <= disk'.version
    BY <1>1, <1>2, <2>2 DEF Undamaged
  <2>4. job'[p].pc = "reading" /\ job'[p].step = 1 /\ job'[p].foreignKeys
    BY <1>1, <2>1, Went DEF SoundJob
  <2>5. 1..(job'[p].step - 1) \subseteq Recorded'
    BY <2>4
  <2> QED BY <2>2, <2>3, <2>4, <2>5 DEF SoundJob, Owning
<1>b. CASE UNCHANGED disk
  <2>1. Undamaged(disk') /\ disk.version <= disk'.version
    BY <1>1, <1>2, <1>b
  <2>2. Recorded' = Recorded
    BY <1>b DEF Recorded
  <2>3. CASE Open(p)
    <3>1. job'[p] = [job[p] EXCEPT !.pc = IF p \in Starters THEN "opened" ELSE "reading",
                                   !.foreignKeys = TRUE]
      BY <1>1, <2>3 DEF Open
    <3>2. /\ job'[p].pc = IF p \in Starters THEN "opened" ELSE "reading"
          /\ job'[p].foreignKeys /\ job'[p].step = 1
      BY <1>1, <2>3, <3>1 DEF Job, Open, At, SoundJob
    <3> QED BY <2>1, <3>2 DEF SoundJob, Owning
  <2>4. CASE ReadLedger(p)
    <3>1. job'[p] = [job[p] EXCEPT !.pc = "inspecting",
                                   !.seen = IF disk.ledger THEN Recorded ELSE {}]
      <4>1. ~(disk.version > LatestVersion)
        BY <1>2
      <4>2. job' = [job EXCEPT ![p].pc = "inspecting",
                               ![p].seen = IF disk.ledger THEN Recorded ELSE {}]
        BY <2>4, <4>1 DEF ReadLedger
      <4> QED BY <1>1, <4>2
    <3>2. /\ job'[p].pc = "inspecting" /\ job'[p].seen = IF disk.ledger THEN Recorded ELSE {}
          /\ job'[p].foreignKeys = job[p].foreignKeys /\ job'[p].step = job[p].step
      BY <1>1, <3>1 DEF Job
    <3>3. /\ job[p].foreignKeys
          /\ p \in Starters => disk.ledger /\ 1..(job[p].step - 1) \subseteq Recorded
      BY <1>1, <2>4 DEF SoundJob, ReadLedger, At
    <3>4. \A i \in job'[p].seen : InstalledIn(i, disk') /\ 1..i \subseteq job'[p].seen
      BY <1>2, <1>b, <3>2 DEF Consistent, Installed
    <3>5. p \in Starters => 1..(job'[p].step - 1) \subseteq job'[p].seen
      BY <3>2, <3>3
    <3>6. p \in Starters => disk'.ledger /\ 1..(job'[p].step - 1) \subseteq Recorded'
      BY <1>b, <2>2, <3>2, <3>3
    <3> QED BY <2>1, <2>2, <3>2, <3>3, <3>4, <3>5, <3>6 DEF SoundJob, Owning, Consistent, Installed
  <2>5. CASE Plan(p)
    <3>1. /\ p \in Starters /\ job[p].step \in Migrated /\ job[p].pc = "inspecting"
          /\ disk.ledger /\ 1..(job[p].step - 1) \subseteq Recorded /\ job[p].foreignKeys
          /\ job[p].seen \subseteq Recorded
      BY <1>1, <2>5 DEF Plan, At, SoundJob
    <3>2. CASE Advance(p) /\ job[p].step \in job[p].seen
      BY <2>1, <2>2, <3>1, <3>2, Onward
    <3>3. ASSUME NEW pc \in {"adopting", "applying", "looking"}, Goto(p, pc),
                 pc = "adopting" => Installed(job[p].step),
                 pc = "applying" => job[p].step # 2
          PROVE  SoundJob(p)'
      <4>1. /\ job'[p].pc = pc /\ job'[p].step = job[p].step
            /\ job'[p].foreignKeys = job[p].foreignKeys
        BY <3>3, Went
      <4>2. pc = "adopting" => InstalledIn(job'[p].step, disk')
        BY <1>b, <3>3, <4>1 DEF Installed
      <4>3. disk'.ledger /\ 1..(job'[p].step - 1) \subseteq Recorded'
        BY <1>b, <2>2, <3>1, <4>1
      <4> QED BY <3>1, <3>3, <4>1, <4>2, <4>3 DEF SoundJob, Installed
    <3> QED BY <2>1, <2>5, <3>2, <3>3 DEF Plan
  <2>6. CASE Conclude(p)
    <3>1. /\ job[p].pc = "inspecting" /\ job[p].seen \subseteq Recorded /\ job[p].foreignKeys
          /\ p \in Starters => /\ job[p].step \notin Migrated /\ disk.ledger
                               /\ 1..(job[p].step - 1) \subseteq Recorded
                               /\ 1..(job[p].step - 1) \subseteq job[p].seen
      BY <1>1, <2>6, ProcessAssumption DEF Conclude, Concluding, At, SoundJob
    <3>2. p \in Starters => job[p].seen = Migrated
      <4>1. p \in Starters => job[p].step = 4
        BY <1>1, <3>1, Requirements DEF Job
      <4>2. p \in Starters => Migrated \subseteq job[p].seen
        BY <3>1, <4>1 DEF Migrated
      <4> QED BY <1>3, <3>1, <4>2
    <3>3. \/ Goto(p, "ready") /\ job[p].seen = Migrated
          \/ Goto(p, "pending") /\ p \notin Starters
      BY <2>6, <3>2 DEF Conclude
    <3>4. CASE Goto(p, "ready") /\ job[p].seen = Migrated
      <4>1. /\ job'[p].pc = "ready" /\ job'[p].step = job[p].step
            /\ job'[p].foreignKeys = job[p].foreignKeys
        BY <3>4, Went
      <4>2. Recorded' = Migrated
        BY <1>3, <2>2, <3>1, <3>4
      <4>3. p \in Starters => disk'.ledger /\ 1..(job'[p].step - 1) \subseteq Recorded'
        BY <1>b, <2>2, <3>1, <4>1
      <4> QED BY <2>1, <3>1, <4>1, <4>2, <4>3 DEF SoundJob, Owning
    <3>5. CASE Goto(p, "pending") /\ p \notin Starters
      <4>1. job'[p].pc = "pending" /\ job'[p].foreignKeys = job[p].foreignKeys
        BY <3>5, Went
      <4> QED BY <2>1, <3>1, <3>5, <4>1 DEF SoundJob, Owning
    <3> QED BY <3>3, <3>4, <3>5
  <2>7. CASE Mistrust(p)
    <3>1. Consistent(job[p].seen)
      BY <1>1, <2>7 DEF Mistrust, At, SoundJob
    <3> QED BY <1>2, <2>7, <3>1 DEF Mistrust
  <2> QED BY <1>a, <2>3, <2>4, <2>5, <2>6, <2>7
<1> QED BY <1>a, <1>b DEF Open, ReadLedger, Plan, Conclude, Mistrust, Refuse

\* Each migration is made, or found made, on a sound database.
LEMMA SoundMigration ==
    ASSUME TypeInv, SoundInv, Kept, NEW p \in Processes,
           \/ Adopt(p) \/ ApplyInTransaction(p) \/ Look(p) \/ Rebuild(p)
           \/ AddVersions(p) \/ AddKeys(p) \/ Verify(p) \/ Record(p) \/ CheckAgain(p)
    PROVE  Undamaged(disk') /\ disk.version <= disk'.version /\ SoundJob(p)'
<1>1. /\ job[p] \in Job /\ StepFits(job[p]) /\ SoundJob(p) /\ job \in [Processes -> Job]
      /\ Undamaged(disk) /\ disk \in Database
  BY DEF TypeInv, SoundInv
<1>2. /\ disk.version \in 0..4 /\ LatestVersion = 4 /\ Consistent(Recorded) /\ NoViolation(disk)
      /\ \A i \in Migrated : Installed(i) <=> Requires[i] \subseteq disk.pieces
  BY <1>1, UndamagedIs, Requirements
<1>3. Requires[2] = {"history", "versions", "keys"} /\ Requires[1] \cap Requires[2] = {}
      /\ 2 \in Migrated
  BY Requirements
\* A transaction recorded what it made or found.
<1>4. ASSUME job[p].pc \in {"adopting", "applying", "recording"},
             Advance(p), job[p].step \in Recorded'
      PROVE  SoundJob(p)'
  BY <1>1, <1>4, Onward DEF SoundJob, Owning
<1>5. CASE Adopt(p)
  <2>1. /\ job[p].pc = "adopting" /\ job[p].step \in Migrated /\ Installed(job[p].step)
        /\ 1..(job[p].step - 1) \subseteq Recorded
        /\ Settle(p, job[p].step, "adopted", disk, Installed(job[p].step) /\ NoViolation(disk))
    BY <1>1, <1>5 DEF Adopt, At, StepFits, SoundJob
  <2>2. Requires[job[p].step] \subseteq disk.pieces /\ disk.version <= disk.version
    BY <1>2, <2>1
  <2>3. /\ Undamaged(disk') /\ Advance(p) /\ job[p].step \in Recorded'
        /\ disk.version <= disk'.version
    BY <1>1, <1>2, <2>1, <2>2, SoundSettle
  <2> QED BY <1>4, <2>1, <2>3
<1>6. CASE ApplyInTransaction(p)
  <2> DEFINE i == job[p].step
  <2>1. /\ job[p].pc = "applying" /\ i \in Migrated /\ i # 2
        /\ 1..(i - 1) \subseteq Recorded
    BY <1>1, <1>6 DEF ApplyInTransaction, At, StepFits, SoundJob
  <2>2. CASE Installed(i)
    <3>1. Settle(p, i, "adopted", disk, NoViolation(disk))
      BY <1>6, <2>2 DEF ApplyInTransaction
    <3>2. Requires[i] \subseteq disk.pieces /\ disk.version <= disk.version
      BY <1>2, <2>1, <2>2
    <3>3. /\ Undamaged(disk') /\ Advance(p) /\ i \in Recorded' /\ disk.version <= disk'.version
      <4> HIDE DEF i
      <4> QED BY <1>1, <1>2, <2>1, <3>1, <3>2, SoundSettle DEF i
    <3> QED BY <1>4, <2>1, <3>3
  <2>3. CASE ~Installed(i)
    <3>1. Settle(p, i, "applied", Applied(i),
                 /\ i = 1 => Initializable
                 /\ InstalledIn(i, Applied(i)) /\ NoViolation(Applied(i)))
      BY <1>6, <2>3 DEF ApplyInTransaction
    <3>2. /\ Applied(i) \in Database /\ Undamaged(Applied(i)) /\ InstalledIn(i, Applied(i))
          /\ i = 1 => Initializable
      <4>1. i = 1 \/ i = 3
        BY <2>1, Requirements
      <4> QED BY <1>1, <4>1, InitializedIs, IntegratedIs, Written DEF Applied
    <3>3. /\ Applied(i).records = disk.records /\ disk.version <= Applied(i).version
          /\ Applied(i).rows = disk.rows /\ Applied(i).cited = disk.cited
      BY <1>1, <1>2 DEF Applied, Initialized, Integrated, Database
    <3>4. NoViolation(Applied(i)) /\ Requires[i] \subseteq Applied(i).pieces
      BY <1>2, <3>2, <3>3 DEF NoViolation, InstalledIn
    <3>5. /\ Undamaged(disk') /\ Advance(p) /\ i \in Recorded' /\ disk.version <= disk'.version
      <4> HIDE DEF i
      <4> QED BY <1>1, <2>1, <3>1, <3>2, <3>3, <3>4, SoundSettle DEF i
    <3> QED BY <1>4, <2>1, <3>5
  <2> QED BY <2>2, <2>3
\* Between these lie the steps of migration 2, at which a process keeps its place.
<1>7. ASSUME job[p].pc \in Owning,
             job'[p].step = job[p].step, job'[p].pc \in Owning,
             job'[p].foreignKeys \/ job'[p].pc = "rebuilding",
             job'[p].pc \in {"adding", "keying", "verifying", "recording"} => "history" \in disk'.pieces,
             job'[p].pc \in {"keying", "verifying", "recording"} => "versions" \in disk'.pieces,
             job'[p].pc \in {"verifying", "recording"} => "keys" \in disk'.pieces
      PROVE  SoundJob(p)'
  <2>1. p \in Starters /\ disk.ledger /\ 1..(job[p].step - 1) \subseteq Recorded
    BY <1>1, <1>7 DEF SoundJob, Owning
  <2>2. disk'.ledger /\ 1..(job'[p].step - 1) \subseteq Recorded'
    BY <1>7, <2>1 DEF Kept, Grown
  <2> QED BY <1>7, <2>1, <2>2 DEF SoundJob, Owning
\* What only adds pieces of migration 2 does no damage.
<1>8. ASSUME NEW piece \in Requires[2], disk'.version = disk.version,
             disk'.pieces = disk.pieces \cup {piece}, disk'.records = disk.records
      PROVE  Undamaged(disk') /\ disk.version <= disk'.version
  <2>1. disk'.pieces \cap Requires[1] = disk.pieces \cap Requires[1]
    BY <1>3, <1>8
  <2> QED BY <1>1, <1>2, <1>8, <2>1 DEF Undamaged, Kept, Grown
<1>9. CASE Look(p) \/ Verify(p) \/ CheckAgain(p)
  <2>0. UNCHANGED disk
    BY <1>9 DEF Look, Verify, CheckAgain
  <2>1. Undamaged(disk') /\ disk.version <= disk'.version
    BY <1>1, <1>2, <2>0
  <2>2. CASE Look(p)
    <3>1. job'[p] = [job[p] EXCEPT
                        !.pc = IF "history" \in disk.pieces THEN "adding" ELSE "rebuilding",
                        !.foreignKeys = "history" \in disk.pieces]
      BY <1>1, <2>2 DEF Look
    <3>2. /\ job'[p].pc = IF "history" \in disk.pieces THEN "adding" ELSE "rebuilding"
          /\ job'[p].foreignKeys = ("history" \in disk.pieces) /\ job'[p].step = job[p].step
      BY <1>1, <3>1 DEF Job
    <3>3. job[p].pc \in Owning
      BY <2>2 DEF Look, At, Owning
    <3>4. job'[p].foreignKeys \/ job'[p].pc = "rebuilding"
      BY <3>2
    <3> QED BY <1>7, <2>0, <2>1, <3>2, <3>3, <3>4 DEF Owning
  <2>3. CASE Verify(p)
    <3>1. /\ job[p].pc = "verifying" /\ job[p].foreignKeys
          /\ Requires[2] \subseteq disk.pieces
      BY <1>1, <1>3, <2>3 DEF Verify, At, SoundJob
    <3>2. Goto(p, "recording")
      BY <1>2, <1>3, <2>3, <3>1 DEF Verify
    <3>3. /\ job'[p].pc = "recording" /\ job'[p].step = job[p].step
          /\ job'[p].foreignKeys = job[p].foreignKeys
      BY <3>2, Went
    <3> QED BY <1>3, <1>7, <2>0, <2>1, <3>1, <3>3 DEF Owning
  <2>4. CASE CheckAgain(p)
    <3>1. job'[p] = Down
      BY <1>1, <2>4 DEF CheckAgain
    <3> QED BY <2>1, <3>1 DEF Down, SoundJob, Owning
  <2> QED BY <1>9, <2>2, <2>3, <2>4

<1>10. CASE Rebuild(p)
  <2> DEFINE d == [disk EXCEPT !.pieces = @ \cup {"history"}, !.rows = Copied(@)]
  <2>1. /\ d.pieces = disk.pieces \cup {"history"} /\ d.rows = disk.rows /\ d.cited = disk.cited
        /\ d.version = disk.version /\ d.records = disk.records
    BY <1>1 DEF Copied, Database
  <2>2. NoViolation(d)
    BY <1>2, <2>1 DEF NoViolation
  <2>3. /\ disk' = d /\ job[p].pc = "rebuilding"
        /\ job' = [job EXCEPT ![p].pc = "adding", ![p].foreignKeys = TRUE]
    BY <1>10, <2>2 DEF Rebuild, At
  <2>4. job'[p] = [job[p] EXCEPT !.pc = "adding", !.foreignKeys = TRUE]
    BY <1>1, <2>3
  <2>5. job'[p].pc = "adding" /\ job'[p].foreignKeys /\ job'[p].step = job[p].step
    BY <1>1, <2>4 DEF Job
  <2> HIDE DEF d
  <2>6. Undamaged(disk') /\ disk.version <= disk'.version
    BY <1>3, <1>8, <2>1, <2>3
  <2> QED BY <1>7, <2>1, <2>3, <2>5, <2>6 DEF Owning
<1>11. ASSUME NEW piece \in Requires[2], NEW from \in Owning \ {"rebuilding"}, NEW to \in Owning,
              Add(p, piece, from, to)
       PROVE  /\ Undamaged(disk') /\ disk.version <= disk'.version
              /\ disk'.pieces = disk.pieces \cup {piece}
              /\ job'[p].pc = to /\ job'[p].step = job[p].step /\ job'[p].foreignKeys
  <2>1. disk' = [disk EXCEPT !.pieces = @ \cup {piece}] /\ Goto(p, to) /\ job[p].pc = from
    BY <1>11 DEF Add, CanCreate, At
  <2>2. /\ disk'.pieces = disk.pieces \cup {piece}
        /\ disk'.version = disk.version /\ disk'.records = disk.records
    BY <1>1, <2>1 DEF Database
  <2>3. job'[p].pc = to /\ job'[p].step = job[p].step /\ job'[p].foreignKeys
    BY <1>1, <2>1, Went DEF SoundJob, Owning
  <2> QED BY <1>8, <2>2, <2>3
<1>12. CASE AddVersions(p)
  <2>1. job[p].pc = "adding" /\ "history" \in disk.pieces
    BY <1>1, <1>12 DEF AddVersions, Add, At, SoundJob
  <2>2. /\ Undamaged(disk') /\ disk.version <= disk'.version
        /\ disk'.pieces = disk.pieces \cup {"versions"}
        /\ job'[p].pc = "keying" /\ job'[p].step = job[p].step /\ job'[p].foreignKeys
    BY <1>3, <1>11, <1>12 DEF AddVersions, Owning
  <2> QED BY <1>7, <2>1, <2>2 DEF Owning
<1>13. CASE AddKeys(p)
  <2>1. job[p].pc = "keying" /\ "history" \in disk.pieces /\ "versions" \in disk.pieces
    BY <1>1, <1>13 DEF AddKeys, Add, At, SoundJob
  <2>2. /\ Undamaged(disk') /\ disk.version <= disk'.version
        /\ disk'.pieces = disk.pieces \cup {"keys"}
        /\ job'[p].pc = "verifying" /\ job'[p].step = job[p].step /\ job'[p].foreignKeys
    BY <1>3, <1>11, <1>13 DEF AddKeys, Owning
  <2> QED BY <1>7, <2>1, <2>2 DEF Owning
<1>14. CASE Record(p)
  <2>1. /\ job[p].pc = "recording" /\ job[p].step = 2
        /\ 1..(job[p].step - 1) \subseteq Recorded
        /\ Requires[2] \subseteq disk.pieces
        /\ Settle(p, 2, "applied", disk, TRUE)
    BY <1>1, <1>3, <1>14 DEF Record, At, StepFits, SoundJob, Owning
  <2>2. /\ Undamaged(disk') /\ Advance(p) /\ job[p].step \in Recorded'
        /\ disk.version <= disk'.version
    <3>1. disk.version <= disk.version
      BY <1>2
    <3> QED BY <1>1, <1>3, <2>1, <3>1, SoundSettle
  <2> QED BY <1>4, <2>1, <2>2
<1> QED BY <1>5, <1>6, <1>9, <1>10, <1>12, <1>13, <1>14

\* A step changes what one process is at.
LEMMA Alone ==
    ASSUME TypeInv, NEW p \in Processes, Start(p) \/ Dies(p), NEW q \in Processes, q # p
    PROVE  job'[q] = job[q]
<1>0. job \in [Processes -> Job]
  BY DEF TypeInv
<1>1. CASE \E pc : Goto(p, pc)
  BY <1>0, <1>1 DEF Goto
<1>2. CASE Advance(p)
  BY <1>0, <1>2 DEF Advance
<1>3. CASE Open(p) \/ ReadLedger(p) \/ Look(p) \/ Rebuild(p) \/ CheckAgain(p) \/ Dies(p)
  BY <1>0, <1>1, <1>3 DEF Open, ReadLedger, Look, Rebuild, CheckAgain, Dies
<1>4. ASSUME NEW i, NEW kind, NEW d, NEW sound, Settle(p, i, kind, d, sound)
      PROVE  job'[q] = job[q]
  BY <1>1, <1>2, <1>4 DEF Settle, Refuse, Write
<1>5. CASE CreateLedger(p) \/ Plan(p) \/ Conclude(p) \/ Mistrust(p)
  BY <1>1, <1>2, <1>5 DEF CreateLedger, Plan, Conclude, Mistrust, Refuse
<1>6. CASE Adopt(p) \/ ApplyInTransaction(p) \/ Record(p)
  BY <1>4, <1>6 DEF Adopt, ApplyInTransaction, Record
<1>7. CASE AddVersions(p) \/ AddKeys(p) \/ Verify(p)
  BY <1>1, <1>7 DEF AddVersions, AddKeys, Add, Verify, Refuse
<1> QED BY <1>3, <1>5, <1>6, <1>7 DEF Start

\* Sound databases stay so, and nobody refuses them.
LEMMA SoundStep ==
    ASSUME TypeInv, TypeInv', RowsInv, SoundInv, [Next]_vars
    PROVE  SoundInv'
<1>1. ASSUME NEW p \in Processes, Start(p) PROVE SoundInv'
  <2>1. Kept
    BY <1>1, StartKeeps
  <2>2. Undamaged(disk') /\ disk.version <= disk'.version /\ SoundJob(p)'
    BY <1>1, <2>1, SoundPlan, SoundMigration DEF Start
  <2>3. ASSUME NEW q \in Processes, q # p PROVE SoundJob(q)'
    BY <1>1, <2>1, <2>2, <2>3, Alone, Others DEF Kept
  <2> QED BY <2>2, <2>3 DEF SoundInv
<1>2. ASSUME disk'.version = disk.version, disk'.pieces = disk.pieces,
             disk'.records = disk.records, disk'.ledger = disk.ledger,
             disk'.cited \subseteq {r.id : r \in disk'.rows},
             \A p \in Processes : job'[p] = job[p] \/ job'[p] = Down
      PROVE  SoundInv'
  <2>1. Undamaged(disk')
    BY <1>2 DEF Undamaged, SoundInv
  <2>2. Grown /\ disk.version <= disk'.version
    BY <1>2 DEF Grown, Recorded, TypeInv, Database
  <2>3. ASSUME NEW p \in Processes PROVE SoundJob(p)'
    <3>1. CASE job'[p] = job[p]
      BY <2>2, <3>1, Others
    <3>2. CASE job'[p] = Down
      BY <3>2 DEF Down, SoundJob, Owning
    <3> QED BY <1>2, <3>1, <3>2
  <2> QED BY <2>1, <2>3 DEF SoundInv
<1>3. disk.cited \subseteq {r.id : r \in disk.rows} /\ disk \in Database /\ job \in [Processes -> Job]
  BY DEF SoundInv, Undamaged, TypeInv
<1>4. ASSUME NEW p \in Processes, Publish(p) PROVE SoundInv'
  <2>1. /\ disk' = [disk EXCEPT !.rows = disk'.rows] /\ UNCHANGED job
        /\ published \cup {Cardinality(disk.rows) + 1} = published'
    BY <1>4, Publishing
  <2>2. {r.id : r \in disk'.rows} = published' /\ {r.id : r \in disk.rows} = published
    BY <1>4, PublishRows DEF RowsInv
  <2>3. disk'.cited = disk.cited
    BY <1>3, <2>1 DEF Database
  <2>4. disk'.cited \subseteq {r.id : r \in disk'.rows}
    BY <1>3, <2>1, <2>2, <2>3
  <2> QED BY <1>2, <1>3, <2>1, <2>4 DEF Database
<1>5. ASSUME NEW p \in Processes, Evaluate(p) PROVE SoundInv'
  <2>1. PICK r \in disk.rows : disk' = [disk EXCEPT !.cited = @ \cup {r.id}]
    BY <1>5 DEF Evaluate
  <2>2. /\ disk'.cited = disk.cited \cup {r.id} /\ disk'.rows = disk.rows
        /\ disk'.version = disk.version /\ disk'.pieces = disk.pieces
        /\ disk'.records = disk.records /\ disk'.ledger = disk.ledger
    BY <1>3, <2>1 DEF Database
  <2>3. UNCHANGED job
    BY <1>5 DEF Evaluate
  <2> QED BY <1>2, <1>3, <2>2, <2>3
<1>6. ASSUME NEW p \in Processes, Dies(p) PROVE SoundInv'
  BY <1>2, <1>3, <1>6 DEF Dies
<1>7. CASE UNCHANGED vars
  BY <1>2, <1>3, <1>7 DEF vars
<1> QED BY <1>1, <1>4, <1>5, <1>6, <1>7 DEF Next

-----------------------------------------------------------------------------
(* Damaged databases.  Each kind of damage stops a start at another point, *)
(* and none heals.                                                         *)

FutureVersion ==
    /\ disk.version > LatestVersion
    /\ \A p \in Processes : job[p].pc \in {"down", "opened", "reading", "refused"}

FalseLedger ==
    /\ ~Consistent(Recorded) /\ disk.ledger
    /\ \A p \in Processes :
         /\ job[p].pc \in {"down", "opened", "reading", "inspecting", "refused"}
         /\ job[p].pc = "inspecting" => job[p].seen = Recorded

ForeignTables ==
    /\ disk.version <= LatestVersion /\ Recorded = {}
    /\ disk.pieces \cap Requires[1] # {Foundation[v] : v \in 1..disk.version}
    /\ \A p \in Processes :
         /\ job[p].pc \in {"down", "opened", "reading", "inspecting", "applying", "refused", "pending"}
         /\ job[p].pc \in {"down", "opened", "reading", "inspecting", "applying"} => job[p].step = 1
         /\ job[p].pc = "inspecting" => job[p].seen = {}

DanglingFindings ==
    /\ ~NoViolation(disk)
    /\ \A p \in Processes : job[p].pc \notin {"recording", "ready"}

DamagedInv == FutureVersion \/ FalseLedger \/ ForeignTables \/ DanglingFindings

\* A file of a future version stays one.
LEMMA FutureStep ==
    ASSUME TypeInv, FutureVersion, NEW p \in Processes, Start(p) \/ Dies(p)
    PROVE  FutureVersion'
<1>1. job[p].pc \in {"down", "opened", "reading", "refused"} /\ job[p] \in Job /\ disk.version > LatestVersion
      /\ job \in [Processes -> Job]
  BY DEF FutureVersion, TypeInv
<1>2. UNCHANGED disk /\ job'[p].pc \in {"down", "opened", "reading", "refused"}
  <2>1. CASE Open(p)
    <3>1. job'[p] = [job[p] EXCEPT !.pc = IF p \in Starters THEN "opened" ELSE "reading",
                                   !.foreignKeys = TRUE]
      BY <1>1, <2>1 DEF Open
    <3> QED BY <1>1, <2>1, <3>1 DEF Open, Job
  <2>2. CASE CreateLedger(p)
    BY <1>1, <2>2, Went DEF CreateLedger, Refuse
  <2>3. CASE ReadLedger(p)
    BY <1>1, <2>3, Went DEF ReadLedger
  <2>4. CASE Dies(p) \/ CheckAgain(p)
    BY <1>1, <2>4 DEF Dies, CheckAgain, Down
  <2> QED
    BY <1>1, <2>1, <2>2, <2>3, <2>4
    DEF Start, Plan, Conclude, Concluding, Mistrust, Adopt, ApplyInTransaction, Look, Rebuild,
        AddVersions, AddKeys, Add, Verify, Record, At
<1>3. \A q \in Processes : q # p => job'[q] = job[q]
  BY Alone
<1> QED BY <1>1, <1>2, <1>3 DEF FutureVersion

\* A ledger that says too much stays one.
LEMMA FalseStep ==
    ASSUME TypeInv, FalseLedger, NEW p \in Processes, Start(p) \/ Dies(p)
    PROVE  FalseLedger'
<1>1. /\ job[p].pc \in {"down", "opened", "reading", "inspecting", "refused"}
      /\ job[p].pc = "inspecting" => job[p].seen = Recorded
      /\ job[p] \in Job /\ ~Consistent(Recorded) /\ disk.ledger
      /\ job \in [Processes -> Job] /\ disk \in Database
  BY DEF FalseLedger, TypeInv
<1>2. /\ UNCHANGED disk
      /\ job'[p].pc \in {"down", "opened", "reading", "inspecting", "refused"}
      /\ job'[p].pc = "inspecting" => job'[p].seen = Recorded
  <2>1. CASE Open(p)
    <3>1. job'[p] = [job[p] EXCEPT !.pc = IF p \in Starters THEN "opened" ELSE "reading",
                                   !.foreignKeys = TRUE]
      BY <1>1, <2>1 DEF Open
    <3> QED BY <1>1, <2>1, <3>1 DEF Open, Job
  <2>2. CASE CreateLedger(p)
    <3>1. [disk EXCEPT !.ledger = TRUE] = disk
      BY <1>1 DEF Database
    <3> QED BY <1>1, <2>2, <3>1, Went DEF CreateLedger, Refuse
  <2>3. CASE ReadLedger(p)
    <3>1. CASE Goto(p, "refused")
      BY <1>1, <2>3, <3>1, Went DEF ReadLedger
    <3>2. CASE job' = [job EXCEPT ![p].pc = "inspecting",
                                  ![p].seen = IF disk.ledger THEN Recorded ELSE {}]
      <4>1. job'[p] = [job[p] EXCEPT !.pc = "inspecting", !.seen = Recorded]
        BY <1>1, <3>2
      <4> QED BY <1>1, <2>3, <4>1 DEF ReadLedger, Job
    <3> QED BY <2>3, <3>1, <3>2 DEF ReadLedger
  <2>4. CASE Mistrust(p)
    BY <1>1, <2>4, Went DEF Mistrust, Refuse
  <2>5. CASE Dies(p) \/ CheckAgain(p)
    BY <1>1, <2>5 DEF Dies, CheckAgain, Down
  <2>6. ~Plan(p) /\ ~Conclude(p)
    BY <1>1 DEF Plan, Conclude, Concluding, At
  <2> QED
    BY <1>1, <2>1, <2>2, <2>3, <2>4, <2>5, <2>6
    DEF Start, Adopt, ApplyInTransaction, Look, Rebuild,
        AddVersions, AddKeys, Add, Verify, Record, At
<1>3. \A q \in Processes : q # p => job'[q] = job[q]
  BY Alone
<1>4. Recorded' = Recorded /\ ~Consistent(Recorded)'
  BY <1>1, <1>2 DEF Recorded, Consistent, Installed
<1> QED BY <1>1, <1>2, <1>3, <1>4 DEF FalseLedger

\* Missing and found foundation tables that fit together are those of the version.
LEMMA FoundationFits ==
    ASSUME TypeInv, disk.version <= LatestVersion, Initializable, InstalledIn(1, Initialized)
    PROVE  disk.pieces \cap Requires[1] = {Foundation[v] : v \in 1..disk.version}
<1>1. disk \in Database /\ disk.version \in 0..4 /\ LatestVersion = 4
  BY Requirements DEF TypeInv, Database
<1> DEFINE more == IF disk.version = 0 THEN {"history"} ELSE {}
<1>2. Initialized.pieces = disk.pieces \cup Missing \cup more
  BY <1>1 DEF Initialized, Database
<1>3. more \cap Requires[1] = {}
  BY Requirements
<1> HIDE DEF more
<1>4. Requires[1] \subseteq disk.pieces \cup Missing
  BY <1>2, <1>3 DEF InstalledIn
<1>5. ASSUME NEW v \in 1..disk.version PROVE Foundation[v] \in disk.pieces \cap Requires[1]
  <2>1. v \in 1..4
    BY <1>1
  <2>2. Foundation[v] \in Requires[1]
    BY <2>1, FoundationComplete
  <2>3. Foundation[v] \notin Missing
    <3>1. SUFFICES ASSUME NEW u \in disk.version + 1 .. 4, Foundation[u] = Foundation[v] PROVE FALSE
      BY <1>1 DEF Missing
    <3>2. u \in 1..4 /\ u # v
      BY <1>1
    <3> QED BY <2>1, <3>1, <3>2, FoundationInjective
  <2> QED BY <1>4, <2>2, <2>3
<1>6. ASSUME NEW x \in disk.pieces \cap Requires[1] PROVE x \in {Foundation[v] : v \in 1..disk.version}
  <2>1. PICK v \in 1..4 : x = Foundation[v]
    BY FoundationComplete
  <2>2. x \notin Missing
    BY DEF Initializable
  <2>3. v \notin disk.version + 1 .. 4
    BY <1>1, <2>1, <2>2 DEF Missing
  <2>4. v \in 1..disk.version
    BY <1>1, <2>3
  <2> QED BY <2>1, <2>4
<1> QED BY <1>5, <1>6

\* Foreign tables stay.
LEMMA ForeignStep ==
    ASSUME TypeInv, ForeignTables, NEW p \in Processes, Start(p) \/ Dies(p)
    PROVE  ForeignTables'
<1>1. /\ job[p].pc \in {"down", "opened", "reading", "inspecting", "applying", "refused", "pending"}
      /\ job[p].pc \in {"down", "opened", "reading", "inspecting", "applying"} => job[p].step = 1
      /\ job[p].pc = "inspecting" => job[p].seen = {}
      /\ job[p] \in Job /\ job \in [Processes -> Job] /\ disk \in Database
      /\ disk.version \in 0..4 /\ LatestVersion = 4 /\ Recorded = {}
      /\ disk.pieces \cap Requires[1] # {Foundation[v] : v \in 1..disk.version}
  BY Requirements DEF ForeignTables, TypeInv, Database
<1>2. ~Installed(1)
  <2>1. SUFFICES ASSUME Installed(1) PROVE FALSE
    OBVIOUS
  <2>2. disk.version = 4 /\ Requires[1] \subseteq disk.pieces
    BY <1>1, <2>1 DEF Installed, InstalledIn
  <2> QED BY <1>1, <2>2, FoundationComplete
<1>3. ~(Initializable /\ InstalledIn(1, Initialized))
  BY <1>1, FoundationFits DEF TypeInv
<1>4. 1 \in Migrated /\ Migrated # {} /\ Consistent({})
  BY Requirements DEF Consistent
<1> DEFINE Fine(j) ==
      /\ j.pc \in {"down", "opened", "reading", "inspecting", "applying", "refused", "pending"}
      /\ j.pc \in {"down", "opened", "reading", "inspecting", "applying"} => j.step = 1
      /\ j.pc = "inspecting" => j.seen = {}
<1>5. /\ disk'.version = disk.version /\ disk'.pieces = disk.pieces /\ disk'.records = disk.records
      /\ Fine(job'[p])
  <2>1. CASE Open(p)
    <3>1. job'[p] = [job[p] EXCEPT !.pc = IF p \in Starters THEN "opened" ELSE "reading",
                                   !.foreignKeys = TRUE]
      BY <1>1, <2>1 DEF Open
    <3> QED BY <1>1, <2>1, <3>1 DEF Open, At, Job
  <2>2. CASE CreateLedger(p)
    <3>1. /\ [disk EXCEPT !.ledger = TRUE].version = disk.version
          /\ [disk EXCEPT !.ledger = TRUE].pieces = disk.pieces
          /\ [disk EXCEPT !.ledger = TRUE].records = disk.records
      BY <1>1 DEF Database
    <3> QED BY <1>1, <2>2, <3>1, Went DEF CreateLedger, Refuse, At
  <2>3. CASE ReadLedger(p)
    <3>0. ~(disk.version > LatestVersion) /\ (IF disk.ledger THEN Recorded ELSE {}) = {}
      BY <1>1
    <3>1. job' = [job EXCEPT ![p].pc = "inspecting",
                             ![p].seen = IF disk.ledger THEN Recorded ELSE {}]
      BY <2>3, <3>0 DEF ReadLedger
    <3>2. job'[p] = [job[p] EXCEPT !.pc = "inspecting", !.seen = {}]
      BY <1>1, <3>0, <3>1
    <3> QED BY <1>1, <2>3, <3>2 DEF ReadLedger, At, Job
  <2>4. CASE Plan(p)
    <3>1. Goto(p, "applying") /\ UNCHANGED disk /\ job[p].step = 1
      BY <1>1, <1>2, <2>4 DEF Plan, At
    <3> QED BY <3>1, Went
  <2>5. CASE Conclude(p)
    <3>1. (Goto(p, "refused") \/ Goto(p, "pending")) /\ UNCHANGED disk
      BY <1>1, <1>4, <2>5 DEF Conclude, Concluding, At
    <3> QED BY <3>1, Went
  <2>6. CASE Mistrust(p)
    BY <1>1, <2>6, Went DEF Mistrust, Refuse
  <2>7. CASE ApplyInTransaction(p)
    <3>1. job[p].step = 1
      BY <1>1, <2>7 DEF ApplyInTransaction, At
    <3>2. Settle(p, 1, "applied", Initialized, Initializable /\ InstalledIn(1, Initialized)
                                               /\ NoViolation(Initialized))
      BY <1>2, <2>7, <3>1 DEF ApplyInTransaction, Applied
    <3>3. Refuse(p)
      BY <1>1, <1>3, <1>4, <3>2 DEF Settle, Raced
    <3> QED BY <3>3, Went DEF Refuse
  <2>8. CASE Dies(p) \/ CheckAgain(p)
    BY <1>1, <2>8 DEF Dies, CheckAgain, Down
  <2> QED
    BY <1>1, <2>1, <2>2, <2>3, <2>4, <2>5, <2>6, <2>7, <2>8
    DEF Start, Adopt, Look, Rebuild, AddVersions, AddKeys, Add, Verify, Record, At
<1>6. \A q \in Processes : q # p => job'[q] = job[q]
  BY Alone
<1>7. Recorded' = {}
  BY <1>1, <1>5 DEF Recorded
<1>8. \A q \in Processes : Fine(job'[q])
  BY <1>5, <1>6 DEF ForeignTables
<1> QED BY <1>1, <1>5, <1>7, <1>8 DEF ForeignTables

\* Findings that cite nothing stay.
LEMMA DanglingStep ==
    ASSUME TypeInv, DanglingFindings, NEW p \in Processes, Start(p) \/ Dies(p)
    PROVE  DanglingFindings'
<1>1. /\ job[p].pc \notin {"recording", "ready"} /\ ~NoViolation(disk)
      /\ job[p] \in Job /\ job \in [Processes -> Job] /\ disk \in Database
  BY DEF DanglingFindings, TypeInv
<1>2. ~NoViolation(disk')
  <2>1. disk'.rows = disk.rows /\ disk'.cited = disk.cited
    BY StartKeeps DEF Dies, Kept
  <2> QED BY <1>1, <2>1 DEF NoViolation
<1>s. SUFFICES job'[p].pc \notin {"recording", "ready"}
  <2>1. \A q \in Processes : q # p => job'[q] = job[q]
    BY Alone
  <2> QED BY <1>2, <2>1 DEF DanglingFindings
<1>3. ASSUME NEW pc, Goto(p, pc), pc \notin {"recording", "ready"}
      PROVE  job'[p].pc \notin {"recording", "ready"}
  BY <1>3, Went
<1>4. ASSUME Advance(p) PROVE job'[p].pc \notin {"recording", "ready"}
  <2>1. job'[p] = [job[p] EXCEPT !.pc = "reading", !.step = @ + 1]
    BY <1>1, <1>4 DEF Advance
  <2> QED BY <1>1, <2>1 DEF Job
<1>5. ASSUME NEW i, NEW kind, NEW d, NEW sound, Settle(p, i, kind, d, sound)
      PROVE  job'[p].pc \notin {"recording", "ready"}
  BY <1>3, <1>4, <1>5 DEF Settle, Refuse, Write
<1>6. CASE Open(p)
  <2>1. job'[p] = [job[p] EXCEPT !.pc = IF p \in Starters THEN "opened" ELSE "reading",
                                 !.foreignKeys = TRUE]
    BY <1>1, <1>6 DEF Open
  <2>2. job'[p].pc = IF p \in Starters THEN "opened" ELSE "reading"
    BY <1>1, <2>1 DEF Job
  <2> QED BY <1>2, <2>2
<1>7. CASE ReadLedger(p)
  <2>1. CASE Goto(p, "refused")
    BY <1>3, <2>1
  <2>2. CASE job' = [job EXCEPT ![p].pc = "inspecting",
                                ![p].seen = IF disk.ledger THEN Recorded ELSE {}]
    <3>1. job'[p] = [job[p] EXCEPT !.pc = "inspecting",
                                   !.seen = IF disk.ledger THEN Recorded ELSE {}]
      BY <1>1, <2>2
    <3>2. job'[p].pc = "inspecting"
      BY <1>1, <3>1 DEF Job
    <3> QED BY <3>2
  <2> QED BY <1>7, <2>1, <2>2 DEF ReadLedger
<1>8. CASE Look(p)
  <2>1. job'[p] = [job[p] EXCEPT !.pc = IF "history" \in disk.pieces THEN "adding" ELSE "rebuilding",
                                 !.foreignKeys = "history" \in disk.pieces]
    BY <1>1, <1>8 DEF Look
  <2>2. job'[p].pc = IF "history" \in disk.pieces THEN "adding" ELSE "rebuilding"
    BY <1>1, <2>1 DEF Job
  <2> QED BY <2>2
<1>9. CASE Rebuild(p)
  <2> DEFINE ok == NoViolation([disk EXCEPT !.pieces = @ \cup {"history"}, !.rows = Copied(@)])
  <2>1. job'[p] = [job[p] EXCEPT !.pc = IF ok THEN "adding" ELSE "refused", !.foreignKeys = TRUE]
    BY <1>1, <1>9 DEF Rebuild
  <2> HIDE DEF ok
  <2>2. job'[p].pc = IF ok THEN "adding" ELSE "refused"
    BY <1>1, <2>1 DEF Job
  <2> QED BY <2>2
<1>10. CASE CheckAgain(p) \/ Dies(p)
  BY <1>1, <1>10 DEF CheckAgain, Dies, Down
<1>11. CASE CreateLedger(p) \/ Plan(p) \/ Mistrust(p)
  BY <1>3, <1>4, <1>11 DEF CreateLedger, Plan, Mistrust, Refuse
<1>12. CASE Conclude(p) \/ Verify(p)
  BY <1>1, <1>3, <1>12 DEF Conclude, Verify
<1>13. CASE Adopt(p) \/ ApplyInTransaction(p) \/ Record(p)
  BY <1>5, <1>13 DEF Adopt, ApplyInTransaction, Record
<1>14. CASE AddVersions(p) \/ AddKeys(p)
  BY <1>3, <1>14 DEF AddVersions, AddKeys, Add, Refuse
<1> QED BY <1>6, <1>7, <1>8, <1>9, <1>10, <1>11, <1>12, <1>13, <1>14 DEF Start

\* A database that no release left has one of the four kinds of damage.
LEMMA DamagedInit ==
    Init /\ ~disk.sound => DamagedInv
<1> SUFFICES ASSUME Init, ~disk.sound, ~FutureVersion, ~FalseLedger, ~ForeignTables
             PROVE  DanglingFindings
  BY DEF DamagedInv
<1>1. /\ disk \in Database /\ ~Undamaged(disk)
      /\ (\E i \in Migrated : disk.records[i] # "absent") => disk.ledger
      /\ \A p \in Processes : job[p] = Down
  BY InstallationAssumption DEF Init
<1>2. \A p \in Processes : job[p].pc = "down" /\ job[p].step = 1
  BY <1>1 DEF Down
<1>3. disk.version \in 0..4 /\ disk.version <= LatestVersion
  BY <1>1, <1>2, Requirements DEF FutureVersion, Database
<1>4. Consistent(Recorded)
  <2>1. SUFFICES ASSUME ~Consistent(Recorded) PROVE FALSE
    OBVIOUS
  <2>2. Recorded # {}
    BY <2>1 DEF Consistent
  <2>3. disk.ledger
    BY <1>1, <2>2 DEF Recorded
  <2> QED BY <1>2, <2>1, <2>3 DEF FalseLedger
<1>5. disk.pieces \cap Requires[1] = {Foundation[v] : v \in 1..disk.version}
  <2>1. CASE Recorded = {}
    BY <1>2, <1>3, <2>1 DEF ForeignTables
  <2>2. CASE Recorded # {}
    <3>1. PICK i \in Migrated : i \in Recorded
      BY <2>2 DEF Recorded
    <3>2. 1 \in 1..i
      BY <3>1 DEF Migrated
    <3>3. Installed(1)
      BY <1>4, <3>1, <3>2 DEF Consistent
    <3>4. disk.version = 4 /\ Requires[1] \subseteq disk.pieces
      BY <1>3, <3>3, Requirements DEF Installed, InstalledIn
    <3> QED BY <3>4, FoundationComplete
  <2> QED BY <2>1, <2>2
<1>6. ASSUME NEW i \in Migrated, disk.records[i] # "absent"
      PROVE  /\ \A j \in 1..i : disk.records[j] # "absent"
             /\ Requires[i] \subseteq disk.pieces
  <2>1. i \in Recorded
    BY <1>6 DEF Recorded
  <2>2. Installed(i) /\ 1..i \subseteq Recorded
    BY <1>4, <2>1 DEF Consistent
  <2> QED BY <2>2 DEF Installed, InstalledIn, Recorded
<1>7. ~NoViolation(disk)
  BY <1>1, <1>3, <1>5, <1>6 DEF Undamaged, NoViolation
<1> QED BY <1>2, <1>7 DEF DanglingFindings

\* Nobody serves on a damaged database.
LEMMA DamagedIdle ==
    ASSUME DamagedInv, NEW p \in Processes
    PROVE  ~At(p, "ready")
BY DEF DamagedInv, FutureVersion, FalseLedger, ForeignTables, DanglingFindings, At

-----------------------------------------------------------------------------
(* The theorems.                                                           *)

Inv ==
    /\ TypeInv
    /\ RowsInv
    /\ disk.sound => SoundInv
    /\ ~disk.sound => DamagedInv

\* The invariant holds at first.
LEMMA InitInv == Init => Inv
<1> SUFFICES ASSUME Init PROVE Inv
  OBVIOUS
<1>1. TypeInv
  BY InitType
<1>2. RowsInv
  BY InstallationAssumption DEF Init, RowsInv
<1>3. ASSUME disk.sound PROVE SoundInv
  <2>1. Undamaged(disk)
    BY <1>3, InstallationAssumption DEF Init
  <2>2. ASSUME NEW p \in Processes PROVE SoundJob(p)
    BY DEF Init, Down, SoundJob, Owning
  <2> QED BY <2>1, <2>2 DEF SoundInv
<1>4. ~disk.sound => DamagedInv
  BY DamagedInit
<1> QED BY <1>1, <1>2, <1>3, <1>4 DEF Inv

\* The requirements change by publication only, and the file stays what it was found to be.
LEMMA RowsStep ==
    ASSUME TypeInv, RowsInv, [Next]_vars
    PROVE  RowsInv' /\ disk'.sound = disk.sound
<1>0. disk \in Database
  BY DEF TypeInv
<1>1. ASSUME NEW p \in Processes, Start(p) PROVE RowsInv' /\ disk'.sound = disk.sound
  <2>1. disk'.rows = disk.rows /\ disk'.sound = disk.sound
    BY <1>1, StartKeeps DEF Kept
  <2>2. published' = published
    BY <1>1 DEF Start
  <2> QED BY <2>1, <2>2 DEF RowsInv
<1>2. ASSUME NEW p \in Processes, Publish(p) PROVE RowsInv' /\ disk'.sound = disk.sound
  <2>1. RowsInv'
    BY <1>2, PublishRows
  <2>2. disk'.sound = disk.sound
    BY <1>0, <1>2 DEF Publish, Database
  <2> QED BY <2>1, <2>2
<1>3. ASSUME NEW p \in Processes, Evaluate(p) PROVE RowsInv' /\ disk'.sound = disk.sound
  <2>1. PICK r \in disk.rows : disk' = [disk EXCEPT !.cited = @ \cup {r.id}]
    BY <1>3 DEF Evaluate
  <2>2. disk'.rows = disk.rows /\ disk'.sound = disk.sound
    BY <1>0, <2>1 DEF Database
  <2>3. published' = published
    BY <1>3 DEF Evaluate
  <2> QED BY <2>2, <2>3 DEF RowsInv
<1>4. ASSUME NEW p \in Processes, Dies(p) PROVE RowsInv' /\ disk'.sound = disk.sound
  BY <1>4 DEF Dies, RowsInv
<1>5. CASE UNCHANGED vars
  BY <1>5 DEF vars, RowsInv
<1> QED BY <1>1, <1>2, <1>3, <1>4, <1>5 DEF Next

\* Every step leaves a damaged file damaged.
LEMMA DamagedStep ==
    ASSUME TypeInv, DamagedInv, [Next]_vars
    PROVE  DamagedInv'
<1>1. ASSUME NEW p \in Processes, Start(p) \/ Dies(p) PROVE DamagedInv'
  BY <1>1, FutureStep, FalseStep, ForeignStep, DanglingStep DEF DamagedInv
<1>2. ASSUME NEW p \in Processes, Publish(p) \/ Evaluate(p) PROVE DamagedInv'
  BY <1>2, DamagedIdle DEF Publish, Evaluate
<1>3. CASE UNCHANGED vars
  <2>1. UNCHANGED <<disk, job>> /\ Recorded' = Recorded
    BY <1>3 DEF vars, Recorded
  <2>2. FutureVersion => FutureVersion'
    BY <2>1 DEF FutureVersion
  <2>3. FalseLedger => FalseLedger'
    BY <2>1 DEF FalseLedger, Consistent, Installed
  <2>4. ForeignTables => ForeignTables'
    BY <2>1 DEF ForeignTables
  <2>5. DanglingFindings => DanglingFindings'
    BY <2>1 DEF DanglingFindings
  <2> QED BY <2>2, <2>3, <2>4, <2>5 DEF DamagedInv
<1> QED BY <1>1, <1>2, <1>3 DEF Next

\* Every step keeps the invariant.
LEMMA InvStep == Inv /\ [Next]_vars => Inv'
<1> SUFFICES ASSUME Inv, [Next]_vars PROVE Inv'
  OBVIOUS
<1>1. TypeInv /\ RowsInv
  BY DEF Inv
<1>2. TypeInv'
  BY <1>1, NextType
<1>3. RowsInv' /\ disk'.sound = disk.sound
  BY <1>1, RowsStep
<1>4. disk.sound => SoundInv'
  BY <1>1, <1>2, SoundStep DEF Inv
<1>5. ~disk.sound => DamagedInv'
  BY <1>1, DamagedStep DEF Inv
<1> QED BY <1>2, <1>3, <1>4, <1>5 DEF Inv

\* The inductive invariant of files and starts.
LEMMA Invariance == Spec => []Inv
<1> QED BY InitInv, InvStep, PTL DEF Spec

\* The file and what every process is at keep their shape: a migration that
\* is under way is one of the three, and the steps outside a transaction are
\* those of the second.
THEOREM Typed == Spec => []TypeInv
<1>1. Inv => TypeInv
  BY DEF Inv
<1> QED BY Invariance, <1>1, PTL

\* What the ledger records is in the schema, and only a complete, recorded
\* schema is served, for any number of processes that start, die and start
\* again on any file (databaseMigrationsCurrent).
THEOREM LedgerTrue == Spec => []LedgerTellsTheTruth
<1>1. Inv => LedgerTellsTheTruth
  <2> SUFFICES ASSUME Inv PROVE LedgerTellsTheTruth
    OBVIOUS
  <2>1. ASSUME disk.sound, NEW i \in Recorded
        PROVE  1..i \subseteq Recorded /\ Requires[i] \subseteq disk.pieces
    <3>1. TypeInv /\ Undamaged(disk)
      BY <2>1 DEF Inv, SoundInv
    <3>2. Installed(i) /\ 1..i \subseteq Recorded
      BY <3>1, UndamagedIs DEF Consistent
    <3> QED BY <3>2 DEF Installed, InstalledIn
  <2>2. ASSUME NEW p \in Processes, At(p, "ready")
        PROVE  disk.sound /\ Recorded = Migrated /\ job[p].foreignKeys
    <3>1. disk.sound
      BY <2>2, DamagedIdle DEF Inv
    <3> QED BY <2>2, <3>1 DEF Inv, SoundInv, SoundJob, At
  <2> QED BY <2>1, <2>2 DEF LedgerTellsTheTruth
<1> QED BY Invariance, <1>1, PTL

\* No requirement that was published is lost to a rebuild of its table, and
\* none a finding cites (REQUIREMENT_HISTORY_MIGRATION_SQL).
THEOREM RequirementsKept == Spec => []RequirementsSurvive
<1>1. Inv => RequirementsSurvive
  BY DEF Inv, RowsInv, SoundInv, Undamaged, RequirementsSurvive
<1> QED BY Invariance, <1>1, PTL

\* However many processes start together on a sound file, none of them
\* refuses it for what another one is doing to it.
THEOREM NeverRefused == Spec => []SoundIsNeverRefused
<1>1. Inv => SoundIsNeverRefused
  BY DEF Inv, SoundInv, SoundJob, SoundIsNeverRefused, At
<1> QED BY Invariance, <1>1, PTL
=============================================================================
