-------------------------- MODULE MachineApiProofs --------------------------
(***************************************************************************)
(* Proofs about MachineApi, for any number of processes, requests, calls   *)
(* and keys, any scenarios, and any limits, capacity and times.            *)
(***************************************************************************)
EXTENDS MachineApi, FiniteSetTheorems, TLAPS

-----------------------------------------------------------------------------
(* Types.                                                                  *)

Vendor == [edits : SUBSET Calls, active : BOOLEAN, updatedAt : Nat, latest : Nat]
Row    == [id : Nat, call : Calls, op : Ops, at : Nat, file : Nat, open : BOOLEAN]
Answer == [call : Calls, receipt : Nat, expires : Nat]
Job    == [pc : Phases, call : Calls \cup {None}, at : Nat, file : Nat,
           match : Vendor \cup {None}, found : SUBSET Nat,
           slot : BOOLEAN, closed : BOOLEAN]

\* What a handler holds at each point: only an upload has a slot, which it
\* keeps while its form is parsed and gives back when its connection closes.
JobFits(j) ==
    /\ j.pc # "idle" => j.call \in Calls
    /\ j.pc \in {"idle", "looked"} => ~j.slot /\ ~j.closed
    /\ j.pc = "looked" => OpOf[j.call] # "submit"
    /\ j.pc \notin {"idle", "looked"} => OpOf[j.call] = "submit"
    /\ j.pc = "parsing" => j.slot
    /\ j.closed => ~j.slot
    /\ j.pc \in {"stored", "removing"} => j.file # 0

TypeInv ==
    /\ now \in Nat /\ faults \in Nat
    /\ vendor \in Vendor
    /\ tag \in [Patches -> Vendor \cup {None}]
    /\ row \in SUBSET Row /\ IsFiniteSet(row)
    /\ answer \in [Keys -> Answer \cup {None}]
    /\ active \in [Processes -> Int]
    /\ files \in SUBSET (Nat \ {0}) /\ IsFiniteSet(files)
    /\ job \in [Handlers -> Job]
    /\ \A h \in Handlers : JobFits(job[h])
    /\ serves \in [Handlers -> SUBSET Calls]
    /\ ever \in [Calls -> SUBSET Nat]
    /\ told \in [Calls -> SUBSET Nat]

\* An idle handler fits.
LEMMA NoJobType == NoJob \in Job /\ JobFits(NoJob) /\ NoJob.pc = "idle" /\ ~NoJob.slot
BY DEF NoJob, Job, JobFits, Phases

\* A handler goes on with a job of its kind.
LEMMA Entering ==
    ASSUME job \in [Handlers -> Job], \A g \in Handlers : JobFits(job[g]),
           NEW h \in Handlers, NEW j \in Job, JobFits(j), Enter(h, j)
    PROVE  job' \in [Handlers -> Job] /\ \A g \in Handlers : JobFits(job'[g])
BY DEF Enter

\* It replies, or it ends where nobody is there to answer.
LEMMA Replying ==
    ASSUME job \in [Handlers -> Job], \A g \in Handlers : JobFits(job[g]),
           NEW h \in Handlers, job[h].pc \notin {"idle", "looked"}, Reply(h)
    PROVE  job' \in [Handlers -> Job] /\ \A g \in Handlers : JobFits(job'[g])
<1>1. CASE job[h].closed
  BY <1>1, NoJobType, Entering DEF Reply, Leave
<1>2. CASE ~job[h].closed
  <2> DEFINE j == [job[h] EXCEPT !.pc = "replied"]
  <2>1. j \in Job /\ JobFits(j)
    BY DEF Job, JobFits, Phases
  <2> QED BY <1>2, <2>1, Entering DEF Reply
<1> QED BY <1>1, <1>2

\* Dropping expired responses leaves responses.
LEMMA PurgedType ==
    ASSUME answer \in [Keys -> Answer \cup {None}]
    PROVE  Purged \in [Keys -> Answer \cup {None}]
BY DEF Purged

\* Storing one, with its receipt.
LEMMA StoredType ==
    ASSUME TypeInv, NEW c \in Calls, NEW n \in Nat, Stored(c, n)
    PROVE  answer' \in [Keys -> Answer \cup {None}] /\ ever' \in [Calls -> SUBSET Nat]
<1>1. KeyOf[c] \in Keys /\ Ttl \in Nat
  BY CallAssumption, NumberAssumption
<1>2. [call |-> c, receipt |-> n, expires |-> now + Ttl] \in Answer
  BY <1>1 DEF Answer, TypeInv
<1> QED BY <1>1, <1>2, PurgedType DEF TypeInv, Stored

\* The receipts told are numbers.
LEMMA ToldType ==
    ASSUME TypeInv, NEW c \in Calls, NEW receipts \in SUBSET Nat, Tell(c, receipts)
    PROVE  told' \in [Calls -> SUBSET Nat]
BY DEF TypeInv, Tell

\* What is replayed is a number.
LEMMA ReplayedType ==
    ASSUME TypeInv, NEW c \in Calls, Replays(c)
    PROVE  answer[KeyOf[c]] \in Answer /\ answer[KeyOf[c]].receipt \in Nat
<1>1. KeyOf[c] \in Keys
  BY CallAssumption
<1> QED BY <1>1 DEF TypeInv, Replays, Live, Answer

\* Rows have numbers, and a new row is one.
LEMMA NewRowType ==
    ASSUME TypeInv, NEW c \in Calls, NEW at \in Nat, NEW file \in Nat
    PROVE  /\ NextId \in Nat
           /\ NewRow(c, at, file) \in Row
           /\ row \cup {NewRow(c, at, file)} \in SUBSET Row
           /\ IsFiniteSet(row \cup {NewRow(c, at, file)})
<1>1. NextId \in Nat
  BY FS_CardinalityType DEF TypeInv, NextId
<1>2. OpOf[c] \in Ops
  BY CallAssumption
<1>3. NewRow(c, at, file) \in Row
  BY <1>1, <1>2 DEF NewRow, Row
<1> QED BY <1>1, <1>3, FS_AddElement DEF TypeInv

\* The image of a finite set has no more elements.
LEMMA ImageSmaller ==
    ASSUME NEW S, IsFiniteSet(S), NEW f, f = [x \in S |-> f[x]]
    PROVE  /\ IsFiniteSet({f[x] : x \in S})
           /\ Cardinality({f[x] : x \in S}) <= Cardinality(S)
<1> DEFINE T == {f[x] : x \in S}
<1>1. f \in Surjection(S, T)
  BY DEF Surjection
<1> QED BY <1>1, FS_Surjection

\* Closing rows leaves as many at most, each with all but its state.
LEMMA ClosedType ==
    ASSUME NEW rs \in SUBSET Row, IsFiniteSet(rs)
    PROVE  Closed(rs) \in SUBSET Row /\ IsFiniteSet(Closed(rs))
<1> DEFINE f == [r \in rs |-> [r EXCEPT !.open = FALSE]]
<1>1. \A r \in Row : [r EXCEPT !.open = FALSE] \in Row
  BY DEF Row
<1>2. f = [r \in rs |-> f[r]] /\ Closed(rs) = {f[r] : r \in rs}
  BY DEF Closed
<1> HIDE DEF f
<1>3. IsFiniteSet({f[r] : r \in rs})
  BY <1>2, ImageSmaller
<1> QED BY <1>1, <1>2, <1>3 DEF Closed

\* The first step of a JSON request: an answer, a refusal or a look at the key.
LEMMA ArriveType ==
    ASSUME TypeInv, NEW h \in Handlers, NEW c \in Calls, Arrive(h, c)
    PROVE  TypeInv'
<1>1. answer' \in [Keys -> Answer \cup {None}]
  BY PurgedType DEF Arrive, TypeInv
<1>2. told' \in [Calls -> SUBSET Nat]
  BY ReplayedType, ToldType DEF Arrive
<1>3. job' \in [Handlers -> Job] /\ \A g \in Handlers : JobFits(job'[g])
  <2>1. CASE Unknown(c) /\ Precheck(c)
    <3> DEFINE j == [NoJob EXCEPT !.pc = "looked", !.call = c,
                                  !.at = IF OpOf[c] = "ask" THEN now ELSE 0,
                                  !.match = IF c \in Patches THEN tag[c] ELSE None]
    <3>1. OpOf[c] # "submit" /\ Enter(h, j)
      BY <2>1 DEF Arrive
    <3>2. (IF c \in Patches THEN tag[c] ELSE None) \in Vendor \cup {None}
      BY DEF TypeInv
    <3>3. j \in Job /\ JobFits(j)
      BY <3>1, <3>2, NoJobType DEF Job, JobFits, Phases, NoJob, TypeInv
    <3> QED BY <3>1, <3>3, Entering DEF TypeInv
  <2>2. CASE ~(Unknown(c) /\ Precheck(c))
    BY <2>2 DEF Arrive, TypeInv
  <2> QED BY <2>1, <2>2
<1> QED BY <1>1, <1>2, <1>3 DEF TypeInv, Arrive

\* The transaction of a change.
LEMMA CommitType ==
    ASSUME TypeInv, NEW h \in Handlers, NEW c \in Calls, NEW n \in Nat, Commit(h, c, n),
           vendor' \in Vendor, row' \in SUBSET Row, IsFiniteSet(row')
    PROVE  TypeInv'
<1>1. answer' \in [Keys -> Answer \cup {None}] /\ ever' \in [Calls -> SUBSET Nat]
  BY StoredType DEF Commit
<1>2. told' \in [Calls -> SUBSET Nat]
  BY ToldType DEF Commit
<1>3. job' \in [Handlers -> Job] /\ \A g \in Handlers : JobFits(job'[g])
  BY NoJobType, Entering DEF Commit, Leave, TypeInv
<1> QED BY <1>1, <1>2, <1>3 DEF TypeInv, Commit

\* A handler that has looked has a call that is no upload.
LEMMA LookedCall ==
    ASSUME TypeInv, NEW h \in Handlers, job[h].pc = "looked"
    PROVE  /\ job[h].call \in Calls /\ OpOf[job[h].call] # "submit"
           /\ job[h].at \in Nat /\ job[h].match \in Vendor \cup {None}
           /\ ~job[h].slot
BY DEF TypeInv, JobFits, Job

\* One past that point has an upload.
LEMMA UploadCall ==
    ASSUME TypeInv, NEW h \in Handlers, job[h].pc \notin {"idle", "looked"}
    PROVE  /\ job[h] \in Job /\ JobFits(job[h])
           /\ job[h].call \in Calls /\ OpOf[job[h].call] = "submit"
BY DEF TypeInv, JobFits

\* The edit a client wants is a vendor.
LEMMA EditedType ==
    ASSUME TypeInv, NEW c \in Calls, NEW read \in Vendor
    PROVE  Edited(c, read) \in Vendor /\ Edited(c, read).edits = read.edits \cup {c}
<1>1. (vendor.active /\ OpOf[c] # "deactivate") \in BOOLEAN
  OBVIOUS
<1>2. Edited(c, read) = [vendor EXCEPT !.edits = read.edits \cup {c}, !.updatedAt = now,
                                      !.active = (vendor.active /\ OpOf[c] # "deactivate")]
  BY DEF Edited
<1>3. read.edits \cup {c} \in SUBSET Calls
  BY DEF Vendor
<1> QED BY <1>1, <1>2, <1>3 DEF Vendor, TypeInv

\* The four changes of JSON requests.
LEMMA ChangeType ==
    ASSUME TypeInv, NEW h \in Handlers,
           CreateVendor(h) \/ PatchVendor(h) \/ AskCertificate(h) \/ CancelRequest(h)
    PROVE  TypeInv'
<1> DEFINE c == job[h].call
<1>0. job[h].pc = "looked"
  BY DEF CreateVendor, PatchVendor, AskCertificate, CancelRequest, Looked, Commit
<1>1. c \in Calls /\ job[h].at \in Nat /\ job[h].match \in Vendor \cup {None}
  BY <1>0, LookedCall
<1>2. CASE CreateVendor(h)
  BY <1>1, <1>2, NewRowType, CommitType DEF CreateVendor, TypeInv
<1>3. CASE PatchVendor(h)
  <2>1. job[h].match = vendor
    BY <1>3 DEF PatchVendor, Matches
  <2>2. vendor' \in Vendor
    BY <1>1, <1>3, <2>1, EditedType DEF PatchVendor, TypeInv
  <2>3. row' \in SUBSET Row /\ IsFiniteSet(row')
    BY <1>3, ClosedType DEF PatchVendor, TypeInv
  <2> QED BY <1>1, <1>3, <2>2, <2>3, CommitType DEF PatchVendor, TypeInv
<1>4. CASE AskCertificate(h)
  BY <1>1, <1>4, NewRowType, CommitType DEF AskCertificate, TypeInv
<1>5. CASE CancelRequest(h)
  <2>1. PICK r \in row : Commit(h, c, r.id) /\ row' = (row \ {r}) \cup Closed({r})
    BY <1>5 DEF CancelRequest
  <2>2. r.id \in Nat /\ r \in Row
    BY <2>1 DEF TypeInv, Row
  <2>3. Closed({r}) \in SUBSET Row /\ IsFiniteSet(Closed({r}))
    BY <2>2, FS_Singleton, ClosedType
  <2>4. IsFiniteSet(row \ {r})
    BY FS_Difference DEF TypeInv
  <2>5. row' \in SUBSET Row /\ IsFiniteSet(row')
    BY <2>1, <2>3, <2>4, FS_Union DEF TypeInv
  <2> QED BY <1>1, <1>5, <2>1, <2>2, <2>5, CommitType DEF CancelRequest, TypeInv
<1> QED BY <1>2, <1>3, <1>4, <1>5

\* A slot taken or given back leaves counters.
LEMMA SlotType ==
    ASSUME TypeInv, NEW h \in Handlers, NEW n \in Int
    PROVE  /\ HostOf[h] \in Processes /\ active[HostOf[h]] \in Int
           /\ Slot(h, n) => active' \in [Processes -> Int]
           /\ Give(h) => active' \in [Processes -> Int]
<1>1. HostOf[h] \in Processes
  BY CallAssumption
<1> QED BY <1>1 DEF TypeInv, Slot, Give

\* Files have numbers, and a new file has one that no file has.
LEMMA NewFileIsNew ==
    ASSUME TypeInv
    PROVE  NewFile \in Nat \ {0} /\ NewFile \notin files
<1> DEFINE n == Cardinality(files)
<1>1. n \in Nat
  BY FS_CardinalityType DEF TypeInv
<1>2. IsFiniteSet(1..(n + 1)) /\ Cardinality(1..(n + 1)) = n + 1
  BY <1>1, FS_Interval
<1>3. ~(1..(n + 1) \subseteq files)
  <2>1. ASSUME 1..(n + 1) \subseteq files PROVE FALSE
    <3>1. Cardinality(1..(n + 1)) <= Cardinality(files)
      BY <2>1, FS_Subset DEF TypeInv
    <3> QED BY <3>1, <1>1, <1>2
  <2> QED BY <2>1
<1>4. NewFile \in 1..(n + 1) /\ NewFile \notin files
  BY <1>3 DEF NewFile
<1> QED BY <1>1, <1>4

\* An upload before its file is stored.
LEMMA ParsingType ==
    ASSUME TypeInv, NEW h \in Handlers,
           (\E c \in Calls : Admit(h, c)) \/ Parsed(h) \/ Unacceptable(h)
             \/ PdfWritten(h) \/ PdfHalfWritten(h)
    PROVE  TypeInv'
<1>1. ASSUME NEW c \in Calls, Admit(h, c) PROVE TypeInv'
  <2> DEFINE j == [NoJob EXCEPT !.pc = "parsing", !.call = c, !.slot = TRUE]
  <2>1. j \in Job /\ JobFits(j)
    BY <1>1, NoJobType DEF Job, JobFits, NoJob, Phases, Admit
  <2>2. job' \in [Handlers -> Job] /\ \A g \in Handlers : JobFits(job'[g])
    BY <1>1, <2>1, Entering DEF Admit, TypeInv
  <2>3. active' \in [Processes -> Int]
    <3>1. active[HostOf[h]] + 1 \in Int
      BY SlotType
    <3> QED BY <1>1, <3>1, SlotType DEF Admit
  <2> QED BY <1>1, <2>2, <2>3 DEF Admit, stores, history, TypeInv
<1>2. CASE Parsed(h)
  <2>0. job[h] \in Job /\ JobFits(job[h]) /\ job[h].call \in Calls /\ OpOf[job[h].call] = "submit"
    BY <1>2, UploadCall DEF Parsed
  <2>1. answer' \in [Keys -> Answer \cup {None}]
    BY <1>2, PurgedType DEF Parsed, TypeInv
  <2>2. told' \in [Calls -> SUBSET Nat]
    BY <1>2, <2>0, ReplayedType, ToldType DEF Parsed
  <2>3. job' \in [Handlers -> Job] /\ \A g \in Handlers : JobFits(job'[g])
    <3> DEFINE j == [job[h] EXCEPT !.pc = "writing"]
    <3>1. j \in Job /\ JobFits(j)
      BY <2>0, <1>2 DEF Job, JobFits, Phases, Parsed
    <3> QED BY <1>2, <3>1, Entering, Replying DEF Parsed, TypeInv
  <2> QED BY <1>2, <2>1, <2>2, <2>3 DEF Parsed, TypeInv
<1>3. CASE Unacceptable(h)
  <2>1. job' \in [Handlers -> Job] /\ \A g \in Handlers : JobFits(job'[g])
    BY <1>3, Replying DEF Unacceptable, TypeInv
  <2> QED BY <1>3, <2>1 DEF Unacceptable, stores, history, TypeInv
<1>4. ASSUME PdfWritten(h) \/ PdfHalfWritten(h) PROVE files' \in SUBSET (Nat \ {0}) /\ IsFiniteSet(files')
  BY <1>4, NewFileIsNew, FS_AddElement DEF PdfWritten, PdfHalfWritten, TypeInv
<1>5. CASE PdfWritten(h)
  <2> DEFINE j == [job[h] EXCEPT !.pc = "stored", !.file = NewFile]
  <2>1. j \in Job /\ JobFits(j)
    BY <1>5, UploadCall, NewFileIsNew DEF PdfWritten, Job, JobFits, Phases
  <2>2. job' \in [Handlers -> Job] /\ \A g \in Handlers : JobFits(job'[g])
    BY <1>5, <2>1, Entering DEF PdfWritten, TypeInv
  <2> QED BY <1>4, <1>5, <2>2 DEF PdfWritten, history, TypeInv
<1>6. CASE PdfHalfWritten(h)
  <2>1. job' \in [Handlers -> Job] /\ \A g \in Handlers : JobFits(job'[g])
    BY <1>6, Replying DEF PdfHalfWritten, TypeInv
  <2> QED BY <1>4, <1>6, <2>1 DEF PdfHalfWritten, history, TypeInv
<1> QED BY <1>1, <1>2, <1>3, <1>5, <1>6

\* An upload from then on.
LEMMA SubmittingType ==
    ASSUME TypeInv, NEW h \in Handlers,
           \/ Submit(h) \/ SubmitRolledBack(h) \/ Removed(h) \/ RemoveFails(h)
           \/ Finish(h) \/ Close(h)
    PROVE  TypeInv'
<1> DEFINE c == job[h].call
<1>0. job[h] \in Job /\ JobFits(job[h]) /\ c \in Calls /\ OpOf[c] = "submit"
  BY UploadCall DEF Submit, SubmitRolledBack, Removed, RemoveFails, Finish, Close
<1>1. CASE Submit(h)
  <2>1. NextId \in Nat /\ row' \in SUBSET Row /\ IsFiniteSet(row')
    BY <1>0, <1>1, NewRowType DEF Submit, Job
  <2>2. vendor' \in Vendor
    BY <1>1, <2>1 DEF Submit, Vendor, TypeInv
  <2>3. answer' \in [Keys -> Answer \cup {None}] /\ ever' \in [Calls -> SUBSET Nat]
    BY <1>0, <1>1, <2>1, StoredType DEF Submit
  <2>4. told' \in [Calls -> SUBSET Nat]
    BY <1>0, <1>1, <2>1, ToldType DEF Submit
  <2>5. job' \in [Handlers -> Job] /\ \A g \in Handlers : JobFits(job'[g])
    BY <1>1, Replying DEF Submit, TypeInv
  <2> QED BY <1>1, <2>1, <2>2, <2>3, <2>4, <2>5 DEF Submit, TypeInv
<1>2. CASE SubmitRolledBack(h)
  <2> DEFINE found == IF Replays(c) THEN {answer[KeyOf[c]].receipt} ELSE {}
             j == [job[h] EXCEPT !.pc = "removing", !.found = found]
  <2>1. found \in SUBSET Nat
    BY <1>0, ReplayedType
  <2>2. j \in Job /\ JobFits(j)
    BY <1>0, <1>2, <2>1 DEF SubmitRolledBack, Job, JobFits, Phases
  <2>3. job' \in [Handlers -> Job] /\ \A g \in Handlers : JobFits(job'[g])
    BY <1>2, <2>2, Entering DEF SubmitRolledBack, TypeInv
  <2> QED BY <1>2, <2>3 DEF SubmitRolledBack, stores, history, TypeInv
<1>3. CASE Removed(h)
  <2>1. files' \in SUBSET (Nat \ {0}) /\ IsFiniteSet(files')
    BY <1>3, FS_Difference DEF Removed, Discarded, TypeInv
  <2>2. told' \in [Calls -> SUBSET Nat]
    BY <1>0, <1>3, ToldType DEF Removed, Job
  <2>3. job' \in [Handlers -> Job] /\ \A g \in Handlers : JobFits(job'[g])
    BY <1>3, Replying DEF Removed, TypeInv
  <2> QED BY <1>3, <2>1, <2>2, <2>3 DEF Removed, TypeInv
<1>4. CASE RemoveFails(h)
  <2>1. job' \in [Handlers -> Job] /\ \A g \in Handlers : JobFits(job'[g])
    BY <1>4, Replying DEF RemoveFails, TypeInv
  <2> QED BY <1>4, <2>1 DEF RemoveFails, stores, history, TypeInv
<1>5. CASE Finish(h)
  <2> DEFINE j == [job[h] EXCEPT !.slot = FALSE]
  <2>1. j \in Job /\ JobFits(j)
    BY <1>0, <1>5 DEF Finish, Job, JobFits
  <2>2. job' \in [Handlers -> Job] /\ \A g \in Handlers : JobFits(job'[g])
    BY <1>5, <2>1, Entering DEF Finish, TypeInv
  <2> QED BY <1>5, <2>2, SlotType DEF Finish, stores, history, TypeInv
<1>6. CASE Close(h)
  <2> DEFINE j == [job[h] EXCEPT !.slot = FALSE, !.closed = TRUE]
  <2>1. job[h].pc # "parsing" => j \in Job /\ JobFits(j)
    BY <1>0, <1>6 DEF Close, Job, JobFits, Phases
  <2>2. job' \in [Handlers -> Job] /\ \A g \in Handlers : JobFits(job'[g])
    BY <1>6, <2>1, NoJobType, Entering DEF Close, Leave, TypeInv
  <2> QED BY <1>6, <2>2, SlotType DEF Close, stores, history, TypeInv
<1> QED BY <1>1, <1>2, <1>3, <1>4, <1>5, <1>6

\* Every step keeps the types.
LEMMA TypeStep == TypeInv /\ [Next]_vars => TypeInv'
<1> SUFFICES ASSUME TypeInv, [Next]_vars PROVE TypeInv'
  OBVIOUS
<1>1. ASSUME NEW h \in Handlers, Handle(h) PROVE TypeInv'
  <2>1. ASSUME NEW c \in serves[h], Arrive(h, c) PROVE TypeInv'
    BY <2>1, ArriveType DEF TypeInv
  <2>2. ASSUME NEW c \in serves[h], Admit(h, c) PROVE TypeInv'
    <3>1. c \in Calls
      BY DEF TypeInv
    <3> QED BY <2>2, <3>1, ParsingType
  <2>3. CASE CommitReplay(h)
    <3>1. job[h].call \in Calls
      BY <2>3, LookedCall DEF CommitReplay
    <3>2. told' \in [Calls -> SUBSET Nat] /\ answer' \in [Keys -> Answer \cup {None}]
      BY <2>3, <3>1, ReplayedType, ToldType, PurgedType DEF CommitReplay, TypeInv
    <3>3. job' \in [Handlers -> Job] /\ \A g \in Handlers : JobFits(job'[g])
      BY <2>3, NoJobType, Entering DEF CommitReplay, Leave, TypeInv
    <3> QED BY <2>3, <3>2, <3>3 DEF CommitReplay, TypeInv
  <2>4. CASE Refuse(h)
    <3>1. job' \in [Handlers -> Job] /\ \A g \in Handlers : JobFits(job'[g])
      BY <2>4, NoJobType, Entering DEF Refuse, Leave, TypeInv
    <3> QED BY <2>4, <3>1 DEF Refuse, stores, history, TypeInv
  <2> QED BY <1>1, <2>1, <2>2, <2>3, <2>4, ChangeType, ParsingType, SubmittingType DEF Handle
<1>2. ASSUME NEW c \in Patches, ReadVendor(c) PROVE TypeInv'
  BY <1>2 DEF ReadVendor, stores, history, TypeInv
<1>3. CASE StaffReactivate
  BY <1>3 DEF StaffReactivate, history, TypeInv, Vendor
<1>4. ASSUME NEW p \in Processes, Crash(p) PROVE TypeInv'
  <2>1. job' \in [Handlers -> Job] /\ \A g \in Handlers : JobFits(job'[g])
    BY <1>4, NoJobType DEF Crash, TypeInv
  <2> QED BY <1>4, <2>1 DEF Crash, stores, history, TypeInv
<1>5. CASE Tick
  BY <1>5 DEF Tick, stores, history, TypeInv
<1>6. CASE UNCHANGED vars
  BY <1>6 DEF vars, TypeInv
<1> QED BY <1>1, <1>2, <1>3, <1>4, <1>5, <1>6 DEF Next

\* At the start the store is empty and nobody is served.
LEMMA TypeInit == Init => TypeInv
<1> SUFFICES ASSUME Init PROVE TypeInv
  OBVIOUS
<1>1. vendor \in Vendor /\ tag \in [Patches -> Vendor \cup {None}]
  BY DEF Init, Vendor
<1>2. IsFiniteSet(row) /\ IsFiniteSet(files)
  BY FS_EmptySet DEF Init
<1>3. job \in [Handlers -> Job] /\ \A h \in Handlers : JobFits(job[h])
  BY NoJobType DEF Init
<1>4. serves \in [Handlers -> SUBSET Calls]
  BY CallAssumption DEF Init
<1> QED BY <1>1, <1>2, <1>3, <1>4 DEF Init, TypeInv

\* Rows, responses, slots, files and handlers have their types throughout.
THEOREM Typed == Spec => []TypeInv
BY TypeInit, TypeStep, PTL DEF Spec

-----------------------------------------------------------------------------
(* Idempotency keys.                                                       *)

\* A kept response, and one an upload is to be answered with, name changes
\* that were made for the call they are about.
AnswersMade ==
    /\ \A k \in Keys : answer[k] # None => answer[k].receipt \in ever[answer[k].call]
    /\ \A h \in Handlers : job[h].pc = "removing" => job[h].found \subseteq ever[job[h].call]

\* A step that changes nothing under a key, though it may drop what has expired.
Idles == answer' \in {answer, Purged} /\ ever' = ever /\ now' \in {now, now + 1}

\* A step that makes a change under a key without a response, and keeps one.
Makes(c, n) == Unknown(c) /\ Stored(c, n) /\ now' = now

\* A handler's transaction makes one change, or none.
LEMMA OneChangeAtMost ==
    TypeInv /\ [Next]_vars => Idles \/ \E c \in Calls, n \in Nat : Makes(c, n)
<1> SUFFICES ASSUME TypeInv, [Next]_vars, ~Idles PROVE \E c \in Calls, n \in Nat : Makes(c, n)
  OBVIOUS
<1>1. ASSUME NEW h \in Handlers, Handle(h) PROVE \E c \in Calls, n \in Nat : Makes(c, n)
  <2>1. NextId \in Nat /\ now \in Nat /\ \A r \in row : r.id \in Nat
    BY FS_CardinalityType DEF NextId, TypeInv, Row
  <2>2. \/ CreateVendor(h) \/ PatchVendor(h) \/ AskCertificate(h) \/ CancelRequest(h)
        \/ Submit(h)
    BY <1>1 DEF Handle, Idles, Arrive, Admit, CommitReplay, Refuse, Parsed, Unacceptable,
                PdfWritten, PdfHalfWritten, SubmitRolledBack, Removed, RemoveFails, Finish, Close,
                stores, history
  <2>3. job[h].call \in Calls
    BY <2>2, LookedCall, UploadCall
       DEF CreateVendor, PatchVendor, AskCertificate, CancelRequest, Submit, Looked, Commit
  <2> QED BY <2>1, <2>2, <2>3
      DEF CreateVendor, PatchVendor, AskCertificate, CancelRequest, Submit, Commit, Makes
<1>2. ASSUME ~\E h \in Handlers : Handle(h) PROVE FALSE
  BY <1>2 DEF Next, Idles, ReadVendor, StaffReactivate, Crash, Tick, vars, stores, history
<1> QED BY <1>1, <1>2

\* A caller is told of changes made for its own call.
LEMMA ToldTheTruth ==
    ASSUME TypeInv, AnswersMade, [Next]_vars, NEW c \in Calls
    PROVE  told[c] \subseteq told'[c] /\ told'[c] \subseteq told[c] \cup ever'[c]
<1>1. ASSUME NEW h \in Handlers, Handle(h)
      PROVE  told[c] \subseteq told'[c] /\ told'[c] \subseteq told[c] \cup ever'[c]
  <2>1. ASSUME NEW b \in Calls, NEW n \in Nat, Stored(b, n)
        PROVE  ever' = [ever EXCEPT ![b] = @ \cup {n}]
    BY <2>1 DEF Stored
  <2>2. ASSUME NEW b \in Calls, NEW receipts \in SUBSET Nat, Tell(b, receipts),
               receipts \subseteq ever'[b]
        PROVE  told[c] \subseteq told'[c] /\ told'[c] \subseteq told[c] \cup ever'[c]
    BY <2>2 DEF Tell, TypeInv
  <2>3. ASSUME NEW b \in Calls, Replays(b)
        PROVE  answer[KeyOf[b]].receipt \in ever[b] /\ answer[KeyOf[b]].receipt \in Nat
    <3>1. KeyOf[b] \in Keys
      BY CallAssumption
    <3> QED BY <2>3, <3>1, ReplayedType DEF AnswersMade, Replays, Live
  <2>4. ASSUME NEW b \in serves[h], Arrive(h, b)
        PROVE  told[c] \subseteq told'[c] /\ told'[c] \subseteq told[c] \cup ever'[c]
    <3>1. b \in Calls
      BY DEF TypeInv
    <3> QED BY <2>2, <2>3, <2>4, <3>1 DEF Arrive
  <2>5. CASE CommitReplay(h)
    BY <2>2, <2>3, <2>5, LookedCall DEF CommitReplay
  <2>6. CASE CreateVendor(h) \/ PatchVendor(h) \/ AskCertificate(h) \/ CancelRequest(h)
    <3>1. job[h].call \in Calls
      BY <2>6, LookedCall DEF CreateVendor, PatchVendor, AskCertificate, CancelRequest, Looked, Commit
    <3>0. NextId \in Nat /\ now \in Nat /\ \A r \in row : r.id \in Nat
      BY FS_CardinalityType DEF NextId, TypeInv, Row
    <3>2. PICK n \in Nat : Commit(h, job[h].call, n)
      BY <2>6, <3>0 DEF CreateVendor, PatchVendor, AskCertificate, CancelRequest
    <3>3. n \in ever'[job[h].call]
      BY <2>1, <3>1, <3>2 DEF Commit, TypeInv
    <3> QED BY <2>2, <3>1, <3>2, <3>3 DEF Commit
  <2>7. CASE Parsed(h)
    BY <2>2, <2>3, <2>7, UploadCall DEF Parsed
  <2>8. CASE Submit(h)
    <3>1. job[h].call \in Calls /\ NextId \in Nat
      BY <2>8, UploadCall, FS_CardinalityType DEF Submit, NextId, TypeInv
    <3>2. NextId \in ever'[job[h].call]
      BY <2>1, <2>8, <3>1 DEF Submit, TypeInv
    <3> QED BY <2>2, <2>8, <3>1, <3>2 DEF Submit
  <2>9. CASE Removed(h)
    <3>1. job[h].call \in Calls /\ job[h].found \in SUBSET Nat
      BY <2>9, UploadCall DEF Removed, Job
    <3> QED BY <2>2, <2>9, <3>1 DEF Removed, AnswersMade
  <2>10. CASE told' = told
    BY <2>10
  <2> QED BY <1>1, <2>4, <2>5, <2>6, <2>7, <2>8, <2>9, <2>10
      DEF Handle, Admit, Refuse, Unacceptable, PdfWritten, PdfHalfWritten, SubmitRolledBack,
          RemoveFails, Finish, Close, history
<1>2. CASE told' = told
  BY <1>2
<1> QED BY <1>1, <1>2
    DEF Next, ReadVendor, StaffReactivate, Crash, Tick, vars, history

\* What an upload is to be answered with was looked up in the responses kept.
LEMMA FoundStep ==
    ASSUME TypeInv, AnswersMade, [Next]_vars, NEW h \in Handlers, job'[h].pc = "removing"
    PROVE  job'[h].found \subseteq ever[job'[h].call]
<1>1. ASSUME NEW g \in Handlers, SubmitRolledBack(g)
      PROVE  job'[h].found \subseteq ever[job'[h].call]
  <2> DEFINE c == job[g].call
  <2>1. c \in Calls /\ KeyOf[c] \in Keys
    BY <1>1, UploadCall, CallAssumption DEF SubmitRolledBack
  <2>2. Replays(c) => answer[KeyOf[c]].receipt \in ever[c]
    BY <2>1 DEF AnswersMade, Replays, Live
  <2> QED BY <1>1, <2>2 DEF SubmitRolledBack, Enter, TypeInv, Job, AnswersMade
<1>2. CASE job'[h].pc = "removing" => job'[h] = job[h]
  BY <1>2 DEF AnswersMade
<1>3. ASSUME NEW g \in Handlers, Handle(g), ~SubmitRolledBack(g), job'[h] # job[h]
      PROVE  job'[h].pc # "removing" \/ (job'[h].found = job[h].found /\ job'[h].call = job[h].call
                                           /\ job[h].pc = "removing")
  <2>1. job[h] \in Job /\ job[g] \in Job
    BY DEF TypeInv
  <2>2. CASE Leave(g)
    BY <1>3, <2>2 DEF Leave, Enter, NoJob, TypeInv
  <2>3. CASE Reply(g)
    BY <1>3, <2>1, <2>2, <2>3 DEF Reply, Enter, TypeInv, Job
  <2>4. CASE Close(g)
    <3> DEFINE j == [job[g] EXCEPT !.slot = FALSE, !.closed = TRUE]
    <3>1. j.pc = job[g].pc /\ j.found = job[g].found /\ j.call = job[g].call
      BY <2>1 DEF Job
    <3>2. Leave(g) \/ Enter(g, j)
      BY <2>4 DEF Close
    <3> HIDE DEF j
    <3>3. CASE Enter(g, j)
      BY <1>3, <3>1, <3>3 DEF Enter, TypeInv
    <3> QED BY <2>2, <3>2, <3>3
  <2>5. ASSUME NEW c \in serves[g], Arrive(g, c) \/ Admit(g, c)
        PROVE  job'[h] = job[h] \/ job'[h].pc # "removing"
    BY <2>5 DEF Arrive, Admit, Enter, NoJob, TypeInv
  <2>6. CASE Parsed(g) \/ PdfWritten(g)
    <3>1. ASSUME NEW j, j.pc # "removing", Enter(g, j) PROVE job'[h].pc # "removing"
      BY <1>3, <3>1 DEF Enter, TypeInv
    <3>2. [job[g] EXCEPT !.pc = "writing"].pc # "removing"
          /\ [job[g] EXCEPT !.pc = "stored", !.file = NewFile].pc # "removing"
      BY <2>1 DEF Job
    <3> QED BY <2>3, <2>6, <3>1, <3>2 DEF Parsed, PdfWritten
  <2>7. CASE Finish(g)
    BY <1>3, <2>1, <2>7 DEF Finish, Enter, TypeInv, Job
  <2> QED
    BY <1>3, <2>2, <2>3, <2>4, <2>5, <2>6, <2>7
       DEF Handle, CommitReplay, Refuse, CreateVendor, PatchVendor, AskCertificate,
           CancelRequest, Unacceptable, PdfHalfWritten, Submit, Removed, RemoveFails, Commit
<1>4. ASSUME NEW p \in Processes, Crash(p) PROVE job'[h].pc = "removing" => job'[h] = job[h]
  BY <1>4 DEF Crash, NoJob
<1> QED BY <1>1, <1>2, <1>3, <1>4
    DEF Next, ReadVendor, StaffReactivate, Tick, vars, AnswersMade

\* So the responses stay true.
LEMMA AnswersStep == TypeInv /\ AnswersMade /\ [Next]_vars => AnswersMade'
<1> SUFFICES ASSUME TypeInv, AnswersMade, [Next]_vars PROVE AnswersMade'
  OBVIOUS
<1>1. \A c \in Calls : ever[c] \subseteq ever'[c]
  BY OneChangeAtMost DEF Idles, Makes, Stored, TypeInv
<1>2. TypeInv'
  BY TypeStep
<1>3. ASSUME NEW h \in Handlers, job'[h].pc = "removing"
      PROVE  job'[h].found \subseteq ever'[job'[h].call]
  <2>1. job'[h].call \in Calls
    BY <1>2, <1>3 DEF TypeInv, JobFits
  <2> QED BY <1>1, <1>3, <2>1, FoundStep
<1>4. ASSUME NEW k \in Keys, answer'[k] # None
      PROVE  answer'[k].receipt \in ever'[answer'[k].call]
  <2>1. ASSUME answer[k] # None
        PROVE  answer[k].call \in Calls /\ answer[k].receipt \in ever'[answer[k].call]
    BY <1>1, <2>1 DEF AnswersMade, TypeInv, Answer
  <2>2. CASE Idles
    BY <1>4, <2>1, <2>2 DEF Idles, Purged
  <2>3. ASSUME NEW c \in Calls, NEW n \in Nat, Makes(c, n)
        PROVE  answer'[k].receipt \in ever'[answer'[k].call]
    <3>1. CASE k = KeyOf[c]
      BY <2>3, <3>1, CallAssumption DEF Makes, Stored, Purged, TypeInv
    <3>2. CASE k # KeyOf[c]
      BY <1>4, <2>1, <2>3, <3>2 DEF Makes, Stored, Purged
    <3> QED BY <3>1, <3>2
  <2> QED BY <2>2, <2>3, OneChangeAtMost
<1> QED BY <1>3, <1>4 DEF AnswersMade

\* They are true throughout.
LEMMA AnswersAlways == Spec => [](TypeInv /\ AnswersMade)
<1>1. Init => AnswersMade
  BY DEF Init, AnswersMade, NoJob
<1> QED BY <1>1, TypeInit, TypeStep, AnswersStep, PTL DEF Spec

\* The change behind a key is made once while its response is kept, and the
\* answers are true: every step is one of IdempotencyContract.
THEOREM Refinement == Spec => ImplementsContract
<1>1. Init => Contract!Init
  BY DEF Init, Contract!Init
<1>2. TypeInv /\ AnswersMade /\ [Next]_vars => [Contract!Next]_(Contract!contractVars)
  <2> SUFFICES ASSUME TypeInv, AnswersMade, [Next]_vars PROVE Contract!Next
    OBVIOUS
  <2>1. TypeInv'
    BY TypeStep
  <2>2. DOMAIN answer' = Keys /\ DOMAIN told' = Calls
    BY <2>1 DEF TypeInv
  <2>3. Contract!Honest
    BY ToldTheTruth DEF Contract!Honest
  <2>4. \A k \in Keys : Contract!Live(k) <=> Live(k)
    BY DEF Contract!Live, Live
  <2>5. CASE Idles
    <3>1. \A k \in Keys : Contract!Kept(k)
      BY <2>4, <2>5 DEF Idles, Purged, Contract!Kept
    <3> QED BY <2>2, <2>3, <2>5, <3>1 DEF Idles, Contract!Quiet, Contract!Next
  <2>6. ASSUME NEW c \in Calls, NEW n \in Nat, Makes(c, n) PROVE Contract!Next
    <3>1. KeyOf[c] \in Keys /\ ~Contract!Live(KeyOf[c])
      BY <2>4, <2>6, CallAssumption DEF Makes, Unknown
    <3>2. /\ answer'[KeyOf[c]] = [call |-> c, receipt |-> n, expires |-> now + Ttl]
          /\ \A k \in Keys \ {KeyOf[c]} : Contract!Kept(k)
      BY <2>4, <2>6, <3>1 DEF Makes, Stored, Purged, Contract!Kept
    <3>3. ever' = [ever EXCEPT ![c] = @ \cup {n}] /\ n \in ever'[c] /\ now' = now
      BY <2>6 DEF Makes, Stored, TypeInv
    <3> QED BY <2>2, <2>3, <3>1, <3>2, <3>3 DEF Contract!Change, Contract!Next
  <2> QED BY <2>5, <2>6, OneChangeAtMost
<1> QED BY <1>1, <1>2, AnswersAlways, PTL DEF Spec, ImplementsContract, Contract!Spec

-----------------------------------------------------------------------------
(* Conditional updates.                                                    *)

\* Nobody holds a tag of a vendor that has its own edit.
TagsFresh ==
    /\ \A c \in Patches : tag[c] # None => c \notin tag[c].edits
    /\ \A h \in Handlers : LET c == job[h].call IN
         job[h].pc = "looked" /\ c \in Patches => job[h].match # None /\ c \notin job[h].match.edits

EditsInv == TagsFresh /\ EveryEditOnceAndKept

\* The job of a handler that has looked is the one it had, or has its client's tag.
LEMMA LookedStep ==
    ASSUME TypeInv, [Next]_vars, NEW h \in Handlers, job'[h].pc = "looked"
    PROVE  \/ job'[h] = job[h]
           \/ \E c \in Calls : /\ job'[h].call = c
                               /\ c \in Patches => tag[c] # None /\ job'[h].match = tag[c]
<1>1. ASSUME NEW g \in Handlers, NEW j, j.pc # "looked", Enter(g, j) PROVE job'[h] = job[h]
  BY <1>1 DEF Enter, TypeInv
<1>2. ASSUME NEW g \in Handlers, Handle(g), \A c \in serves[g] : ~Arrive(g, c)
      PROVE  job'[h] = job[h]
  <2>1. job[g] \in Job
    BY DEF TypeInv
  <2>2. Leave(g) => job'[h] = job[h]
    BY <1>1 DEF Leave, NoJob
  <2>3. Reply(g) => job'[h] = job[h]
    BY <1>1, <2>1, <2>2 DEF Reply, Job
  <2>4. ASSUME NEW c \in serves[g], Admit(g, c) PROVE job'[h] = job[h]
    BY <1>1, <2>4 DEF Admit, NoJob
  <2>5. CASE Parsed(g) \/ PdfWritten(g) \/ SubmitRolledBack(g)
    BY <1>1, <2>1, <2>3, <2>5 DEF Parsed, PdfWritten, SubmitRolledBack, Job
  <2>6. CASE Finish(g) \/ Close(g)
    BY <1>1, <2>1, <2>2, <2>6 DEF Finish, Close, Job
  <2> QED
    BY <1>2, <2>2, <2>3, <2>4, <2>5, <2>6
       DEF Handle, CommitReplay, Refuse, CreateVendor, PatchVendor, AskCertificate,
           CancelRequest, Unacceptable, PdfHalfWritten, Submit, Removed, RemoveFails, Commit
<1>3. ASSUME NEW g \in Handlers, NEW c \in serves[g], Arrive(g, c), job'[h] # job[h]
      PROVE  /\ c \in Calls /\ job'[h].call = c
             /\ c \in Patches => tag[c] # None /\ job'[h].match = tag[c]
  <2> DEFINE match == IF c \in Patches THEN tag[c] ELSE None
             j == [NoJob EXCEPT !.pc = "looked", !.call = c,
                                !.at = IF OpOf[c] = "ask" THEN now ELSE 0, !.match = match]
  <2>1. c \in Calls /\ Precheck(c) /\ Enter(g, j)
    BY <1>3 DEF Arrive, TypeInv
  <2>2. job'[h] = j /\ j.call = c /\ j.match = match
    BY <1>3, <2>1 DEF Enter, NoJob, TypeInv
  <2>3. c \in Patches => tag[c] # None
    BY <2>1 DEF Precheck, Patches
  <2> QED BY <2>1, <2>2, <2>3
<1>4. ASSUME NEW p \in Processes, Crash(p) PROVE job'[h] = job[h]
  BY <1>4 DEF Crash, NoJob
<1> QED BY <1>2, <1>3, <1>4 DEF Next, ReadVendor, StaffReactivate, Tick, vars

\* A client's tag is the vendor it read, before its edit.
LEMMA TagStep ==
    ASSUME TypeInv, [Next]_vars, NEW c \in Patches
    PROVE  tag'[c] = tag[c] \/ (tag'[c] = vendor /\ c \notin vendor.edits)
<1>1. ASSUME NEW h \in Handlers, Handle(h) PROVE tag' = tag
  BY <1>1
     DEF Handle, Arrive, Admit, CommitReplay, Refuse, CreateVendor, PatchVendor, AskCertificate,
         CancelRequest, Parsed, Unacceptable, PdfWritten, PdfHalfWritten, Submit,
         SubmitRolledBack, Removed, RemoveFails, Finish, Close, Commit, stores, history
<1>2. ASSUME NEW b \in Patches, ReadVendor(b)
      PROVE  tag'[c] = tag[c] \/ (tag'[c] = vendor /\ c \notin vendor.edits)
  BY <1>2 DEF ReadVendor, TypeInv
<1> QED BY <1>1, <1>2 DEF Next, StaffReactivate, Crash, Tick, vars

\* Edits only ever gather, and only an update of its own adds to a patch's history.
LEMMA EditStep ==
    ASSUME TypeInv, [Next]_vars, NEW c \in Patches
    PROVE  /\ c \in vendor.edits => c \in vendor'.edits
           /\ \/ ever'[c] = ever[c]
              \/ \E h \in Handlers : /\ PatchVendor(h) /\ job[h].call = c
                                     /\ ever'[c] = ever[c] \cup {now} /\ c \in vendor'.edits
<1>1. ASSUME NEW h \in Handlers, PatchVendor(h)
      PROVE  /\ c \in vendor.edits => c \in vendor'.edits
             /\ \/ ever'[c] = ever[c]
                \/ job[h].call = c /\ ever'[c] = ever[c] \cup {now} /\ c \in vendor'.edits
  <2>1. vendor \in Vendor /\ job[h].match = vendor /\ job[h].call \in Calls
    BY <1>1 DEF PatchVendor, Matches, Patches, TypeInv
  <2>2. vendor'.edits = vendor.edits \cup {job[h].call}
    BY <1>1, <2>1, EditedType DEF PatchVendor
  <2>3. ever' = [ever EXCEPT ![job[h].call] = @ \cup {now}]
    BY <1>1 DEF PatchVendor, Commit, Stored
  <2> QED BY <2>1, <2>2, <2>3 DEF TypeInv, Patches
<1>2. ASSUME NEW h \in Handlers, CreateVendor(h) \/ AskCertificate(h) \/ CancelRequest(h)
      PROVE  vendor' = vendor /\ ever'[c] = ever[c]
  <2>1. job[h].call # c
    BY <1>2 DEF CreateVendor, AskCertificate, CancelRequest, Looked, Patches
  <2>2. vendor' = vendor /\ \E n : Commit(h, job[h].call, n)
    BY <1>2 DEF CreateVendor, AskCertificate, CancelRequest
  <2> QED BY <2>1, <2>2 DEF Commit, Stored, TypeInv, Patches
<1>3. ASSUME NEW h \in Handlers, Submit(h)
      PROVE  vendor'.edits = vendor.edits /\ ever'[c] = ever[c]
  <2>1. job[h].call # c
    BY <1>3, UploadCall DEF Submit, Patches
  <2> QED BY <1>3, <2>1 DEF Submit, Stored, TypeInv, Vendor
<1>4. ASSUME NEW h \in Handlers, Handle(h),
             ~(CreateVendor(h) \/ PatchVendor(h) \/ AskCertificate(h) \/ CancelRequest(h) \/ Submit(h))
      PROVE  vendor' = vendor /\ ever' = ever
  BY <1>4
     DEF Handle, Arrive, Admit, CommitReplay, Refuse, Parsed, Unacceptable, PdfWritten,
         PdfHalfWritten, SubmitRolledBack, Removed, RemoveFails, Finish, Close, stores, history
<1>5. CASE StaffReactivate
  BY <1>5 DEF StaffReactivate, history, TypeInv, Vendor
<1> QED BY <1>1, <1>2, <1>3, <1>4, <1>5
    DEF Next, ReadVendor, Crash, Tick, vars, stores, history

\* Every step keeps the tags fresh and the edits made once.
LEMMA EditsStep == TypeInv /\ EditsInv /\ [Next]_vars => EditsInv'
<1> SUFFICES ASSUME TypeInv, EditsInv, [Next]_vars PROVE EditsInv'
  OBVIOUS
<1>1. ASSUME NEW c \in Patches, tag'[c] # None PROVE c \notin tag'[c].edits
  BY <1>1, TagStep DEF EditsInv, TagsFresh
<1>2. ASSUME NEW h \in Handlers, job'[h].pc = "looked", job'[h].call \in Patches
      PROVE  job'[h].match # None /\ job'[h].call \notin job'[h].match.edits
  BY <1>2, LookedStep DEF EditsInv, TagsFresh
<1>3. ASSUME NEW c \in Patches
      PROVE  (ever'[c] # {} => c \in vendor'.edits) /\ Cardinality(ever'[c]) <= 1
  <2>1. (ever[c] # {} => c \in vendor.edits) /\ Cardinality(ever[c]) <= 1
    BY DEF EditsInv, EveryEditOnceAndKept
  <2>2. CASE ever'[c] = ever[c]
    BY <2>1, <2>2, EditStep
  <2>3. ASSUME NEW h \in Handlers, PatchVendor(h), job[h].call = c,
               ever'[c] = ever[c] \cup {now}, c \in vendor'.edits
        PROVE  (ever'[c] # {} => c \in vendor'.edits) /\ Cardinality(ever'[c]) <= 1
    <3>1. job[h].pc = "looked" /\ job[h].match = vendor
      BY <2>3 DEF PatchVendor, Commit, Matches
    <3>2. c \notin vendor.edits
      BY <2>3, <3>1 DEF EditsInv, TagsFresh
    <3>3. ever'[c] = {now}
      BY <2>1, <2>3, <3>2
    <3>4. Cardinality({now}) = 1
      BY FS_Singleton
    <3> QED BY <2>3, <3>3, <3>4
  <2> QED BY <2>2, <2>3, EditStep
<1> QED BY <1>1, <1>2, <1>3 DEF EditsInv, TagsFresh, EveryEditOnceAndKept

\* No accepted update is overwritten by a client that had not read it, and
\* none is applied twice, however often it is sent.
THEOREM EditsKept == Spec => []EveryEditOnceAndKept
<1>1. Init => EditsInv
  BY FS_EmptySet DEF Init, EditsInv, TagsFresh, EveryEditOnceAndKept, NoJob, Patches
<1>2. EditsInv => EveryEditOnceAndKept
  BY DEF EditsInv
<1> QED BY <1>1, <1>2, TypeInit, TypeStep, EditsStep, PTL DEF Spec

-----------------------------------------------------------------------------
(* Upload capacity.                                                        *)

\* The uploads of a process whose response is still open.
Open(p) == {h \in Handlers : HostOf[h] = p /\ job[h].slot}

CapacityInv ==
    \A p \in Processes : active[p] = Cardinality(Open(p)) /\ active[p] <= MaximumActive

\* What a step does to the slots and the counters.
Untouched == active' = active /\ \A g \in Handlers : job'[g].slot <=> job[g].slot
Taken(h) ==
    /\ active[HostOf[h]] < MaximumActive /\ ~job[h].slot /\ job'[h].slot
    /\ Slot(h, active[HostOf[h]] + 1)
    /\ \A g \in Handlers \ {h} : job'[g] = job[g]
Given(h) ==
    /\ job[h].slot /\ ~job'[h].slot
    /\ Slot(h, active[HostOf[h]] - 1)
    /\ \A g \in Handlers \ {h} : job'[g] = job[g]

\* A slot is taken, given back once, lost with its process, or left alone.
LEMMA SlotStep ==
    ASSUME TypeInv, [Next]_vars
    PROVE  \/ Untouched
           \/ \E h \in Handlers : Taken(h) \/ Given(h)
           \/ \E p \in Processes : Crash(p)
<1>1. ASSUME NEW h \in Handlers, NEW j, Enter(h, j)
      PROVE  job'[h] = j /\ \A g \in Handlers \ {h} : job'[g] = job[g]
  BY <1>1 DEF Enter, TypeInv
<1>2. ASSUME NEW h \in Handlers, ~job[h].slot, Leave(h)
      PROVE  \A g \in Handlers : job'[g].slot <=> job[g].slot
  BY <1>1, <1>2 DEF Leave, NoJob
<1>3. ASSUME NEW h \in Handlers, job[h] \in Job, JobFits(job[h]), Reply(h)
      PROVE  \A g \in Handlers : job'[g].slot <=> job[g].slot
  <2>1. CASE job[h].closed
    BY <1>2, <1>3, <2>1 DEF Reply, JobFits
  <2>2. CASE ~job[h].closed
    BY <1>1, <1>3, <2>2 DEF Reply, Job
  <2> QED BY <2>1, <2>2
<1>4. ASSUME NEW h \in Handlers, Handle(h) PROVE Untouched \/ Taken(h) \/ Given(h)
  <2>1. job[h] \in Job /\ JobFits(job[h])
    BY DEF TypeInv
  <2>2. ASSUME NEW c \in serves[h], Arrive(h, c) PROVE Untouched
    <3>1. ~job[h].slot
      BY <2>1, <2>2 DEF Arrive, JobFits
    <3> DEFINE j == [NoJob EXCEPT !.pc = "looked", !.call = c,
                                  !.at = IF OpOf[c] = "ask" THEN now ELSE 0,
                                  !.match = IF c \in Patches THEN tag[c] ELSE None]
    <3>2. ~j.slot
      BY DEF NoJob
    <3>3. active' = active /\ (job' = job \/ Enter(h, j))
      BY <2>2 DEF Arrive
    <3> HIDE DEF j
    <3>4. \A g \in Handlers : job'[g].slot <=> job[g].slot
      BY <1>1, <3>1, <3>2, <3>3
    <3> QED BY <3>3, <3>4 DEF Untouched
  <2>3. ASSUME NEW c \in serves[h], Admit(h, c) PROVE Taken(h)
    <3>1. ~job[h].slot
      BY <2>1, <2>3 DEF Admit, JobFits
    <3> DEFINE j == [NoJob EXCEPT !.pc = "parsing", !.call = c, !.slot = TRUE]
    <3>2. j.slot
      BY DEF NoJob
    <3>3. /\ Enter(h, j)
          /\ active[HostOf[h]] < MaximumActive /\ Slot(h, active[HostOf[h]] + 1)
      BY <2>3 DEF Admit
    <3> HIDE DEF j
    <3>4. job'[h].slot /\ \A g \in Handlers \ {h} : job'[g] = job[g]
      BY <1>1, <3>2, <3>3
    <3> QED BY <3>1, <3>3, <3>4 DEF Taken
  <2>4. CASE \/ CommitReplay(h) \/ Refuse(h) \/ CreateVendor(h) \/ PatchVendor(h)
             \/ AskCertificate(h) \/ CancelRequest(h)
    <3>1. Leave(h) /\ job[h].pc = "looked" /\ active' = active
      BY <2>4 DEF CommitReplay, Refuse, CreateVendor, PatchVendor, AskCertificate,
                  CancelRequest, Commit
    <3>2. ~job[h].slot
      BY <2>1, <3>1 DEF JobFits
    <3> QED BY <1>2, <3>1, <3>2 DEF Untouched
  <2>5. CASE Parsed(h)
    <3>1. Reply(h) \/ Enter(h, [job[h] EXCEPT !.pc = "writing"])
      BY <2>5 DEF Parsed
    <3> QED BY <1>1, <1>3, <2>1, <2>5, <3>1 DEF Parsed, Untouched, Job
  <2>6. CASE Unacceptable(h) \/ PdfHalfWritten(h) \/ Submit(h) \/ Removed(h) \/ RemoveFails(h)
    BY <1>3, <2>1, <2>6
       DEF Unacceptable, PdfHalfWritten, Submit, Removed, RemoveFails, Untouched
  <2>7. CASE PdfWritten(h) \/ SubmitRolledBack(h)
    <3>1. ASSUME NEW x PROVE [job[h] EXCEPT !.pc = "stored", !.file = x].slot = job[h].slot
                             /\ [job[h] EXCEPT !.pc = "removing", !.found = x].slot = job[h].slot
      BY <2>1 DEF Job
    <3>2. \E x : \/ Enter(h, [job[h] EXCEPT !.pc = "stored", !.file = x])
                 \/ Enter(h, [job[h] EXCEPT !.pc = "removing", !.found = x])
      BY <2>7 DEF PdfWritten, SubmitRolledBack
    <3>3. PICK j : Enter(h, j) /\ j.slot = job[h].slot
      BY <3>1, <3>2
    <3>4. \A g \in Handlers : job'[g].slot <=> job[g].slot
      BY <1>1, <3>3
    <3> QED BY <2>7, <3>4 DEF PdfWritten, SubmitRolledBack, Untouched
  <2>8. CASE Finish(h)
    BY <1>1, <2>1, <2>8 DEF Finish, Give, Given, Job
  <2>9. CASE Close(h)
    <3>0. ~NoJob.slot /\ ~[job[h] EXCEPT !.slot = FALSE, !.closed = TRUE].slot
      BY <2>1 DEF NoJob, Job
    <3>1. \E j : Enter(h, j) /\ ~j.slot
      BY <2>9, <3>0 DEF Close, Leave
    <3>2. ~job'[h].slot /\ \A g \in Handlers \ {h} : job'[g] = job[g]
      BY <1>1, <3>1
    <3> QED BY <2>9, <3>2 DEF Close, Give, Given, Untouched
  <2> QED BY <1>4, <2>2, <2>3, <2>4, <2>5, <2>6, <2>7, <2>8, <2>9 DEF Handle
<1> QED BY <1>4 DEF Next, ReadVendor, StaffReactivate, Tick, vars, Untouched

\* Every step keeps the counters exact.
LEMMA CapacityStep == TypeInv /\ CapacityInv /\ [Next]_vars => CapacityInv'
<1> SUFFICES ASSUME TypeInv, CapacityInv, [Next]_vars, NEW p \in Processes
             PROVE  active'[p] = Cardinality(Open(p)') /\ active'[p] <= MaximumActive
  BY DEF CapacityInv
<1>1. /\ active[p] = Cardinality(Open(p)) /\ active[p] <= MaximumActive
      /\ MaximumActive \in Nat \ {0}
  BY NumberAssumption DEF CapacityInv
<1>2. IsFiniteSet(Open(p)) /\ Cardinality(Open(p)) \in Nat
  BY FS_Subset, FS_CardinalityType, NumberAssumption DEF Open
<1>3. CASE Untouched
  <2>1. Open(p)' = Open(p)
    BY <1>3 DEF Untouched, Open
  <2> QED BY <1>1, <1>3, <2>1 DEF Untouched
<1>4. ASSUME NEW h \in Handlers, Taken(h)
      PROVE  active'[p] = Cardinality(Open(p)') /\ active'[p] <= MaximumActive
  <2>1. CASE HostOf[h] = p
    <3>1. Open(p)' = Open(p) \cup {h} /\ h \notin Open(p)
      BY <1>4, <2>1 DEF Taken, Open
    <3>2. Cardinality(Open(p)') = Cardinality(Open(p)) + 1
      BY <1>2, <3>1, FS_AddElement
    <3>3. active'[p] = active[p] + 1 /\ active[p] < MaximumActive
      BY <1>4, <2>1 DEF Taken, Slot, TypeInv
    <3> QED BY <1>1, <1>2, <3>2, <3>3
  <2>2. CASE HostOf[h] # p
    <3>1. Open(p)' = Open(p) /\ active'[p] = active[p]
      BY <1>4, <2>2 DEF Taken, Open, Slot, TypeInv
    <3> QED BY <1>1, <3>1
  <2> QED BY <2>1, <2>2
<1>5. ASSUME NEW h \in Handlers, Given(h)
      PROVE  active'[p] = Cardinality(Open(p)') /\ active'[p] <= MaximumActive
  <2>1. CASE HostOf[h] = p
    <3>1. Open(p)' = Open(p) \ {h} /\ h \in Open(p)
      BY <1>5, <2>1 DEF Given, Open
    <3>2. Cardinality(Open(p)') = Cardinality(Open(p)) - 1
      BY <1>2, <3>1, FS_RemoveElement
    <3>3. active'[p] = active[p] - 1
      BY <1>5, <2>1 DEF Given, Slot, TypeInv
    <3> QED BY <1>1, <1>2, <3>2, <3>3
  <2>2. CASE HostOf[h] # p
    <3>1. Open(p)' = Open(p) /\ active'[p] = active[p]
      BY <1>5, <2>2 DEF Given, Open, Slot, TypeInv
    <3> QED BY <1>1, <3>1
  <2> QED BY <2>1, <2>2
<1>6. ASSUME NEW q \in Processes, Crash(q)
      PROVE  active'[p] = Cardinality(Open(p)') /\ active'[p] <= MaximumActive
  <2>1. CASE q = p
    <3>1. Open(p)' = {} /\ active'[p] = 0
      BY <1>6, <2>1 DEF Crash, Open, NoJob, TypeInv
    <3> QED BY <1>1, <3>1, FS_EmptySet
  <2>2. CASE q # p
    <3>1. Open(p)' = Open(p) /\ active'[p] = active[p]
      BY <1>6, <2>2 DEF Crash, Open, TypeInv
    <3> QED BY <1>1, <3>1
  <2> QED BY <2>1, <2>2
<1> QED BY <1>3, <1>4, <1>5, <1>6, SlotStep

\* The limiter of each process counts its open uploads, and never lets more
\* than its maximum be parsed.
THEOREM Capacity == Spec => []CapacityExact
<1>1. Init => CapacityInv
  <2> SUFFICES ASSUME Init, NEW p \in Processes
               PROVE  active[p] = Cardinality(Open(p)) /\ active[p] <= MaximumActive
    BY DEF CapacityInv
  <2>1. Open(p) = {}
    BY DEF Init, Open, NoJob
  <2> QED BY <2>1, FS_EmptySet, NumberAssumption DEF Init
<1>2. TypeInv /\ CapacityInv => CapacityExact
  <2> SUFFICES ASSUME TypeInv, CapacityInv, NEW p \in Processes
               PROVE  /\ active[p] = Cardinality({h \in Handlers : HostOf[h] = p /\ job[h].slot
                                                        /\ job[h].pc \in Phases})
                      /\ Cardinality({h \in Handlers : HostOf[h] = p /\ job[h].pc = "parsing"})
                           <= MaximumActive
    BY DEF CapacityExact
  <2> DEFINE parsing == {h \in Handlers : HostOf[h] = p /\ job[h].pc = "parsing"}
  <2>1. {h \in Handlers : HostOf[h] = p /\ job[h].slot /\ job[h].pc \in Phases} = Open(p)
    BY DEF Open, TypeInv, Job
  <2>2. parsing \subseteq Open(p)
    BY DEF Open, TypeInv, JobFits
  <2>3. IsFiniteSet(Open(p))
    BY FS_Subset, NumberAssumption DEF Open
  <2>4. Cardinality(parsing) <= Cardinality(Open(p)) /\ Cardinality(parsing) \in Nat
    BY <2>2, <2>3, FS_Subset, FS_CardinalityType
  <2>5. active[p] = Cardinality(Open(p)) /\ active[p] <= MaximumActive
    BY DEF CapacityInv
  <2>6. MaximumActive \in Nat /\ Cardinality(Open(p)) \in Nat
    BY <2>3, FS_CardinalityType, NumberAssumption
  <2>7. Cardinality(parsing) <= MaximumActive
    BY <2>4, <2>5, <2>6
  <2> QED BY <2>1, <2>5, <2>7
<1> QED BY <1>1, <1>2, TypeInit, TypeStep, CapacityStep, PTL DEF Spec

-----------------------------------------------------------------------------
(* Rows.                                                                   *)

\* Rows keep all but their state.
Rewritten(rs, f) ==
    /\ f = [r \in rs |-> f[r]]
    /\ \A r \in rs : /\ f[r] \in Row
                     /\ f[r].id = r.id /\ f[r].call = r.call /\ f[r].op = r.op
                     /\ f[r].at = r.at /\ f[r].file = r.file

\* The rows that result.
Rewriting(rs, f) == {f[r] : r \in rs}

\* Closing some rows rewrites them.
LEMMA ClosingRewrites ==
    ASSUME NEW rs \in SUBSET Row, NEW some \in SUBSET rs
    PROVE  \E f : Rewritten(rs, f) /\ (rs \ some) \cup Closed(some) = Rewriting(rs, f)
<1> DEFINE f == [r \in rs |-> IF r \in some THEN [r EXCEPT !.open = FALSE] ELSE r]
<1>1. Rewritten(rs, f)
  BY DEF Rewritten, Row
<1>2. (rs \ some) \cup Closed(some) = Rewriting(rs, f)
  BY DEF Closed, Rewriting
<1> HIDE DEF f
<1> QED BY <1>1, <1>2

\* Rows are added by three actions; any other closes some, or leaves them alone.
LEMMA RowStep ==
    ASSUME TypeInv, [Next]_vars
    PROVE  \/ \E f : Rewritten(row, f) /\ row' = Rewriting(row, f)
           \/ \E h \in Handlers : CreateVendor(h) \/ AskCertificate(h) \/ Submit(h)
<1>0. row \in SUBSET Row
  BY DEF TypeInv
<1>1. ASSUME row' = row PROVE \E f : Rewritten(row, f) /\ row' = Rewriting(row, f)
  <2>1. (row \ {}) \cup Closed({}) = row
    BY DEF Closed
  <2>2. \E f : Rewritten(row, f) /\ (row \ {}) \cup Closed({}) = Rewriting(row, f)
    BY <1>0, ClosingRewrites
  <2> QED BY <1>1, <2>1, <2>2
<1>2. ASSUME NEW h \in Handlers, PatchVendor(h)
      PROVE  \E f : Rewritten(row, f) /\ row' = Rewriting(row, f)
  <2>1. row' = row \/ row' = (row \ row) \cup Closed(row)
    BY <1>2 DEF PatchVendor
  <2>2. \E f : Rewritten(row, f) /\ (row \ row) \cup Closed(row) = Rewriting(row, f)
    BY <1>0, ClosingRewrites
  <2> QED BY <1>1, <2>1, <2>2
<1>3. ASSUME NEW h \in Handlers, CancelRequest(h)
      PROVE  \E f : Rewritten(row, f) /\ row' = Rewriting(row, f)
  <2>1. PICK r \in row : row' = (row \ {r}) \cup Closed({r})
    BY <1>3 DEF CancelRequest
  <2>2. {r} \in SUBSET row
    BY <2>1
  <2>3. \E f : Rewritten(row, f) /\ (row \ {r}) \cup Closed({r}) = Rewriting(row, f)
    BY <1>0, <2>2, ClosingRewrites
  <2> QED BY <2>1, <2>3
<1>4. ASSUME NEW h \in Handlers, Handle(h), ~PatchVendor(h), ~CancelRequest(h),
             ~(CreateVendor(h) \/ AskCertificate(h) \/ Submit(h))
      PROVE  row' = row
  BY <1>4
     DEF Handle, Arrive, Admit, CommitReplay, Refuse, Parsed, Unacceptable, PdfWritten,
         PdfHalfWritten, SubmitRolledBack, Removed, RemoveFails, Finish, Close, stores
<1> QED BY <1>1, <1>2, <1>3, <1>4
    DEF Next, ReadVendor, StaffReactivate, Crash, Tick, vars, stores

-----------------------------------------------------------------------------
(* The mail limits.                                                        *)

\* Requests mailed in the 24 hours before an instant, and those to one recipient.
MailedUntil(rs, t)   == {r \in rs : r.op = "ask" /\ r.at \in (t - Window)..t}
MailedFor(rs, t, who) == {r \in MailedUntil(rs, t) : RecipientOf[r.call] = who}

\* The limits hold before every instant, whether a row is dated at it or not.
MailInv ==
    \A t \in Nat : /\ Cardinality(MailedUntil(row, t)) <= OrganizationLimit
                   /\ \A who : Cardinality(MailedFor(row, t, who)) <= RecipientLimit

\* Parts of a finite set with one more element.
LEMMA OneMore ==
    ASSUME NEW S, IsFiniteSet(S), NEW x, NEW T \in SUBSET (S \cup {x}), NEW limit \in Nat,
           Cardinality(S) < limit
    PROVE  Cardinality(T) <= limit
<1>1. IsFiniteSet(S \cup {x}) /\ Cardinality(S \cup {x}) <= Cardinality(S) + 1
  <2>1. IsFiniteSet(S \cup {x})
    BY FS_AddElement
  <2>2. Cardinality(S \cup {x}) = IF x \in S THEN Cardinality(S) ELSE Cardinality(S) + 1
    BY FS_AddElement
  <2>3. Cardinality(S) \in Nat
    BY FS_CardinalityType
  <2> QED BY <2>1, <2>2, <2>3
<1>2. Cardinality(T) <= Cardinality(S \cup {x}) /\ IsFiniteSet(T)
  BY <1>1, FS_Subset
<1>3. Cardinality(T) \in Nat /\ Cardinality(S) \in Nat /\ Cardinality(S \cup {x}) \in Nat
  BY <1>1, <1>2, FS_CardinalityType
<1> QED BY <1>1, <1>2, <1>3

\* Closing rows changes no count.
LEMMA RewritingMails ==
    ASSUME NEW rs \in SUBSET Row, IsFiniteSet(rs), NEW f, Rewritten(rs, f), NEW t \in Nat, NEW who
    PROVE  LET new == Rewriting(rs, f) IN
           /\ Cardinality(MailedUntil(new, t)) <= Cardinality(MailedUntil(rs, t))
           /\ Cardinality(MailedFor(new, t, who)) <= Cardinality(MailedFor(rs, t, who))
<1> DEFINE new == Rewriting(rs, f)
<1>1. ASSUME NEW S \in SUBSET rs PROVE Cardinality({f[r] : r \in S}) <= Cardinality(S)
  <2> DEFINE g == [r \in S |-> f[r]]
  <2>1. IsFiniteSet(S)
    BY FS_Subset
  <2>2. g = [r \in S |-> g[r]] /\ {g[r] : r \in S} = {f[r] : r \in S}
    OBVIOUS
  <2> HIDE DEF g
  <2> QED BY <2>1, <2>2, ImageSmaller
<1>2. MailedUntil(new, t) = {f[r] : r \in MailedUntil(rs, t)} /\ MailedUntil(rs, t) \in SUBSET rs
  BY DEF MailedUntil, Rewritten, Rewriting
<1>3. MailedFor(new, t, who) = {f[r] : r \in MailedFor(rs, t, who)}
      /\ MailedFor(rs, t, who) \in SUBSET rs
  BY <1>2 DEF MailedFor, MailedUntil, Rewritten, Rewriting
<1> QED BY <1>1, <1>2, <1>3

\* A new request is counted with those of the 24 hours before it, and later ones.
LEMMA AskingMails ==
    ASSUME TypeInv, MailInv, NEW c \in Calls, NEW at \in Nat, WithinLimits(c, at),
           NEW n \in Row, n.call = c, n.at = at, NEW t \in Nat, NEW who
    PROVE  /\ Cardinality(MailedUntil(row \cup {n}, t)) <= OrganizationLimit
           /\ Cardinality(MailedFor(row \cup {n}, t, who)) <= RecipientLimit
<1> DEFINE all == MailedUntil(row \cup {n}, t)
           some == MailedFor(row \cup {n}, t, who)
<1>0. /\ row \in SUBSET Row /\ IsFiniteSet(row)
      /\ Window \in Nat /\ OrganizationLimit \in Nat /\ RecipientLimit \in Nat
  BY NumberAssumption DEF TypeInv
<1>1. /\ Cardinality(MailedUntil(row, t)) <= OrganizationLimit
      /\ Cardinality(MailedFor(row, t, who)) <= RecipientLimit
  BY DEF MailInv
<1>2. /\ IsFiniteSet(MailedSince(at)) /\ Cardinality(MailedSince(at)) < OrganizationLimit
      /\ IsFiniteSet(MailedTo(RecipientOf[c], at))
      /\ Cardinality(MailedTo(RecipientOf[c], at)) < RecipientLimit
  <2>1. MailedSince(at) \subseteq row /\ MailedTo(RecipientOf[c], at) \subseteq row
    BY DEF MailedSince, MailedTo
  <2> QED BY <1>0, <2>1, FS_Subset DEF WithinLimits
<1>3. Cardinality(all) <= OrganizationLimit
  <2>1. CASE at \in (t - Window)..t
    <3>1. all \subseteq MailedSince(at) \cup {n}
      BY <1>0, <2>1 DEF MailedUntil, MailedSince, Row
    <3> QED BY <1>0, <1>2, <3>1, OneMore
  <2>2. CASE at \notin (t - Window)..t
    <3>1. all = MailedUntil(row, t)
      BY <2>2 DEF MailedUntil
    <3> QED BY <1>1, <3>1
  <2> QED BY <2>1, <2>2
<1>4. Cardinality(some) <= RecipientLimit
  <2>1. CASE at \in (t - Window)..t /\ RecipientOf[c] = who
    <3>1. some \subseteq MailedTo(RecipientOf[c], at) \cup {n}
      BY <1>0, <2>1 DEF MailedFor, MailedTo, MailedUntil, MailedSince, Row
    <3> QED BY <1>0, <1>2, <3>1, OneMore
  <2>2. CASE at \notin (t - Window)..t \/ RecipientOf[c] # who
    <3>1. some = MailedFor(row, t, who)
      BY <2>2 DEF MailedFor, MailedUntil
    <3> QED BY <1>1, <3>1
  <2> QED BY <2>1, <2>2
<1> QED BY <1>3, <1>4

\* Every step keeps the limits.
LEMMA MailStep == TypeInv /\ MailInv /\ [Next]_vars => MailInv'
<1> SUFFICES ASSUME TypeInv, MailInv, [Next]_vars, NEW t \in Nat, NEW who
             PROVE  /\ Cardinality(MailedUntil(row', t)) <= OrganizationLimit
                    /\ Cardinality(MailedFor(row', t, who)) <= RecipientLimit
  BY DEF MailInv, MailedFor, MailedUntil
<1>0. /\ Cardinality(MailedUntil(row, t)) <= OrganizationLimit
      /\ Cardinality(MailedFor(row, t, who)) <= RecipientLimit
  BY DEF MailInv
<1>1. ASSUME NEW f, Rewritten(row, f), row' = Rewriting(row, f)
      PROVE  /\ Cardinality(MailedUntil(row', t)) <= OrganizationLimit
             /\ Cardinality(MailedFor(row', t, who)) <= RecipientLimit
  <2>1. row \in SUBSET Row /\ IsFiniteSet(row) /\ TypeInv'
    BY TypeStep DEF TypeInv
  <2>2. /\ Cardinality(MailedUntil(row', t)) <= Cardinality(MailedUntil(row, t))
        /\ Cardinality(MailedFor(row', t, who)) <= Cardinality(MailedFor(row, t, who))
    BY <1>1, <2>1, RewritingMails
  <2>3. /\ Cardinality(MailedUntil(row', t)) \in Nat /\ Cardinality(MailedUntil(row, t)) \in Nat
        /\ Cardinality(MailedFor(row', t, who)) \in Nat /\ Cardinality(MailedFor(row, t, who)) \in Nat
        /\ OrganizationLimit \in Nat /\ RecipientLimit \in Nat
    BY <2>1, FS_Subset, FS_CardinalityType, NumberAssumption DEF MailedUntil, MailedFor, TypeInv
  <2> QED BY <1>0, <2>2, <2>3
<1>2. ASSUME NEW h \in Handlers, AskCertificate(h)
      PROVE  /\ Cardinality(MailedUntil(row', t)) <= OrganizationLimit
             /\ Cardinality(MailedFor(row', t, who)) <= RecipientLimit
  <2> DEFINE n == NewRow(job[h].call, job[h].at, 0)
  <2>1. job[h].call \in Calls /\ job[h].at \in Nat
    BY <1>2, LookedCall DEF AskCertificate, Looked
  <2>2. n \in Row /\ n.call = job[h].call /\ n.at = job[h].at
    BY <2>1, NewRowType DEF NewRow
  <2>3. WithinLimits(job[h].call, job[h].at) /\ row' = row \cup {n}
    BY <1>2 DEF AskCertificate
  <2> HIDE DEF n
  <2> QED BY <2>1, <2>2, <2>3, AskingMails
<1>3. ASSUME NEW n, n.op # "ask", row' = row \cup {n}
      PROVE  /\ Cardinality(MailedUntil(row', t)) <= OrganizationLimit
             /\ Cardinality(MailedFor(row', t, who)) <= RecipientLimit
  <2>1. MailedUntil(row', t) = MailedUntil(row, t)
    BY <1>3 DEF MailedUntil
  <2> QED BY <1>0, <2>1 DEF MailedFor
<1>4. ASSUME NEW h \in Handlers, CreateVendor(h) \/ Submit(h)
      PROVE  \E n : n.op # "ask" /\ row' = row \cup {n}
  BY <1>4, UploadCall DEF CreateVendor, Submit, Looked, NewRow
<1> QED BY <1>1, <1>2, <1>3, <1>4, RowStep

\* In no 24 hours are more requests mailed than the limits of the organization
\* and of each recipient allow, in whatever order they are dated and committed.
THEOREM MailsLimited == Spec => []MailLimits
<1>1. Init => MailInv
  <2> SUFFICES ASSUME Init, NEW t \in Nat, NEW who
               PROVE  /\ Cardinality(MailedUntil(row, t)) <= OrganizationLimit
                      /\ Cardinality(MailedFor(row, t, who)) <= RecipientLimit
    BY DEF MailInv
  <2>1. MailedUntil(row, t) = {} /\ MailedFor(row, t, who) = {}
    BY DEF Init, MailedUntil, MailedFor
  <2> QED BY <2>1, FS_EmptySet, NumberAssumption
<1>2. TypeInv /\ MailInv => MailLimits
  <2> SUFFICES ASSUME TypeInv, MailInv, NEW r \in row, r.op = "ask"
               PROVE  LET window == {q \in row : q.op = "ask" /\ q.at \in (r.at - Window)..r.at} IN
                      /\ Cardinality(window) <= OrganizationLimit
                      /\ \A q \in window :
                           Cardinality({o \in window : RecipientOf[o.call] = RecipientOf[q.call]})
                             <= RecipientLimit
    BY DEF MailLimits
  <2>1. r.at \in Nat
    BY DEF TypeInv, Row
  <2> QED BY <2>1 DEF MailInv, MailedUntil, MailedFor
<1> QED BY <1>1, <1>2, TypeInit, TypeStep, MailStep, PTL DEF Spec

-----------------------------------------------------------------------------
(* Files.                                                                  *)

\* An upload holds a file from the write to the transaction or the removal.
Holds(h) == job[h].pc \in {"stored", "removing"}
Held == {job[h].file : h \in {g \in Handlers : Holds(g)}}
Left == (files \ RowFiles) \ Held

FilesInv ==
    /\ RowFiles \subseteq files /\ Held \subseteq files \ RowFiles
    /\ \A h, g \in Handlers : Holds(h) /\ Holds(g) /\ job[h].file = job[g].file => h = g
    /\ \A q, r \in row : q.file = r.file /\ q.file # 0 => q = r
    /\ Cardinality(Left) <= faults * Cardinality(Handlers)

\* What a step does to the files an upload holds.
Keeping == \A g \in Handlers : /\ Holds(g)' <=> Holds(g)
                               /\ Holds(g) => job'[g].file = job[g].file
LettingGo(h) == /\ Holds(h) /\ ~Holds(h)'
                /\ \A g \in Handlers \ {h} : job'[g] = job[g]

\* An upload comes to hold a file by writing it, and lets go of it once.
LEMMA HoldStep ==
    ASSUME TypeInv, NEW h \in Handlers, Handle(h)
    PROVE  \/ PdfWritten(h)
           \/ (Submit(h) \/ Removed(h) \/ RemoveFails(h)) /\ LettingGo(h)
           \/ ~(PdfWritten(h) \/ Submit(h) \/ Removed(h) \/ RemoveFails(h)) /\ Keeping
<1>0. job[h] \in Job
  BY DEF TypeInv
<1>1. ASSUME NEW j, Enter(h, j)
      PROVE  job'[h] = j /\ \A g \in Handlers \ {h} : job'[g] = job[g]
  BY <1>1 DEF Enter, TypeInv
<1>2. ASSUME NEW j, Enter(h, j), ~Holds(h), j.pc \notin {"stored", "removing"} PROVE Keeping
  BY <1>1, <1>2 DEF Keeping, Holds
<1>3. ASSUME NEW j, Enter(h, j), Holds(h), j.pc \in {"stored", "removing"}, j.file = job[h].file
      PROVE  Keeping
  BY <1>1, <1>3 DEF Keeping, Holds
<1>4. Leave(h) \/ Reply(h) => \E j : Enter(h, j) /\ j.pc \notin {"stored", "removing"}
  <2>1. [job[h] EXCEPT !.pc = "replied"].pc = "replied" /\ NoJob.pc = "idle"
    BY <1>0 DEF Job, NoJob
  <2> QED BY <2>1 DEF Leave, Reply
<1>5. CASE Submit(h) \/ Removed(h) \/ RemoveFails(h)
  <2>1. Holds(h) /\ Reply(h)
    BY <1>5 DEF Submit, Removed, RemoveFails, Holds
  <2>2. LettingGo(h)
    BY <1>1, <1>4, <2>1 DEF LettingGo, Holds
  <2> QED BY <1>5, <2>2
<1>6. ASSUME NEW c \in serves[h], Arrive(h, c) \/ Admit(h, c) PROVE Keeping
  <2> DEFINE j == [NoJob EXCEPT !.pc = "looked", !.call = c,
                                !.at = IF OpOf[c] = "ask" THEN now ELSE 0,
                                !.match = IF c \in Patches THEN tag[c] ELSE None]
             k == [NoJob EXCEPT !.pc = "parsing", !.call = c, !.slot = TRUE]
  <2>1. j.pc = "looked" /\ k.pc = "parsing"
    BY DEF NoJob
  <2>2. ~Holds(h) /\ (job' = job \/ Enter(h, j) \/ Enter(h, k))
    BY <1>6 DEF Arrive, Admit, Holds
  <2> HIDE DEF j, k
  <2>3. job' = job => Keeping
    BY DEF Keeping, Holds
  <2> QED BY <1>2, <2>1, <2>2, <2>3
<1>7. CASE \/ CommitReplay(h) \/ Refuse(h) \/ CreateVendor(h) \/ PatchVendor(h)
           \/ AskCertificate(h) \/ CancelRequest(h)
           \/ Unacceptable(h) \/ PdfHalfWritten(h)
  <2>1. ~Holds(h) /\ (Leave(h) \/ Reply(h))
    BY <1>7 DEF CommitReplay, Refuse, CreateVendor, PatchVendor, AskCertificate, CancelRequest,
                Commit, Unacceptable, PdfHalfWritten, Holds
  <2>2. Keeping
    BY <1>2, <1>4, <2>1
  <2> QED BY <1>7, <2>2
       DEF CommitReplay, Refuse, CreateVendor, PatchVendor, AskCertificate, CancelRequest,
           Commit, Unacceptable, PdfHalfWritten, PdfWritten, Submit, Removed, RemoveFails
<1>8. CASE Parsed(h)
  <2>1. [job[h] EXCEPT !.pc = "writing"].pc = "writing"
    BY <1>0 DEF Job
  <2>2. ~Holds(h) /\ (Reply(h) \/ Enter(h, [job[h] EXCEPT !.pc = "writing"]))
    BY <1>8 DEF Parsed, Holds
  <2>3. Keeping
    BY <1>2, <1>4, <2>1, <2>2
  <2> QED BY <1>8, <2>3 DEF Parsed, PdfWritten, Submit, Removed, RemoveFails
<1>9. CASE SubmitRolledBack(h)
  <2>1. ASSUME NEW x
        PROVE  /\ [job[h] EXCEPT !.pc = "removing", !.found = x].pc = "removing"
               /\ [job[h] EXCEPT !.pc = "removing", !.found = x].file = job[h].file
    BY <1>0 DEF Job
  <2>2. Holds(h) /\ \E x : Enter(h, [job[h] EXCEPT !.pc = "removing", !.found = x])
    BY <1>9 DEF SubmitRolledBack, Holds
  <2>3. PICK j : Enter(h, j) /\ j.pc = "removing" /\ j.file = job[h].file
    BY <2>1, <2>2
  <2>4. Keeping
    BY <1>3, <2>2, <2>3
  <2>5. CASE Submit(h)
    BY <1>5, <2>5
  <2> QED BY <1>9, <2>4, <2>5 DEF SubmitRolledBack, PdfWritten, Removed, RemoveFails
<1>10. CASE Finish(h)
  <2>1. [job[h] EXCEPT !.slot = FALSE].pc = job[h].pc
    BY <1>0 DEF Job
  <2>2. ~Holds(h) /\ Enter(h, [job[h] EXCEPT !.slot = FALSE])
        /\ job[h].pc \notin {"stored", "removing"}
    BY <1>10 DEF Finish, Holds
  <2>3. Keeping
    BY <1>2, <2>1, <2>2
  <2> QED BY <1>10, <2>3 DEF Finish, PdfWritten, Submit, Removed, RemoveFails
<1>11. CASE Close(h)
  <2> DEFINE j == [job[h] EXCEPT !.slot = FALSE, !.closed = TRUE]
  <2>1. j.pc = job[h].pc /\ j.file = job[h].file
    BY <1>0 DEF Job
  <2>2. (~Holds(h) /\ Leave(h)) \/ Enter(h, j)
    BY <1>11 DEF Close, Holds
  <2> HIDE DEF j
  <2>3. Keeping
    <3>1. CASE Enter(h, j) /\ Holds(h)
      BY <1>3, <2>1, <3>1 DEF Holds
    <3>2. CASE Enter(h, j) /\ ~Holds(h)
      BY <1>2, <2>1, <3>2 DEF Holds
    <3>3. CASE ~Holds(h) /\ Leave(h)
      BY <1>2, <1>4, <3>3
    <3> QED BY <2>2, <3>1, <3>2, <3>3
  <2>4. CASE PdfWritten(h) \/ Submit(h) \/ Removed(h) \/ RemoveFails(h)
    BY <1>5, <2>4
  <2> QED BY <2>3, <2>4
<1> QED BY <1>5, <1>6, <1>7, <1>8, <1>9, <1>10, <1>11 DEF Handle

\* Rows that are no uploads have no file, and closing one keeps its file.
LEMMA RowFilesStep ==
    ASSUME TypeInv, FilesInv, [Next]_vars, \A h \in Handlers : ~Submit(h)
    PROVE  RowFiles' = RowFiles /\ \A q, r \in row' : q.file = r.file /\ q.file # 0 => q = r
<1>0. \A q, r \in row : q.file = r.file /\ q.file # 0 => q = r
  BY DEF FilesInv
<1>1. ASSUME NEW f, Rewritten(row, f), row' = Rewriting(row, f)
      PROVE  RowFiles' = RowFiles /\ \A q, r \in row' : q.file = r.file /\ q.file # 0 => q = r
  <2>1. row' = {f[r] : r \in row} /\ \A r \in row : f[r].file = r.file
    BY <1>1 DEF Rewritten, Rewriting
  <2>2. {r.file : r \in row'} = {r.file : r \in row}
    BY <2>1
  <2>3. ASSUME NEW q \in row, NEW r \in row, f[q].file = f[r].file, f[q].file # 0
        PROVE  f[q] = f[r]
    BY <1>0, <2>1, <2>3
  <2>4. \A q, r \in row' : q.file = r.file /\ q.file # 0 => q = r
    BY <2>1, <2>3
  <2> QED BY <2>2, <2>4 DEF RowFiles
<1>2. ASSUME NEW h \in Handlers, CreateVendor(h) \/ AskCertificate(h)
      PROVE  RowFiles' = RowFiles /\ \A q, r \in row' : q.file = r.file /\ q.file # 0 => q = r
  <2>1. ASSUME NEW c, NEW at PROVE NewRow(c, at, 0).file = 0
    BY DEF NewRow
  <2>2. \E c, at : row' = row \cup {NewRow(c, at, 0)}
    BY <1>2 DEF CreateVendor, AskCertificate
  <2>3. PICK n : row' = row \cup {n} /\ n.file = 0
    BY <2>1, <2>2
  <2> QED BY <1>0, <2>3 DEF RowFiles
<1> QED BY <1>1, <1>2, RowStep

\* A fault leaves at most the files of the handlers behind.
LEMMA LeftBounded ==
    ASSUME TypeInv, FilesInv, NEW X, IsFiniteSet(X), Cardinality(X) <= Cardinality(Handlers),
           Left' \subseteq Left \cup X, faults' = faults + 1
    PROVE  Cardinality(Left') <= faults' * Cardinality(Handlers)
<1> DEFINE n == Cardinality(Handlers)
<1>1. IsFiniteSet(Left) /\ n \in Nat /\ faults \in Nat
  BY FS_Subset, FS_CardinalityType, NumberAssumption DEF TypeInv, Left
<1>2. IsFiniteSet(Left \cup X) /\ Cardinality(Left \cup X) <= Cardinality(Left) + Cardinality(X)
  <2>1. Cardinality(Left \cup X) = Cardinality(Left) + Cardinality(X) - Cardinality(Left \cap X)
    BY <1>1, FS_Union
  <2>2. IsFiniteSet(Left \cap X) /\ IsFiniteSet(Left \cup X)
    BY <1>1, FS_Intersection, FS_Union
  <2>3. /\ Cardinality(Left \cap X) \in Nat /\ Cardinality(Left) \in Nat
        /\ Cardinality(X) \in Nat
    BY <1>1, <2>2, FS_CardinalityType
  <2> QED BY <2>1, <2>2, <2>3
<1>3. Cardinality(Left') <= Cardinality(Left \cup X) /\ IsFiniteSet(Left')
  BY <1>2, FS_Subset
<1>4. /\ Cardinality(Left') \in Nat /\ Cardinality(Left \cup X) \in Nat
      /\ Cardinality(Left) \in Nat /\ Cardinality(X) \in Nat
  BY <1>1, <1>2, <1>3, FS_CardinalityType
<1>5. Cardinality(Left) <= faults * n
  BY DEF FilesInv
<1>6. (faults + 1) * n = faults * n + n /\ faults * n \in Nat
  BY <1>1
<1> HIDE DEF n
<1>7. Cardinality(Left') <= faults * n + n
  BY <1>1, <1>2, <1>3, <1>4, <1>5, <1>6 DEF n
<1> QED BY <1>6, <1>7 DEF n

\* One file is no more than one handler.
LEMMA OneHandler ==
    ASSUME NEW h \in Handlers, NEW x
    PROVE  IsFiniteSet({x}) /\ Cardinality({x}) <= Cardinality(Handlers)
<1>1. IsFiniteSet(Handlers) /\ Handlers # {} /\ Cardinality(Handlers) \in Nat
  BY NumberAssumption, FS_CardinalityType
<1>2. Cardinality(Handlers) # 0
  BY <1>1, FS_EmptySet
<1>3. IsFiniteSet({x}) /\ Cardinality({x}) = 1
  BY FS_Singleton
<1> QED BY <1>1, <1>2, <1>3

\* Where uploads keep what they hold, what is held stays.
LEMMA KeepingHeld ==
    ASSUME TypeInv, FilesInv, Keeping
    PROVE  /\ Held' = Held
           /\ \A h, g \in Handlers : Holds(h)' /\ Holds(g)' /\ job'[h].file = job'[g].file => h = g
BY DEF Keeping, Held, Holds, FilesInv

\* Where one lets go, only its file is no longer held.
LEMMA LettingGoHeld ==
    ASSUME TypeInv, FilesInv, NEW h \in Handlers, LettingGo(h)
    PROVE  /\ Held' = Held \ {job[h].file} /\ job[h].file \in Held
           /\ \A i, g \in Handlers : Holds(i)' /\ Holds(g)' /\ job'[i].file = job'[g].file => i = g
<1>1. \A i, g \in Handlers : Holds(i) /\ Holds(g) /\ job[i].file = job[g].file => i = g
  BY DEF FilesInv
<1>2. /\ Holds(h) /\ ~Holds(h)'
      /\ \A g \in Handlers : Holds(g)' => g # h /\ Holds(g) /\ job'[g].file = job[g].file
      /\ \A g \in Handlers : Holds(g) /\ g # h => Holds(g)' /\ job'[g].file = job[g].file
  BY DEF LettingGo, Holds
<1>3. Held' = Held \ {job[h].file}
  BY <1>1, <1>2 DEF Held
<1> QED BY <1>1, <1>2, <1>3 DEF Held

\* The transaction of an upload turns its file into a row's.
LEMMA SubmitFiles ==
    ASSUME TypeInv, FilesInv, NEW h \in Handlers, Submit(h), LettingGo(h)
    PROVE  FilesInv'
<1> DEFINE f == job[h].file
           n == NewRow(job[h].call, job[h].at, f)
<1>1. /\ files' = files /\ faults' = faults /\ row' = row \cup {n} /\ n.file = f
  BY DEF Submit, NewRow
<1>2. f # 0
  BY DEF Submit, TypeInv, JobFits
<1>3. /\ Held' = Held \ {f} /\ f \in Held
      /\ \A i, g \in Handlers : Holds(i)' /\ Holds(g)' /\ job'[i].file = job'[g].file => i = g
  BY LettingGoHeld
<1>4. f \in files \ RowFiles
  BY <1>3 DEF FilesInv
<1> HIDE DEF f, n
<1>5. RowFiles' = RowFiles \cup {f}
  BY <1>1, <1>2 DEF RowFiles
<1>6. \A q, r \in row' : q.file = r.file /\ q.file # 0 => q = r
  <2>1. \A r \in row : r.file # f
    BY <1>2, <1>4 DEF RowFiles
  <2> QED BY <1>1, <2>1 DEF FilesInv
<1>7. Left' = Left
  BY <1>1, <1>3, <1>4, <1>5 DEF Left
<1> QED BY <1>1, <1>3, <1>4, <1>5, <1>6, <1>7 DEF FilesInv

\* A crash drops what the uploads of a process hold.
LEMMA CrashFiles ==
    ASSUME TypeInv, FilesInv, NEW p \in Processes, Crash(p)
    PROVE  FilesInv'
<1>1. /\ files' = files /\ row' = row /\ RowFiles' = RowFiles /\ faults' = faults + 1
  BY DEF Crash, stores, RowFiles
<1>2. \A g \in Handlers : Holds(g)' => Holds(g) /\ job'[g].file = job[g].file
  BY DEF Crash, Holds, NoJob
<1>3. Held' \subseteq Held
  BY <1>2 DEF Held
<1>4. \A h, g \in Handlers : Holds(h)' /\ Holds(g)' /\ job'[h].file = job'[g].file => h = g
  BY <1>2 DEF FilesInv
<1>5. IsFiniteSet(Held) /\ Cardinality(Held) <= Cardinality(Handlers)
  <2> DEFINE S == {g \in Handlers : Holds(g)}
             f == [g \in S |-> job[g].file]
  <2>1. IsFiniteSet(S) /\ Cardinality(S) <= Cardinality(Handlers)
    BY FS_Subset, NumberAssumption
  <2>2. f = [g \in S |-> f[g]] /\ Held = {f[g] : g \in S}
    BY DEF Held
  <2> HIDE DEF f, S
  <2>3. IsFiniteSet(Held) /\ Cardinality(Held) <= Cardinality(S)
    BY <2>1, <2>2, ImageSmaller
  <2>4. Cardinality(Held) \in Nat /\ Cardinality(S) \in Nat /\ Cardinality(Handlers) \in Nat
    BY <2>1, <2>3, FS_CardinalityType, NumberAssumption
  <2> QED BY <2>1, <2>3, <2>4
<1>6. Left' \subseteq Left \cup Held
  BY <1>1 DEF Left
<1>7. Cardinality(Left') <= faults' * Cardinality(Handlers)
  BY <1>1, <1>5, <1>6, LeftBounded
<1> QED BY <1>1, <1>3, <1>4, <1>7 DEF FilesInv

\* Every step keeps files and rows together.
LEMMA FilesStep == TypeInv /\ FilesInv /\ [Next]_vars => FilesInv'
<1> SUFFICES ASSUME TypeInv, FilesInv, [Next]_vars PROVE FilesInv'
  OBVIOUS
<1> DEFINE Apart == \A h, g \in Handlers : Holds(h)' /\ Holds(g)' /\ job'[h].file = job'[g].file => h = g
           Unique == \A q, r \in row' : q.file = r.file /\ q.file # 0 => q = r
           Bounded == Cardinality(Left') <= faults' * Cardinality(Handlers)
<1>0. /\ RowFiles \subseteq files /\ Held \subseteq files \ RowFiles
      /\ Cardinality(Left) <= faults * Cardinality(Handlers)
      /\ (RowFiles' \subseteq files' /\ Held' \subseteq files' \ RowFiles' /\ Apart /\ Unique /\ Bounded
            => FilesInv')
  BY DEF FilesInv
<1>1. ASSUME NEW h \in Handlers, Submit(h) PROVE FilesInv'
  <2>1. ~PdfWritten(h)
    BY <1>1 DEF Submit, PdfWritten
  <2>2. LettingGo(h)
    BY <1>1, <2>1, HoldStep DEF Handle
  <2> QED BY <1>1, <2>2, SubmitFiles
<1>2. ASSUME NEW p \in Processes, Crash(p) PROVE FilesInv'
  BY <1>2, CrashFiles
<1>3. ASSUME \A h \in Handlers : ~Submit(h) PROVE RowFiles' = RowFiles /\ Unique
  BY <1>3, RowFilesStep
<1>4. ASSUME \A h \in Handlers : ~Submit(h), Keeping, files' = files, faults' = faults
      PROVE  FilesInv'
  <2>1. RowFiles' = RowFiles /\ Unique /\ Held' = Held /\ Apart
    BY <1>3, <1>4, KeepingHeld
  <2>2. Left' = Left
    BY <1>4, <2>1 DEF Left
  <2> QED BY <1>0, <1>4, <2>1, <2>2
<1>5. ASSUME NEW h \in Handlers, Handle(h), \A g \in Handlers : ~Submit(g) PROVE FilesInv'
  <2>0. RowFiles' = RowFiles /\ Unique
    BY <1>3, <1>5
  <2>1. CASE PdfWritten(h)
    <3> DEFINE j == [job[h] EXCEPT !.pc = "stored", !.file = NewFile]
    <3>1. NewFile \notin files /\ files' = files \cup {NewFile} /\ faults' = faults /\ Enter(h, j)
      BY <2>1, NewFileIsNew DEF PdfWritten
    <3>2. j.pc = "stored" /\ j.file = NewFile
      BY DEF TypeInv, Job
    <3> HIDE DEF j
    <3>3. job'[h] = j /\ \A g \in Handlers \ {h} : job'[g] = job[g]
      BY <3>1 DEF Enter, TypeInv
    <3>4. ~Holds(h) /\ Holds(h)' /\ \A g \in Handlers \ {h} : Holds(g)' <=> Holds(g)
      BY <2>1, <3>2, <3>3 DEF PdfWritten, Holds
    <3>5. \A g \in Handlers : Holds(g) => job[g].file \in files
      BY <1>0 DEF Held
    <3>6. Apart
      BY <3>1, <3>2, <3>3, <3>4, <3>5 DEF FilesInv
    <3>7. Held' = Held \cup {NewFile}
      <4>1. ASSUME NEW x \in Held' PROVE x \in Held \cup {NewFile}
        BY <3>2, <3>3, <3>4, <4>1 DEF Held
      <4>2. ASSUME NEW x \in Held PROVE x \in Held'
        BY <3>3, <3>4 DEF Held
      <4>3. NewFile \in Held'
        BY <3>2, <3>3, <3>4 DEF Held
      <4> QED BY <4>1, <4>2, <4>3
    <3>8. Left' = Left
      BY <2>0, <3>1, <3>7, <1>0 DEF Left
    <3> QED BY <1>0, <2>0, <3>1, <3>6, <3>7, <3>8
  <2>2. CASE Removed(h)
    <3>1. LettingGo(h)
      <4>1. ~PdfWritten(h)
        BY <2>2 DEF Removed, PdfWritten
      <4> QED BY <1>5, <2>2, <4>1, HoldStep
    <3>2. Held' = Held \ {job[h].file} /\ job[h].file \in Held /\ Apart
      BY <3>1, LettingGoHeld
    <3>3. files' = files \ {job[h].file} /\ faults' = faults
      BY <2>2 DEF Removed, Discarded
    <3>4. Left' = Left
      BY <2>0, <3>2, <3>3 DEF Left
    <3> QED BY <1>0, <2>0, <3>2, <3>3, <3>4
  <2>3. CASE RemoveFails(h)
    <3>1. LettingGo(h)
      <4>1. ~PdfWritten(h)
        BY <2>3 DEF RemoveFails, PdfWritten
      <4> QED BY <1>5, <2>3, <4>1, HoldStep
    <3>2. Held' = Held \ {job[h].file} /\ job[h].file \in Held /\ Apart
      BY <3>1, LettingGoHeld
    <3>3. files' = files /\ faults' = faults + 1
      BY <2>3 DEF RemoveFails, stores
    <3>4. Left' \subseteq Left \cup {job[h].file}
      BY <2>0, <3>2, <3>3 DEF Left
    <3>5. Bounded
      BY <3>3, <3>4, OneHandler, LeftBounded
    <3> QED BY <1>0, <2>0, <3>2, <3>3, <3>5
  <2>4. CASE PdfHalfWritten(h)
    <3>1. Keeping
      <4>1. ~PdfWritten(h) /\ ~Removed(h) /\ ~RemoveFails(h)
        BY <2>4 DEF PdfHalfWritten, PdfWritten, Removed, RemoveFails, TypeInv
      <4> QED BY <1>5, <4>1, HoldStep
    <3>2. Held' = Held /\ Apart
      BY <3>1, KeepingHeld
    <3>3. files' = files \cup {NewFile} /\ faults' = faults + 1
      BY <2>4 DEF PdfHalfWritten
    <3>4. Left' \subseteq Left \cup {NewFile}
      BY <2>0, <3>2, <3>3 DEF Left
    <3>5. Bounded
      BY <3>3, <3>4, OneHandler, LeftBounded
    <3> QED BY <1>0, <2>0, <3>2, <3>3, <3>5
  <2>5. ASSUME ~PdfWritten(h), ~Removed(h), ~RemoveFails(h), ~PdfHalfWritten(h)
        PROVE  FilesInv'
    <3>1. Keeping
      BY <1>5, <2>5, HoldStep
    <3>2. files' = files /\ faults' = faults
      BY <1>5, <2>5
         DEF Handle, Arrive, Admit, CommitReplay, Refuse, CreateVendor, PatchVendor,
             AskCertificate, CancelRequest, Parsed, Unacceptable, SubmitRolledBack, Finish, Close,
             Commit, stores
    <3> QED BY <1>4, <1>5, <3>1, <3>2
  <2> QED BY <2>1, <2>2, <2>3, <2>4, <2>5
<1>6. CASE UNCHANGED <<job, files, faults, row>>
  <2>1. RowFiles' = RowFiles /\ Held' = Held /\ Left' = Left
    BY <1>6 DEF RowFiles, Held, Holds, Left
  <2> QED BY <1>6, <2>1 DEF FilesInv, Holds
<1> QED BY <1>1, <1>2, <1>5, <1>6 DEF Next, ReadVendor, StaffReactivate, Tick, vars, stores

\* Every certificate has its file, shared with no other, and a fault leaves
\* at most one file of each handler behind.
THEOREM FilesMatched == Spec => []FilesMatchRows
<1>1. Init => FilesInv
  <2> SUFFICES ASSUME Init PROVE FilesInv
    OBVIOUS
  <2>1. RowFiles = {} /\ Held = {} /\ Left = {}
    BY DEF Init, RowFiles, Held, Holds, NoJob, Left
  <2>2. Cardinality(Handlers) \in Nat /\ Cardinality({}) = 0
    BY FS_CardinalityType, FS_EmptySet, NumberAssumption
  <2> QED BY <2>1, <2>2 DEF Init, FilesInv, Holds, NoJob
<1>2. TypeInv /\ FilesInv => FilesMatchRows
  <2> SUFFICES ASSUME TypeInv, FilesInv PROVE FilesMatchRows
    OBVIOUS
  <2> DEFINE left == {f \in files \ RowFiles : \A h \in Handlers : job[h].file # f}
  <2>1. left \subseteq Left /\ IsFiniteSet(Left)
    BY FS_Subset DEF Left, Held, TypeInv
  <2>2. Cardinality(left) <= Cardinality(Left) /\ IsFiniteSet(left)
    BY <2>1, FS_Subset
  <2>3. /\ Cardinality(left) \in Nat /\ Cardinality(Left) \in Nat
        /\ Cardinality(Handlers) \in Nat /\ faults \in Nat
    BY <2>1, <2>2, FS_CardinalityType, NumberAssumption DEF TypeInv
  <2>4. Cardinality(Left) <= faults * Cardinality(Handlers) /\ faults * Cardinality(Handlers) \in Nat
    BY <2>3 DEF FilesInv
  <2> HIDE DEF left
  <2>5. Cardinality(left) <= faults * Cardinality(Handlers)
    BY <2>2, <2>3, <2>4
  <2> QED BY <2>5 DEF FilesInv, FilesMatchRows, left
<1> QED BY <1>1, <1>2, TypeInit, TypeStep, FilesStep, PTL DEF Spec
=============================================================================
