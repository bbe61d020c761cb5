--------------------------- MODULE EvidenceBundle ---------------------------
(***************************************************************************)
(* The record of a certificate and its signed export: documents are taken  *)
(* in, confirmed with or without corrections, or rejected; each step is    *)
(* reported in the hash chain of the organization's audit events; and an   *)
(* export puts together the machine's proposal, the confirmed facts, the   *)
(* evidence, the rules and a checkpoint of the chain, lets the strict      *)
(* validator of bundles judge the whole, signs it and hands it out.        *)
(*                                                                         *)
(* The server is one process and answers one request after the other       *)
(* without an await, so that only the mail worker, a process of its own,   *)
(* which appends audit events about requests, comes between two statements *)
(* of an export, and between a change and the event that reports it.       *)
(*                                                                         *)
(* A policy carries at most one endorsement: a level and the pages that    *)
(* are said to show it.  Rows of before version 0.3 are among the initial  *)
(* ones: without a page count, a stored proposal or a ruleset.             *)
(***************************************************************************)
EXTENDS Naturals, Sequences, FiniteSets

CONSTANTS
    Certs,        \* certificates that may be stored
    Staff,        \* users who may review
    Outside,      \* an upload link or a service account
    Null,         \* NULL
    Submissions,  \* metadata sent with a document
    Corrections,  \* policies a reviewer may confirm instead
    PageCounts,   \* pages a PDF may have
    LegacyCert,   \* the certificate whose row is from before version 0.3, or Null
    MaxVersions,  \* bound of the publications of requirements
    MaxEvents,    \* bound of the audit events
    MaxBundles    \* bound of the bundles handed out

Policy ==
    [coverage : Nat, level : {"NONE", "MENTIONED", "SCHEDULED", "ATTACHED", "HUMAN_VERIFIED"},
     pages : SUBSET Nat]

\* shown: pages of the extraction, cites: the pages its citations name.
Submission ==
    [status : {"UNCONFIRMED", "CONFIRMED"}, shown : Nat, cites : SUBSET Nat,
     policies : Seq(Policy)]

\* sent: the proposal as it arrived, Null when its sender confirmed it.
Certificate ==
    [sent : Submission \cup {Null}, extraction : Submission, count : PageCounts \cup {Null},
     policies : Seq(Policy), status : {"draft", "confirmed", "superseded", "rejected"},
     by : Staff \cup {Null}, at : BOOLEAN, proposal : Submission \cup {Null},
     snapshot : [version : Nat, ruleset : Nat]]

ASSUME EvidenceAssumption ==
    /\ Outside \notin Staff /\ Null \notin Staff /\ Outside # Null /\ Null \notin Certs
    /\ Null \notin Submission /\ Null \notin Certificate /\ Null \notin Seq(Policy)
    /\ "request" \notin Certs
    /\ Submissions \subseteq Submission /\ Corrections \subseteq Seq(Policy)
    /\ PageCounts \subseteq Nat \ {0} /\ Null \notin PageCounts
    /\ {MaxVersions, MaxEvents, MaxBundles} \subseteq Nat

VARIABLES
    certs,    \* certificates with their documents and policies, Null where there is none
    rules,    \* version of the active requirements, 0 without
    chain,    \* audit_events of the organization
    key,      \* the active evidence signing key
    job,      \* what the server process is at, Null between two requests
    bundles   \* the bundles handed out

evidenceVars == <<certs, rules, chain, key, job, bundles>>

-----------------------------------------------------------------------------
(* Policies, submissions and what the schemas ask of them.                 *)

Strong(p) == p.level \in {"ATTACHED", "HUMAN_VERIFIED"}

\* Pages are numbered from 1 without gaps; citations and endorsements name shown pages.
CitesWhatItShows(s) == s.cites \subseteq 1..s.shown

StoredParses(s) ==
    /\ CitesWhatItShows(s)
    /\ \A i \in DOMAIN s.policies : s.shown > 0 => s.policies[i].pages \subseteq 1..s.shown

CorrectionParses(policies) ==
    \A i \in DOMAIN policies : Strong(policies[i]) => policies[i].pages # {}

SubmissionParses(s) ==
    /\ StoredParses(s) /\ CorrectionParses(s.policies)
    /\ \A i \in DOMAIN s.policies : s.policies[i].pages # {} => s.shown > 0

\* As if only the pages of the extraction were compared.
WithinShownPages(s, count) == count # Null => s.shown <= count /\ CorrectionParses(s.policies)

\* count: the pages the server found in the PDF, Null for a row that never recorded them.
WithinSourceDocument(s, count) ==
    IF count = Null
    THEN \A i \in DOMAIN s.policies : s.policies[i].pages = {} /\ ~Strong(s.policies[i])
    ELSE /\ s.shown <= count
         /\ CorrectionParses(s.policies)
         /\ \A i \in DOMAIN s.policies : s.policies[i].pages \subseteq 1..count

\* Policies are read back by coverage type and then by an identifier drawn at random.
ReadBack(policies) ==
    {q \in [DOMAIN policies -> {policies[i] : i \in DOMAIN policies}] :
        /\ \A i, j \in DOMAIN q : i < j => q[i].coverage <= q[j].coverage
        /\ \E g \in [DOMAIN q -> DOMAIN q] :
              /\ \A i, j \in DOMAIN q : i # j => g[i] # g[j]
              /\ \A i \in DOMAIN q : q[i] = policies[g[i]]}

-----------------------------------------------------------------------------
(* The audit chain.  The hash of an event is its content and the hash      *)
(* before it: equal hashes mean equal histories.                           *)

Genesis == <<>>
Hash(e) == <<e.sequence, e.action, e.about, e.previous>>

HeadHash(history) == IF history = <<>> THEN Genesis ELSE Hash(history[Len(history)])

\* As if each subject had a chain of its own.
AppendedBySubject(history, action, about) ==
    Append(history, [sequence |-> Len(history) + 1, action |-> action, about |-> about,
                     previous |-> HeadHash(SelectSeq(history, LAMBDA e : e.about = about))])

Appended(history, action, about) ==
    Append(history, [sequence |-> Len(history) + 1, action |-> action, about |-> about,
                     previous |-> HeadHash(history)])

Links(history, n) ==
    /\ history[n].sequence = n
    /\ history[n].previous = HeadHash(SubSeq(history, 1, n - 1))

\* valid and checkedEvents of verifyAuditChain.
Verification(history) ==
    LET broken == {n \in DOMAIN history : ~Links(history, n)} IN
    IF broken = {} THEN [valid |-> TRUE, checked |-> Len(history)]
    ELSE [valid |-> FALSE, checked |-> (CHOOSE n \in broken : \A k \in broken : n <= k) - 1]

-----------------------------------------------------------------------------
NoSnapshot == [version |-> 0, ruleset |-> 0]

LegacyRow(s, status, by) ==
    [sent |-> IF status = "draft" THEN s ELSE Null, extraction |-> s, count |-> Null,
     policies |-> s.policies, status |-> status, by |-> by, at |-> by # Null,
     proposal |-> Null, snapshot |-> NoSnapshot]

\* Drafts and confirmations as an earlier version left them.
LegacyRows ==
    {LegacyRow(s, "draft", Null) : s \in {t \in Submissions : t.status = "UNCONFIRMED"}}
        \cup {LegacyRow(s, "confirmed", u) : s \in Submissions, u \in Staff}

EvidenceInit ==
    /\ certs \in {f \in [Certs -> LegacyRows \cup {Null}] :
                     \A c \in Certs : f[c] = Null <=> c # LegacyCert}
    /\ rules = 0 /\ chain = <<>> /\ key = Null /\ job = Null /\ bundles = <<>>

Idle == job = Null /\ Len(chain) < MaxEvents

\* The event reporting a change is appended by itself, once the change is committed.
Report(action, about) == job' = [step |-> "report", action |-> action, about |-> about]

-----------------------------------------------------------------------------
(* The life of a certificate.                                              *)

\* With no active requirements there is a vendor type but neither version nor ruleset.
Evaluated == [version |-> rules, ruleset |-> rules]

Publish ==
    /\ Idle
    /\ rules < MaxVersions
    /\ rules' = rules + 1
    /\ Report("requirements.published", Null)
    /\ UNCHANGED <<certs, chain, key, bundles>>

\* Whatever comes from outside is unconfirmed.
ParsedAsSent(s, by) == s
Parsed(s, by) == IF by = Outside THEN [s EXCEPT !.status = "UNCONFIRMED"] ELSE s

Proposal(s) == IF s.status = "UNCONFIRMED" THEN s ELSE Null

\* A handler of staff reports after the transaction, links and the API within it.
Ingest(c, sent, by, count) ==
    LET s == Parsed(sent, by)
        confirmed == s.status = "CONFIRMED"
        known == confirmed /\ by # Outside IN
    /\ Idle /\ certs[c] = Null
    /\ SubmissionParses(s) /\ WithinSourceDocument(s, count)
    /\ \E stored \in ReadBack(s.policies) :
          certs' = [certs EXCEPT ![c] =
              [sent |-> IF known THEN Null ELSE s, extraction |-> s,
               count |-> count, policies |-> stored,
               status |-> IF confirmed THEN "confirmed" ELSE "draft",
               by |-> IF known THEN by ELSE Null, at |-> known,
               proposal |-> Proposal(s), snapshot |-> Evaluated]]
    /\ IF by = Outside
       THEN chain' = Appended(chain, "certificate.uploaded", c) /\ job' = Null
       ELSE chain' = chain /\ Report("certificate.uploaded", c)
    /\ UNCHANGED <<rules, key, bundles>>

\* The proposal that is kept: the stored one, else the extraction as it was.
Snapshot(x) == IF x.proposal # Null THEN x.proposal ELSE x.extraction

\* policies: the corrected ones, or those of the extraction.
Confirm(c, by, policies) ==
    LET x == certs[c]
        s == [x.extraction EXCEPT !.policies = policies, !.status = "CONFIRMED"] IN
    /\ Idle /\ x # Null /\ x.status = "draft"
    /\ policies # x.extraction.policies => CorrectionParses(policies)
    /\ StoredParses(s) /\ WithinSourceDocument(s, x.count)
    /\ \E stored \in ReadBack(policies) :
          certs' = [certs EXCEPT ![c] =
              [x EXCEPT !.extraction = s, !.policies = stored, !.status = "confirmed",
                        !.by = by, !.at = TRUE, !.proposal = Snapshot(x),
                        !.snapshot = Evaluated]]
    /\ Report("certificate.confirmed", c)
    /\ UNCHANGED <<rules, chain, key, bundles>>

Reject(c) ==
    /\ Idle /\ certs[c] # Null /\ certs[c].status = "draft"
    /\ certs' = [certs EXCEPT ![c].status = "rejected"]
    /\ Report("certificate.rejected", c)
    /\ UNCHANGED <<rules, chain, key, bundles>>

AppendReport ==
    /\ job # Null /\ job.step = "report"
    /\ chain' = Appended(chain, job.action, job.about)
    /\ job' = Null
    /\ UNCHANGED <<certs, rules, key, bundles>>

-----------------------------------------------------------------------------
(* The export.                                                             *)

HumanConfirmed(x) == x.status \in {"confirmed", "superseded"}

\* A stored proposal; without one, the extraction, unless that holds confirmed facts.
MachineProposalOrFacts(x) == IF x.proposal # Null THEN x.proposal ELSE x.extraction

MachineProposal(x) ==
    IF x.proposal # Null THEN x.proposal
    ELSE IF HumanConfirmed(x) THEN Null ELSE x.extraction

CitationViews(x) ==
    {[page |-> n, attested |-> HumanConfirmed(x) /\ x.count # Null /\ n <= x.count] :
        n \in x.extraction.cites}

Attestable(x, i) ==
    /\ HumanConfirmed(x) /\ x.count # Null
    /\ x.policies[i].pages # {} /\ x.policies[i].pages \subseteq 1..x.count

Attestations(x) ==
    {[policy |-> i, level |-> x.policies[i].level, pages |-> x.policies[i].pages,
      by |-> x.by, at |-> x.at] : i \in {j \in DOMAIN x.policies : Attestable(x, j)}}

\* Rules are quoted only where the row recorded the ruleset it was evaluated with.
RequirementSnapshot(x) ==
    IF x.snapshot.version # 0 /\ x.snapshot.ruleset # 0 THEN x.snapshot ELSE Null

Payload(c, x) ==
    [certificate |-> c, status |-> x.status, reviewedBy |-> x.by, reviewedAt |-> x.at,
     requirementVersion |-> x.snapshot.version,
     machineProposal |-> MachineProposal(x),
     confirmedFacts |-> IF HumanConfirmed(x) THEN x.policies ELSE Null,
     citations |-> CitationViews(x), attestations |-> Attestations(x),
     requirementSnapshot |-> RequirementSnapshot(x)]

\* The row, its view, the proposal and the rules: nothing the worker writes.
StartExport(c) ==
    /\ Idle /\ Len(bundles) < MaxBundles
    /\ certs[c] # Null
    /\ key' = IF key = Null THEN "key" ELSE key   \* INSERT OR IGNORE, then read again
    /\ job' = [step |-> "verify", payload |-> Payload(c, certs[c])]
    /\ UNCHANGED <<certs, rules, chain, bundles>>

VerifyChain ==
    /\ job # Null /\ job.step = "verify"
    /\ job' = [step |-> "head", payload |-> job.payload, verification |-> Verification(chain),
               overtaken |-> FALSE]
    /\ UNCHANGED <<certs, rules, chain, key, bundles>>

NoHead == [sequence |-> 0, hash |-> Genesis]

HeadRow(history) ==
    IF history = <<>> THEN NoHead
    ELSE [sequence |-> history[Len(history)].sequence, hash |-> HeadHash(history)]

ReadHead ==
    /\ job # Null /\ job.step = "head"
    /\ job' = [step |-> "events", payload |-> job.payload, verification |-> job.verification,
               overtaken |-> job.overtaken, head |-> HeadRow(chain)]
    /\ UNCHANGED <<certs, rules, chain, key, bundles>>

\* The rows are read in the order of their numbers.
Related(history, c) == {history[n] : n \in {k \in DOMAIN history : history[k].about = c}}

ReadEvents ==
    /\ job # Null /\ job.step = "events"
    /\ job' = [step |-> "judge", payload |-> job.payload, overtaken |-> job.overtaken,
               audit |-> [verification |-> job.verification, head |-> job.head,
                          events |-> Related(chain, job.payload.certificate)]]
    /\ UNCHANGED <<certs, rules, chain, key, bundles>>

-----------------------------------------------------------------------------
(* The strict validator of payloads, which the exporter and every verifier *)
(* of a bundle apply.                                                      *)

ReviewAgrees(p) ==
    /\ (p.status \in {"confirmed", "superseded"}) <=> (p.confirmedFacts # Null)
    /\ (p.reviewedBy # Null) <=> p.reviewedAt

Reviewed(p) == p.status \in {"confirmed", "superseded"} /\ p.reviewedBy # Null

CitationsAgree(p) == \A e \in p.citations : e.attested => Reviewed(p)

AttestationsAgree(p) ==
    \A e \in p.attestations :
        /\ Reviewed(p)
        /\ e.by = p.reviewedBy /\ e.at = p.reviewedAt
        /\ e.policy \in DOMAIN p.confirmedFacts
        /\ p.confirmedFacts[e.policy].level = e.level
        /\ p.confirmedFacts[e.policy].pages = e.pages

RulesAgree(p) ==
    p.requirementSnapshot # Null => p.requirementSnapshot.version = p.requirementVersion

RecordAgrees(p) ==
    ReviewAgrees(p) /\ CitationsAgree(p) /\ AttestationsAgree(p) /\ RulesAgree(p)

AuditAgrees(a) ==
    /\ \A e, f \in a.events : e.sequence > 0 /\ (e.sequence = f.sequence => e = f)
    /\ a.verification.valid =>
          IF a.verification.checked = 0 THEN a.head = NoHead
          ELSE a.head # NoHead /\ a.head.sequence = a.verification.checked

\* A refused export is an error of the server; nothing is handed out or reported.
HandOut ==
    /\ job # Null /\ job.step = "judge"
    /\ RecordAgrees(job.payload) /\ AuditAgrees(job.audit)
    /\ bundles' = Append(bundles, [record |-> job.payload, audit |-> job.audit, key |-> key])
    /\ Report("evidence_bundle.exported", job.payload.certificate)
    /\ UNCHANGED <<certs, rules, chain, key>>

Refuse ==
    /\ job # Null /\ job.step = "judge"
    /\ ~(RecordAgrees(job.payload) /\ AuditAgrees(job.audit))
    /\ job' = Null
    /\ UNCHANGED <<certs, rules, chain, key, bundles>>

-----------------------------------------------------------------------------
(* The other process, and the end of this one.                             *)

WorkerReports ==
    /\ Len(chain) + 1 < MaxEvents
    /\ chain' = Appended(chain, "certificate_request.email_accepted", "request")
    /\ job' = IF job # Null /\ job.step = "head" THEN [job EXCEPT !.overtaken = TRUE] ELSE job
    /\ UNCHANGED <<certs, rules, key, bundles>>

\* A crash of the server loses the report of a change that is already committed.
Crash ==
    /\ job # Null
    /\ job' = Null
    /\ UNCHANGED <<certs, rules, chain, key, bundles>>

EvidenceNext ==
    \/ Publish
    \/ \E c \in Certs, s \in Submissions, by \in Staff \cup {Outside}, n \in PageCounts :
          Ingest(c, s, by, n)
    \/ \E c \in Certs, by \in Staff :
          \/ Confirm(c, by, certs[c].extraction.policies)
          \/ \E policies \in Corrections : Confirm(c, by, policies)
    \/ \E c \in Certs : Reject(c) \/ StartExport(c)
    \/ AppendReport
    \/ VerifyChain \/ ReadHead \/ ReadEvents
    \/ HandOut \/ Refuse
    \/ WorkerReports
    \/ Crash

EvidenceSpec == EvidenceInit /\ [][EvidenceNext]_evidenceVars

-----------------------------------------------------------------------------
(* Properties.                                                             *)

\* Whatever happened to a certificate, its record is one the strict validator accepts;
\* an export is refused only when the worker appended an event between the
\* verification of the chain and the reading of its head.
SoundRecordsExport ==
    job # Null /\ job.step = "judge" =>
        RecordAgrees(job.payload) /\ (AuditAgrees(job.audit) \/ job.overtaken)

\* What a bundle calls attached or verified by a person is attested on pages the PDF has,
\* except in a row that was confirmed before page counts were recorded.
StrongIsAttested ==
    \A n \in DOMAIN bundles :
        LET b == bundles[n].record
            x == certs[b.certificate] IN
        b.confirmedFacts # Null /\ (x.count # Null \/ x.sent # Null) =>
            \A i \in DOMAIN b.confirmedFacts :
                Strong(b.confirmedFacts[i]) =>
                    \E e \in b.attestations :
                        /\ e.policy = i /\ e.pages = b.confirmedFacts[i].pages
                        /\ e.pages # {} /\ e.pages \subseteq 1..x.count

\* The proposal in a bundle is what arrived, never facts that a person entered.
ProposalIsOriginal ==
    \A n \in DOMAIN bundles :
        bundles[n].record.machineProposal = certs[bundles[n].record.certificate].sent

\* The checkpoint of a bundle handed out stays true of the chain for ever: the chain
\* verifies, has the head of the checkpoint in its place, and up to there no other event
\* about the certificate.
CheckpointsStand ==
    /\ Verification(chain).valid
    /\ \A n \in DOMAIN bundles :
          LET a == bundles[n].audit IN
          /\ a.verification.valid
          /\ IF a.head = NoHead THEN a.events = {}
             ELSE /\ a.head.sequence \in DOMAIN chain
                  /\ a.head.hash = Hash(chain[a.head.sequence])
                  /\ a.events = Related(SubSeq(chain, 1, a.head.sequence),
                                        bundles[n].record.certificate)
=============================================================================
