# OpenCOI: a verification project

OpenCOI tracks certificates of insurance: an organization keeps vendors,
publishes requirements, receives certificates from staff, from vendors through
upload links and from a machine API, evaluates and reviews them, grants
exceptions, sends invitations and reminders, and reports what happened through
an event outbox with webhooks. It is one Node.js server over SQLite, with
command-line workers that open the same database. Node runs one callback at a
time and SQLite one write transaction at a time, so what interleaves is the
segments between two `await`s of one process, and the transactions of several.
In front of it runs a client in the browser, whose requests overlap and get lost.

This directory holds TLA+ models of the parts where that matters, TLC runs that
check them on small instances, and TLAPS proofs that hold for every value of
their constants. Paths below are relative to the repository, `server/` being
`src/server/` and `client/` `src/client/`.

## Inventory

| Component | State | Operations | What is hard | What makes it correct |
| --- | --- | --- | --- | --- |
| Certificate requests (`services/certificateRequests.ts`) | `certificate_requests`, the encrypted upload token, the link each owns | create, cancel, claim, complete, submit, expire | two-minute leases, several workers, crashes around SMTP | closes once and for good; token stored only while a mail is due; mails bounded; the outbox agrees with the rows |
| Request mail worker (`services/certificateRequestDelivery.ts`) | one request in hand | claim, dispatch, record | the answer is awaited for up to 30 s and may come after the lease | only the lease holder records; every lease ends |
| Upload links and public upload (`http/routes.ts`, `services/certificates.ts`, `db.ts`) | `upload_links`, documents, certificates | create, revoke, check, consume | link checked, file stored, link consumed: staff act in between | no more than `max_uses`; nothing after revocation; a request is answered by its own link |
| Webhooks (`services/webhooks.ts`, `http/integrationAdminRoutes.ts`) | `webhook_endpoints`, `webhook_deliveries` | fan out, batch, claim, post, retry, release, replay | stale claims, endpoints disabled during DNS, replays during a post | at least once; attempts bounded; nothing stranded |
| Domain events (`services/domainEvents.ts`) | `domain_events`, numbered per organization | publish, list | written with the change it reports | one event per change; no gaps |
| Renewal reminders (`services/reminders.ts`, `db.ts`) | `reminders` | schedule, give up, claim, submit, record | overlapping cycles, deadlines that end a cycle | one row per key; mails bounded; every reminder settles |
| Machine API (`http/apiV1.ts`) | `api_idempotency_keys`, the rows it makes | look up, check, change, store, replay | two requests with one key, equal ETags, clients that hang up | the change is made once while its answer is kept; no update is lost |
| Review and requirements (`services/certificates.ts`, `http/routes.ts`) | certificates, policies, findings, requirement versions | ingest, confirm, reject, publish | evaluation against a ruleset that changes | findings belong to the version they name; a review is final |
| Exceptions (`db.ts`, `http/routes.ts`) | `exceptions` | request, decide | decided on an older view | two persons; only for an open failed finding |
| Compliance rules (`shared/rules.ts`) | none | evaluate | unconfirmed facts, limits added up, dates at their ends | nothing unconfirmed passes |
| Audit chain (`audit.ts`) | `audit_events` | append, list, verify | several writers; appended after some changes | verification accepts what was appended, for ever |
| Evidence bundles (`services/evidenceBundles.ts`, `shared/evidenceBundle.ts`) | signing keys; the rows it reads | assemble, validate, sign, hand out | rows of several versions; four reads without a transaction | no correction passes for the machine's proposal; the checkpoint stands |
| Sessions, OIDC, CSRF (`http/middleware.ts`, `auth/oidc.ts`, `db.ts`) | sessions, sign-in transactions, bindings | sign in, touch, rotate, revoke | tabs that share cookies, overlapping requests, a callback opened twice | one session per sign-in; nobody writes in another's name; nobody is locked out |
| Upload capacity (`http/uploadCapacity.ts`) | a counter per process | admit, release | two events release one slot | exactly the uploads under way |
| Storage (`storage.ts`) | PDF files | put, read, remove | crash or failure between file and row | a row's file exists |
| Schema and migrations (`migrations.ts`, `services/schema.ts`) | the ledger, the schema itself | plan, adopt, apply, record | several processes start at once and die anywhere; a rebuild outside the usual transaction | the ledger tells the truth; no row is lost; a sound file is never refused |
| Browser client (`client/review`, `client/pages`, `client/api.ts`) | forms and pages, tokens they were told of | read a document, edit, send, correct, decide | results that arrive after their document was replaced; lost answers; several reviewers | what is stored is what was shown |
| Projections (`services/projections.ts`) | none | status of a vendor, in two queries | two formulations of one notion | they agree |
| Text recognition and parsing, configuration, benchmark | none of their own, or set once | - | - | not modelled; see below |

They meet in the database. Routes and the machine API write rows and publish
events in one transaction; publication fans out to webhook deliveries in that
same transaction; workers poll the rows, await the network and come back with a
compare-and-set on the claim they hold. Every process migrates the file before it
serves. The client sends what its forms hold and keeps
the CSRF token and person it was told of. The complete list of what can go wrong
at which line, with the properties that cover it, is `hazards` in
`PROJECT.json`.

## The modules

| Module | Role |
| --- | --- |
| `CertificateRequests` | requests, links, public uploads and mail workers |
| `RequestContract` | what a request promises, with workers, leases and clock hidden |
| `CertificateRequestsProofs` | its proofs |
| `WebhookDelivery` | outbox fan-out, endpoints, delivery workers, replays |
| `DeliveryContract` | what a delivery promises |
| `ReminderDelivery` | reminders and the cycles over them |
| `DeliveryProofs` | proofs about `WebhookDelivery` and `ReminderDelivery` |
| `ComplianceRules` | the evaluation of a document against requirements |
| `CertificateReview` | requirement versions, certificates, exceptions, the status of a vendor |
| `CertificateReviewProofs` | its proofs |
| `MachineApi` | idempotency keys, conditional updates, uploads and mail limits of the machine API |
| `IdempotencyContract` | what a key promises, with handlers, files and processes hidden |
| `MachineApiProofs` | its proofs |
| `SignIn` | sign-in, sessions and CSRF tokens, with the browsers' side |
| `SignInProofs` | its proofs |
| `Migrations` | starting on a database file of any age |
| `MigrationsProofs` | its proofs |
| `EvidenceBundle` | the record of a certificate, the audit chain, signed exports |
| `RecordProofs` | proofs about `ComplianceRules` and `EvidenceBundle` |
| `DocumentIntake` | the intake form and the detail page of the client |
| `DocumentIntakeProofs` | its proofs |
| `MC*` | values, definitions and symmetry for TLC |

Two pairs of components share a module of proofs, which extends both: they have no name in common (the initial
states and steps of `ReminderDelivery` and `EvidenceBundle` carry their own: `ReminderSpec`, `EvidenceSpec`), so each theorem is about the
specification it names, and the assumptions of both modules are visible to it.

### CertificateRequests

`req` and `link` are the two tables; a request and its link are created in one
transaction and share an identifier. `docs` holds the certificates stored
through each link, `upload` the public upload handlers in flight, `worker` the
mail workers, `active` the vendors that are active, `events` the outbox as a
count per request and type. `sends` is a history variable: the number of
`sendMail` calls.

Each action is one transaction or one segment between two awaits. The upload
handler is two: `BeginUpload` is the check in the route, then the PDF is
written, then `FinishUpload` or `RejectUpload` is the transaction of
`ingestCertificate`, which uses the instant read at the start and does not look
at the vendor again. A worker is three: `Claim` (the maintenance sweeps and the
claim are one transaction, so they are one action, `Maintained`), `Dispatch` (the
vendor is read again, then `sendMail` is called), and the answer. A claim token
is a random UUID in the code; here it is the attempt number, which is as unique
because attempts never decrease.

`Closed` is the one way out of the open state: the state changes, a due mail is
voided, the token and the claim are dropped. `VendorOf` fixes the vendor of a
request. Ties in `created_at` are broken by a random identifier in the code and
freely here.

The sweeps `Recovered` and `Orphaned` repair rows an older schema left behind.
The proof of `AnswerableAlways` shows they never apply to rows this code writes;
they are modelled all the same.

Left out: the rolling 24-hour limits on requests by mail, which only restrict
`CreateRequest` (those of the organization, 200, and the recipient, 5, are in `MachineApi`; that of
the creator, 30, is in neither); the worker's branch
for a missing organization, vendor or recipient, which foreign keys and checks of
the schema exclude; message text.

### WebhookDelivery

`row` holds the deliveries, one per event and endpoint, `endpoint` the status of
each endpoint, `published` the events, `worker` the batch each worker holds.
`posts`, `taken` and `replays` are histories: posts made, deliveries the receiver
took, replays asked for. Only ages and waits matter here, so a row holds the time
since its claim and until its next attempt, and `Tick` moves both; no clock has to
be bounded.

A batch recovers stale claims and reads its candidates (`StartBatch`), then claims
one at a time (`Claim`, or `Skip` when the row has changed). An attempt resolves
the target, an await; then either the endpoint is found disabled and the claim is
released with its attempt given back (`Release`), or the post leaves (`Post`, where
the receiver's verdict is free), and the outcome is recorded under the claim
(`Succeed`, `Fail`; a receiver that took a post may still be recorded as failed,
its answer lost). The claim token names the worker, which has one job at a time.

Left out: the limits of 50 and 100 rows per batch and their order (a worker may take
its candidates in any order), the screening of addresses, signatures, excerpts of
answers.

### ReminderDelivery

`reminder` holds one reminder per dedupe key, a certificate and the date printed on it.
Which notices the latest confirmed certificates call for, and which vendors have an
address while SMTP is configured, are inputs of `StartCycle`, chosen freely at every
cycle; `cycle` is what each cycle is at, `mails` a history of the mails sent. A cycle schedules, gives up exhausted claims, and reads the due rows; then it
claims, submits and records one after another. `TimeOut` is the 30-second deadline,
which the code rethrows: nothing is recorded and the cycle is over. An outcome whose
claim was lost ends the cycle as well (`Record`).

The code compares the instant of the claim and the attempt number; both are written by
one statement and the number never repeats, so the model compares the number. The
model has one organization: a cycle treats organizations one after another, and an
error drops those that follow as it drops the remaining reminders. `claimed` and
`sending` are separate control points although the code passes from one to the other
without awaiting, which only adds behaviours. Left out: the limit of 200 rows per
cycle, and the status `cancelled`, which no caller writes.

### ComplianceRules

`evaluateCompliance` is a pure function, so a behaviour takes one `case` (a profile, a document
and a date) and evaluates it. A fact is `None` or a value with its confirmation, a date a day
number, an amount a number of minor units up to `MaxMoney`, which stands for the largest safe
integer. Of a finding the status is kept; its code and texts follow from the branch. The
operators follow the code: the findings of one policy row (`PolicyFindings`), the choice among
rows (`Precedes`, `Selected`), the choice among umbrella rows (`StackedStatus`) and among endorsement
rows (`Best`), and the label (`Label`). Names and form codes stand for their normalised forms.
Left out: the validation of rulesets, whose outcome is the type `IsRequirement`, and a required
field listed twice, which the schema allows and the code reports twice.

Beside it stands what the result means: `Proven` says with quantifiers only that every required coverage
has one confirmed row that meets every demand, and every required endorsement confirmed evidence of
its level. The application confirms all facts of a document at once
(`services/certificates.ts:637-743`); the module, like the function, takes any mixture.

### CertificateReview

`vendorType`, `versions` and `active` are what certificates are held to: the type of each vendor, the
snapshots published for each type, and the rows of `coverage_requirements` in force. `certs` holds
certificates in the order of their upload, each with its verdict: the findings, by the requirement each was
made from, and the version, type and date stored in the document's extraction. `round` tells the findings of the
first evaluation from those of the second, which have new identifiers, so that an exception could be
left with none. `exc` holds the exceptions with the last event published of each.

Every handler here runs without an await and is one action, except the upload: `BeginUpload` reads the date and
starts the write of the file, `IngestCertificate` is the transaction that evaluates what it finds then.
`RejectCertificate` keeps the findings and voids the verdict. `DecideException` accepts any administrator for a
rejection or a revocation, and another than the requester for an approval, on pending and approved rows alike.

A requirement asks for an amount of one rule and gives one finding, where the code has several per coverage; a document
shows an amount of each rule until a day and leaves some rules unclear. `ComplianceRules` has what this stands for.
The status of a vendor is modelled twice, as the code has it: by the page (`CheckFor` of `LatestCertificate`) and by the query of
the list (`AggregateCheckStatus` of the rows of rank 1).

Left out: the upload link and its limits, which are in `CertificateRequests`; life cycle and counts of the views; statuses no
caller writes (`superseded`, `exception`, `expired`, `resolved`, `waived`). Two documents of one millisecond are ordered by a
random identifier in the code, in both queries alike, and by their storage here.

### MachineApi

`vendor` is the vendor the calls are about, as its ETag digests it, and `tag` what each client of a
`PATCH` read and sends as `If-Match`; `row` holds the vendors, certificates and requests made
through the API, `answer` the table `api_idempotency_keys`, `active` the capacity counter of each
process, `files` the document store and `job` the handler of each request in flight. `ever`
and `told` are histories: the changes each call made, the answers it was given. `serves` says which calls
each handler meets; it bounds a behaviour and stands for nothing in the code.

A JSON handler is two actions. `Arrive` looks the key up, answers from it, or checks what can be checked before the
transaction; then comes the transaction, which looks again (`CommitReplay`, `CreateVendor`,
`PatchVendor`, `AskCertificate`, `CancelRequest`, `Refuse`). Nothing of the same process comes between (`Free`), another
process may. An upload awaits four times: `Admit` takes a slot, `Parsed` or
`Unacceptable` ends the reading of the form, `PdfWritten` or `PdfHalfWritten` the write of the file, then follows the
transaction (`Submit`, `SubmitRolledBack`), and a file that is not needed is removed (`Removed`,
`RemoveFails`). The response's "finish" and "close" are `Finish` and `Close`; a client that hangs up leaves a handler
that goes on for nobody. An expired key is deleted by the next look-up; `Live` says what any look-up would see.

Left out: authentication and scopes (a request without them changes nothing), the
reading handlers with their pages and cursors, the
limit per creator, the key's digest of the request (calls with one key differ if and only if their requests do).

### SignIn

`session`, `transaction`, `bound`, `active` and `secret` are the tables `sessions`, `oidc_login_transactions`,
`oidc_identities`, `users` (their status) and `service_account_secrets`; `jar` the cookies of each browser, `tab` what the page in
each tab holds, `call` the requests in flight with the cookies they carry. Secrets of service accounts are what people write here:
each remembers who wrote it and whom the page showed.

A request is sent (`Load`, `Read`, `Write`, `Logout`, `Login`, `StartSso`, `Return`), looked up (`LookUpSession`,
`LookUpUser`, `LookUpTransaction`), carried out (`Serve`, `PasswordChecked`, `Begin`, `Consume`, `Exchange`) and answered
(`Deliver`). Look-up and write are apart although one Node process does not yield between most of them: the server may run as several
processes, and the database decides. `Consume` and `Exchange` are apart in any case, with the provider awaited between them. `Rotates` is
what the middleware decides for a request whose CSRF cookie is missing or old. `Heard` is what the page makes of an answer: of one to a
read only a failure, since the token a read replaced is known to the cookies alone. Random
tokens are names nobody holds: `RandomToken` avoids those in `Held`, the rows, cookies, pages and requests. Mishaps are requests or
answers lost, cookies and rows expired, users disabled.

Left out: roles, the status and scopes of service accounts, the record of the last use, the audit of sign-ins,
rate limits, and the protocol with the provider, whose outcome is one free step.

### Migrations

`disk` is the database file: the version of the foundation schema, the schema as a set of pieces, the ledger and its
`records`, the rows of the requirements table, and the rows that findings cite. `job` is what each process
is at. Starters are the server and the workers, checkers the read-only check. A transaction is one action
(`CreateLedger`, `Adopt`, `ApplyInTransaction`, `Record`, `Rebuild`), and so is each statement outside one: migration 2 owns
its transaction because it switches foreign keys off, and so is `Look`, `Rebuild`, `AddVersions`, `AddKeys`,
`Verify`, `Record`. A plan is `ReadLedger`, then `Plan` from the catalog. `Dies` stops a process anywhere; what it had committed
stays. A process that serves publishes requirements and evaluates certificates while others still start.

`sound` says whether the file was one that releases of OpenCOI leave behind. Left out: the comparison of the text
of the statements, checksums of the ledger (a file of another release is refused by its version), and backups.

### EvidenceBundle

`certs` holds each certificate with document, policies, evidence, proposal and the snapshot of rules it was judged by;
`chain` the audit events, `key` the active signing key, `bundles` what was handed out, `job` what the server process is at. `Ingest`,
`Confirm`, `Reject` and `Publish` are the transactions, each followed by
`AppendReport` where the code appends the audit event afterwards. An export is `StartExport`, `VerifyChain`, `ReadHead`, `ReadEvents`, then
the validator (`RecordAgrees`, `AuditAgrees`) decides between `HandOut` and `Refuse`. `WorkerReports` is another
process appending between any two of these. The hash of an event is modelled as the content it covers, so that equal hashes mean
equal histories. A row of before version 0.3 is among the initial states.

Left out: findings and exceptions in the payload, canonical JSON, the bytes and verification of signatures, and two
processes that create the first key at once.

### DocumentIntake

`form` is the state of the intake form, `task` the extractions that run, also those of a file that was replaced, `sent`
the submissions on their way, `certs` the stored certificates with the facts they hold, `page` the detail page of each
reviewer and `asked` the decisions on their way. Updates between two awaits take effect together. A text field is
blank, unreadable, or the numbers in it. `Form`, `PolicyDraft` and `CertificateDraft` are the types of the client's state, and
`IntakeAssumption` asks of `Parsed` what the parser's type promises; what the parser finds in a file is the constant `Parsed`, and the operators from
`FirstLimit` to `Facts` turn it into a draft, the draft into facts, and facts into the draft of the correction editor, as the code does.

The form: `Open`, `ChooseFile`, `ReadOn`, `ExtractionDone`, `ExtractionCancelled`, `ExtractionFails`, `Cancel`, `Edit`, `TickReviewed`, `Replace`,
`Submit`, `Leave`, and `ConnectionLost`, `Store`, `Refused` for its requests. The detail page: `LoadPage`, `Correct`, `ConfirmExtraction`,
`RejectSubmission`, `ClosePage`, with `Decide` and `TurnedAway` at the server.

Left out: the dialog for exceptions, downloads, the remaining pages, and the order in which policies are read back.

## The runs

Each property has a mutant, listed in `PROJECT.json`: a plausible bug in one mapped
definition that makes TLC refute the property under the same configuration.

| Run | Instance | Properties | Shows |
| --- | --- | --- | --- |
| `requests_lifecycle` | 1 request, 1 plain link, both living 3, 2 workers, 2 uploads, 2 attempts, lease 1, clock to 3 | `OpenRequestIsAnswerable`, `SubmittedByItsOwnLink`, `EventsMatchRows`, `TokenOnlyWhileMailDue`, `ImplementsContract`, `RequestEventuallyCloses` | overlapping workers, lost leases, crashes and retries against staff and overlapping uploads |
| `webhooks_delivery` | 1 event, 1 endpoint, 2 workers, 3 attempts, 2 replays | `NothingStranded`, `ImplementsContract`, `DeliverySettles` | stale claims, disablement, replays and late answers |
| `reminders_delivery` | 2 reminders, 2 cycles, 2 attempts, lease 2 | `MailBudget`, `SettledForGood`, `ReminderSettles` | overlapping cycles, deadlines, lost claims, crashes; a hanging reminder does not keep the others from settling |
| `reminders_backoff` | 1 reminder, 1 process that never dies, 3 attempts | `BackoffKept` (refuted) | see Findings |
| `rules_evaluation` | pairs of policy rows near a sufficient one; pairs of umbrella rows beside an insufficient row; pairs of endorsement rows; single rows before review | `NothingUnconfirmedDecides`, `CompliantIsProven`, `VerdictSurvivesReview`, `PolicyOrderIrrelevant` | the branches and selections of the code against the definition by quantifiers |
| `review_decisions` | 1 vendor, 2 types, 2 rules, 2 profiles, 3 documents, 2 administrators, 2 exceptions, 2 days; up to 2 certificates, 2 publications and 1 upload in flight | `VerdictReproducible`, `StatusIsEarned`, `ViewsAgree`, `EventsTellTheOutcome` | verdicts, exceptions and statuses under publications, changes of type, expiry and decisions in any order |
| `review_expiry` | 1 certificate, 1 publication, 1 exception, 2 days | `ApprovedIsInForce` (refuted) | see Findings |
| `machine_api` | 2 processes, 3 handlers, 9 scenarios of 1 to 3 calls, 3 keys, answers kept 2 ticks, capacity 1, limits 2 and 1, 1 fault, clock to 2 | `ImplementsContract`, `EveryEditOnceAndKept`, `CapacityExact`, `FilesMatchRows`, `MailLimits` | retried, concurrent and conflicting requests in two processes, or two uploads in one, with crashes, failed writes and clients that hang up |
| `sign_in` | 2 browsers, 3 tabs, 2 people, 2 subjects, 2 sessions, 2 transactions, 2 requests at once; people take turns, tabs race, two sign-ins, or one in two browsers | `SignInsAreSingleUse`, `SubjectsKeepTheirUser`, `WritesAreAsShown`, `WriteEventuallyAccepted` | shared cookies, rotation of the CSRF token, callbacks opened twice, expiry and disabled users |
| `migrations_start` | 2 starters, 1 check, 2 deaths, 2 requirements, 6 sound and 6 damaged files | `LedgerTellsTheTruth`, `RequirementsSurvive`, `SoundIsNeverRefused`, `EveryStartSucceeds` | processes that start together on a file of any age and die anywhere |
| `evidence_export` | 2 certificates, one from before version 0.3, 3 submissions, 2 corrections, 1 publication, 5 audit events, 1 bundle | `SoundRecordsExport`, `StrongIsAttested`, `ProposalIsOriginal`, `CheckpointsStand` | records of every history pass the strict validator, while a worker appends to the chain |
| `document_intake` | 2 files, 1 tab, 1 reviewer, 2 choices of a file, 1 edit, 1 correction, 2 submissions, 2 decisions | `SentAsReviewed`, `FactsAsShown`, `BusyMeansWork` | replaced, cancelled and repeated extractions, lost answers, and decisions on what was stored |

Bounds. Two workers are the fewest that race, and a third claimant of a row can only
come after one of the first two lost it. The code's limit for both mails is three attempts; two already give a
first, a last and a retry. Rows do not influence each
other except through a worker that holds a batch, the link that a request does or does not own, and the limit of open
requests per vendor. `MaxTime` bounds the clock
of the requests: `CreateRequest` and `CreateLink` ask that the link can still expire before it,
so no expiry is cut off. A request
lives longer than the leases of its two attempts, so that the last one may be abandoned while it is still open. `MaxReplays` bounds the replays. In webhooks and reminders waits
run down to 0 and ages stop at `Stale + 1` or `Horizon`, from where no guard tells them
apart.

In the cases of the rules `today` is 10, periods end on, before and after the day required,
amounts are one below, at and above the minimum, and `MaxMoney` is 4 so that a sum of two amounts
can exceed it. A choice among rows compares two at a time, so pairs are enough to go wrong. In
the review `MaxRows` bounds certificates, publications and exceptions together at 4: two certificates, a version and an
exception, or one certificate that fails a version twice and two exceptions, or two certificates and two versions. More of
them meet only in the status of one vendor, which looks at one certificate and its exceptions.

The scenarios of the machine API pair what can meet: two updates with one ETag, an update with an upload, two
uploads with one key in two processes and one in two handlers of one process, two requests to one recipient and three to
different ones, a request with its cancellation, with the deactivation of its vendor, and a creation with an update. `MaxFaults` bounds crashes and failed
I/O at 1: a second crash meets what the first left behind, which is a row, a file or neither. The four settings of the sign-in
each bound what else happens, so that two of everything fit; `MaxDeaths` of 2 lets both starters die or one twice. The export needs two
certificates to tell the events of one from those of the other and five events so that two follow a checkpoint. The intake form needs two files to be
replaced and two submissions to be retried; its one reviewer may close the page and open it again while an earlier decision is still under
way, and so stands for two.

Seven runs do not check for deadlock: an evaluation is done after one step, and where clock, identifiers, faults or
attempts are bounded (`requests_lifecycle`, `machine_api`, `sign_in`, `migrations_start`, `evidence_export`, `document_intake`) nothing is left to do when they are used up.

Fairness. Time passes. Every worker's cycle is weakly fair, since the watch loop and
the server's poll start one after another and each await has a deadline (10 to 30
seconds). Staff, vendors and uploads owe nothing. For webhooks and reminders
taking the first row of a batch is strongly fair: a process is not killed between the start
of a batch and its first claim every time. `webhooks_delivery` has one endpoint; with several,
an adversary that disables and enables them in turn while killing each worker could
starve one. `Migrations` is weakly fair to the start of each starter, which a supervisor repeats (`docs/DEPLOYMENT.md`); deaths
are bounded. `SignIn` is weakly fair to the handling of a request and strongly fair to one patient person who presses Save, and
reloads the page after an error it shows: their chance comes between the requests of other tabs. A read that succeeds shows
no error and so prompts no reload: when it replaced the token, the person's next write is refused first, and only that refusal is. `MachineApi`, `EvidenceBundle` and
`DocumentIntake` state no fairness: clients and users owe nothing there.

## What is proved

All safety properties of the passing runs, the refinements among them, for any number of requests, links,
uploads, deliveries, reminders, certificates, keys, tabs, documents, policy rows, audit events and processes and any limits, leases and backoffs that
satisfy the assumptions of the modules (`RequestAssumption`, `WorkerAssumption`,
`TimingAssumption` and their like: constants have the obvious types, limits are
positive, workers are finitely many, `None` is not an identifier). TLC checks these assumptions in every run of their module. Some of the properties proved are in no run: the type invariants, and
`OneRecorder`, `LinkBudget`, `RevokedLinkTakesNothing`, `SendBudget`, `OneLeaseHolder`, `PostBudget`, `ClaimLostOnlyWhenStale`,
`ReviewedIsDecided`, `ExceptionsAnchored` and `DecisionsAreFinal`, which a reader wants to know and a run would only repeat.

**CertificateRequests.** `TypeInv` adds to `TypeOK` that a worker or upload in flight names
a request or link. `Answerable` joins the two properties `OpenRequestIsAnswerable` and
`SubmittedByItsOwnLink`, neither of which is inductive alone: a certificate stored through the
link of an open request would break the first, and only the second excludes it. `MaintainedIs` then shows that the two
repair sweeps are the identity, which the remaining proofs rest on. `RowsFit` ties the
delivery status to token, claim and attempts; with both, `SafeInv` is inductive and gives
`TokenErased`. `OutboxInv` relates each row to its event counts step by step. `ClaimsInv`
says that every claim ever handed out carries a number no greater than the row's attempts and
that no two workers hold the same one, hence `OneHolder`. `BudgetInv` counts mails sent plus
workers about to send against attempts, since a bound on mails alone is not inductive,
and gives `SendsBounded`. `LinksFit` equates the uses of a link with the certificates stored
through it. `Refinement` shows that every step is a step of `RequestContract` or changes nothing
it can see.

**WebhookDelivery.** `SafeInv` joins types, `RowsFit` (status, claim and attempts of a row),
`WorkersFit` (a worker that holds a claim is at the attempt the row counts) and `Announced`
(only published events have deliveries, only taken ones are done). It gives `NoneStranded`,
`ClaimsHold` and `Refinement`. `BudgetInv` counts posts plus workers about to post against
the attempts spent, over all replays: a release gives back an attempt that was not
posted, which is why the workers have to be counted.

**ReminderDelivery.** `CyclesFit` says what each cycle holds and carries `ReminderFits`: a row eligible for a retry has an attempt
left. It is what makes the claim safe, which trusts `retry_eligible` alone. `ClaimsFit` and
`MailInv` play the parts that `ClaimsInv` and `BudgetInv` play for the requests; `SettledStays` follows from
`ClaimsFit`, since a settled row has no holder. `OneHolder` says that a late report finds its claim gone, whether the newer one is settled or not. TLC
meets the same hazard in `ReminderSettles`: a report that looks at the status alone, and not at the attempt, leaves a row
eligible for a retry with no attempt left, for good.

**ComplianceRules.** For all documents, profiles and dates of the types in `IsDocument` and
`IsRequirement`. Each of the three selections is a CHOOSE, so its least element has to
exist: `LeastOfThree` derives that from the well-foundedness of the naturals. `PassingRow`
and `MeetingRow` relate the findings of a row to `Meets` in both directions, `CoveragePass` and
`CoverageNoFail` those of a requirement to `Satisfied`. `SelectionPrefersNoFailure` is the heart of
the order: where one row has no failure the one selected has none. `FailureStays` and
`SatisfactionStays` carry a verdict over to the confirmed document. `OrderIrrelevant` is about ties: in two numberings of
the same rows `Selected` may choose different rows. `SameFindings` shows that the findings of a row depend on the set of
rows only, the umbrella that is added included; `SameCounts`, that the two rows chosen count as many failures and open questions,
since each precedes the other; `CountsTell`, that a count is zero exactly when its status is absent, which needs that findings are
finitely many. The statuses that decide the label then agree (`Alike`), although the findings themselves need not.

**CertificateReview.** `Inv` says of each certificate what it must record (`CertificateFits`: its verdict is the evaluation against
the published version it names, its history has one decision), that the active requirements are those of the latest
publication (`ActiveIsLatest`), and that each exception names a failure of a confirmed certificate (`Anchored`). None is inductive
alone: a verdict is reproducible because the active rows are a published version, and an exception stays anchored
because only drafts are evaluated again. `FitsLater` shows that publications only add. `Earned` then follows a status back through
the latest certificate, its findings and the exceptions to who decided; `SameViews` needs that rows and findings are finite,
so that the counts of the list are zero exactly when the quantifiers of the page say so. From `ReviewAssumption` only: the rules
and exceptions are finitely many and every profile asks for something.

**MachineApi.** `TypeInv` carries `JobFits`, what a handler holds at each point: a slot while it reads the form, no
slot once its response is closed, a file while it stores or removes one. `AnswersMade` says that
kept responses and found receipts name changes that were made; with it `OneChangeAtMost` sorts every step into those that change nothing
and those that make one change, which is the refinement. `TagsFresh` (nobody holds a tag of a vendor that already has its
edit) gives `EditsKept`. `CapacityInv` counts slots by `SlotStep`: each is taken once, given back once, or lost with its
process. `MailInv` states the limits before every instant, not only before those of rows, which makes them inductive although
requests are committed in another order than they are dated. `FilesInv` adds to `FilesMatchRows` the files that handlers still
hold. From `CallAssumption` and `NumberAssumption`.

**SignIn.** `TypeInv` adds that a request whose session was found names its row. `BindingInv` gives `SubjectsKeepTheirUser`. For the single use
of a sign-in, `CookiesOwned`, `ExchangesAlone` and `SessionsOfSignIns` follow a transaction from its cookie over the one request that
consumed it to its session. For `WritesAreAsShown`, `OneOwner` says that a CSRF token stands for one person wherever it is, in a row, a
cookie, a page or a request, and `FoundStands` that a request past its look-up still has what it was found to have. From
`SignInAssumption`.

**Migrations.** On a sound file, `SoundInv` joins `Undamaged` with `SoundJob`, what each process relies on while it starts: what it read in the ledger
is still recorded, what it made is still there. That is inductive because steps only add (`Grown`, `Others`), and it is why no process can make
another one refuse. `RowsInv` numbers the requirements without a gap. An unsound file has one of four kinds of damage
(`FutureVersion`, `FalseLedger`, `ForeignTables`, `DanglingFindings`, which `DamagedInit` shows to be all there are), each stops a start at
another point, and none heals, so nobody ever serves it. From `InstallationAssumption`, `ProcessAssumption` and
`BoundAssumption`: servers and checks are different processes, and a file is sound exactly if it is `Undamaged`.

**EvidenceBundle.** `RecordInv` has a part for the rows, one for the chain, one for the export under way and one for what was
handed out. `CertificateFits` says of a row, whichever of `Ingest`, `Confirm`, `Reject` or an older release wrote it last, that what an
export will call the machine's proposal is what arrived (`MachineProposal(x) = x.sent`), and that strong evidence of a confirmed row lies on pages
of its PDF (`Sealed`); neither is inductive without what the other columns of the row say, who decided and whether it is still a draft. `Chained` is the hash
chain; `Longer` says how any step may change it, and `CheckpointStands` that a verification, a head and the events up to it stay true of every longer
chain. `JobFits` follows an export through its four reads: while no worker came in between (`overtaken`), the verification covers the head that is read,
and `CheckpointAgrees` shows that this, and nothing else about the chain, decides whether the validator takes the checkpoint. From `EvidenceAssumption`:
`Null` is no value of a column, and what is sent and corrected has the type of the schemas, whether or not it parses.

**DocumentIntake.** `Inv` says of the form that its draft is one of the file on the screen and the tick was put there for that file
(`DraftFits`), that one extraction at most runs, for that file and under the signal that Cancel reaches (`TasksFit`), and of everything on its way or
stored that its facts are those of one draft (`Match`). The two conversions carry the weight: `Submission` and
`CorrectionInput` turn a screen into facts, `LimitsShown` and `EndorsementsShown` say what that screen shows, and `FormSends` and `CorrectionSends` prove that nothing is lost or added,
although a field may be blank or unreadable and a name be given twice: the form relies on its two selects offering different types of limits, the editor on
refusing a type that is there twice. `EditsFilled` and `CorrectionsKept` show that a draft stays one under every edit. From `IntakeAssumption`:
`None` is no file, draft or form, no more pages are scanned than there are, and what may be typed or selected has its type.

Only model-checked: the liveness properties
(`RequestEventuallyCloses`, `DeliverySettles`, `ReminderSettles`, `WriteEventuallyAccepted`,
`EveryStartSucceeds`), which rest on fairness and ENABLED and are out of
the prover's reach, as is induction over data and whatever a RECURSIVE operator computes. That conversions keep a draft's rows is stated on sets of
rows and needs no induction. The two refuted properties are false.

## Findings

`BackoffKept` is refuted. `docs/DEPLOYMENT.md:93` promises that timeouts, like other transient
failures, are retried "after minimum backoffs of 15 minutes and then 60 minutes". A submission that reaches
the application's 30-second deadline is rethrown (`services/reminders.ts:314-316`) without an
outcome, so the row stays `processing` and is claimed again once its 30-minute lease has run
out (`db.ts:2025-2026`): after a second attempt that is half the promised hour. The run lets no process
die, since the document describes recovery from crashes separately, and needs one
worker only.

`ApprovedIsInForce` is refuted. An exception has a date of expiration, and the form of its approval says "Accept this finding until the
requested expiration." (`client/pages/ExceptionsPage.tsx:333`). It is listed as approved until that date has passed
(`http/routes.ts:277-278`), and may be requested until today (`http/routes.ts:1517`). But the status of the vendor counts it only while its
date, as text, is not below the full instant of the request (`services/projections.ts:139`, and the same in the list), and a date
is below every instant of its own day. So on the day of its expiration an exception is listed as approved and the vendor as deficient,
and an exception until today never has an effect.

## Known limits of the code that no property forbids

- With umbrella stacking, which the application never turns on: a requirement on umbrella
  coverage adds a row to itself, and a larger umbrella that is not confirmed is passed over for a smaller
  usable one, so that the limit fails where review might let it pass.
- An endorsement rule with both a form code and a name is matched by its code alone
  (`rules.ts:759`), and two codes without a letter or digit match each other.
- The strongest matching endorsement row counts even if it is not confirmed; it then hides a
  weaker confirmed one and the finding stays open.
- A request by link handed over by hand expires only when a mail worker runs, since
  the sweep is part of the worker's claim. Its link stops working at once.
- A request cancelled after a worker read its vendor may still be mailed; the
  documents say so. The link is revoked.
- Deactivating a vendor does not revoke its plain links, and an upload under way is
  still accepted.
- Expiry closes a request and does not revoke its link, which no longer works anyway.
- The list of vendors takes 0 days as the warning horizon of a type whose requirements are all optional, the page of a vendor 30, so
  that their life cycles may differ (`services/projections.ts:396-400` against `expirationWarningDaysFor`).
- An exception shown as expired may still be approved, since a decision looks at the stored status, and a decision may set an expiration in
  the past.
- Exceptions to all failures show a vendor as accepted although other findings are still open for review; `docs/RULES.md` says those
  remain visible on their own.
- A staff upload has no idempotency key: sent again after its answer was lost, the document is stored twice. A vendor whose answer was lost is
  told of a failure though the document is stored and the link used.
- The intake form drops an amount it cannot read, where the correction editor refuses it. A change of a coverage's type there
  resets the labels of its limits, a file can be replaced while its submission is under way, and removing a policy or endorsement
  leaves the provenance of those after it under their old index.
- Two sign-ins started at once in one browser share a cookie and both fail. A late 401 clears the cookies of a newer session.
- Policies are read back in the order of coverage type and identifier (`db.ts:1781`), while a citation's `policyIndex` counts in
  the order the machine found them.
- An export overtaken by an audit event of a worker is refused with an internal error and has to be asked for again.
- The polled feed of events ends with a `nextCursor` of null, so that a reader has to remember the last sequence it saw.
- A failed reminder retried after a newer certificate was confirmed mails the date it was scheduled with (`db.ts:1955`).
- The audit list returns its first entries only (`audit.ts:225`), so that the latest are out of sight once there are more.
- Delivery is at least once for mails and posts. The budgets bound how often.

## Not modelled

Text recognition and parsing (`shared/ocr.ts` and its like) are heuristics without a specification: what they find in a file is an input
here. Configuration and start-up are wiring. Benchmark and research are not part of the running system. Canonical JSON,
digests and signatures of an export are taken to do what they are for. The pages of the client that only show
the server's state, and the reading handlers with their filters, have no state of their own.

## Plan

What is left, in order of use:

1. The polled feed: sequences per organization, cursors and pages read while events are published.
2. Roles in `SignIn` and `CertificateReview`, changed while a request is under way.
3. The limits per batch (50 and 100 deliveries, 200 reminders) with the order in which rows are taken, and the limit of requests per creator.
4. Proofs about what these add, and further results on the models there are: that a checkpoint's hash fixes the whole history before it, that the
   status of a vendor is a function of the rows its two queries read, that every answer of the machine API names one change.
