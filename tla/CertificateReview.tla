------------------------- MODULE CertificateReview -------------------------
(***************************************************************************)
(* The review of certificates: requirements published for a vendor type,   *)
(* documents stored as drafts or as confirmed, their evaluation, the       *)
(* decision of a reviewer, and the exceptions to failed findings, up to    *)
(* the status that is shown of a vendor.  Every action is one handler of   *)
(* the server, which runs without an await, except that an upload writes   *)
(* its file between the reading of the date and the transaction.           *)
(*                                                                         *)
(* Dates are day numbers.  A requirement asks for an amount of one rule    *)
(* and makes one finding; a document shows an amount of each rule (0: not  *)
(* at all) until a day, and may leave what a rule asks for unclear, so that *)
(* nobody can confirm it.  ComplianceRules has the evaluation in full.     *)
(***************************************************************************)
EXTENDS Integers, Sequences, FiniteSets

CONSTANTS
    Vendors, Types, Rules,
    Staff,           \* users who may review
    Admins,          \* those of them who may decide on exceptions
    Outside,         \* whoever submits through an upload link or the API
    None,            \* NULL
    Exceptions,      \* exceptions rows that may be created
    Documents,       \* what a document may show
    Profiles,        \* what may be published for a type
    Days,            \* the days of the clock, and of expirations
    MaxCertificates, \* bound of the certificates stored
    MaxVersions,     \* bound of the publications for all types
    MaxUploads,      \* bound of the uploads in flight
    MaxRows          \* bound of certificates, publications and exceptions together

Requirement == [required : BOOLEAN, minimum : Nat \ {0}]

ASSUME ReviewAssumption ==
    /\ Admins \subseteq Staff /\ Outside \notin Staff
    /\ None \notin Staff /\ IsFiniteSet(Exceptions) /\ IsFiniteSet(Rules)
    /\ Days \subseteq Nat /\ 0 \in Days
    /\ \A d \in Documents :
          d.amount \in [Rules -> Nat] /\ d.unclear \subseteq Rules /\ d.until \in Nat
    /\ \A p \in Profiles : \E S \in SUBSET Rules : S # {} /\ p \in [S -> Requirement]
    /\ {MaxCertificates, MaxVersions, MaxUploads, MaxRows} \subseteq Nat

VARIABLES
    day,        \* the date every handler reads
    vendorType, \* vendors.vendor_type_id
    versions,   \* requirement_versions of each type, in the order of publication
    active,     \* coverage_requirements of each type with is_active = 1
    upload,     \* the upload each actor has in flight, None if there is none
    certs,      \* certificates, in the order of their documents' uploaded_at
    exc         \* exceptions

vars == <<day, vendorType, versions, active, upload, certs, exc>>

-----------------------------------------------------------------------------
Actors   == Staff \cup {Outside}
Statuses == {"PASS", "FAIL", "UNKNOWN", "NOT_APPLICABLE"}
Row      == [rule : Rules, required : BOOLEAN, minimum : Nat \ {0}, version : Nat \ {0}]

IsVerdict(k) ==
    /\ k = [type |-> k.type,                 \* evaluationVendorType
            version |-> k.version,           \* requirementVersion, 0 for null
            date |-> k.date,                 \* evaluationDate
            findings |-> k.findings,         \* findings, by the requirement of each
            compliance |-> k.compliance]     \* compliance_status
    /\ k.type \in Types /\ k.version \in Nat /\ k.date \in Days
    /\ DOMAIN k.findings \subseteq Row \cup {None}
    /\ k.findings \in [DOMAIN k.findings -> Statuses]
    /\ k.compliance \in {"pending_review", "compliant", "non_compliant"}

IsCertificate(x) ==
    /\ x = [vendor |-> x.vendor, doc |-> x.doc,
            state |-> x.state,               \* confirmation_status
            by |-> x.by,                     \* confirmed_by_user_id
            round |-> x.round,               \* evaluations made: each has new finding ids
            verdict |-> x.verdict, events |-> x.events]
    /\ x.vendor \in Vendors /\ x.doc \in Documents
    /\ x.state \in {"draft", "confirmed", "rejected"}
    /\ x.by \in Staff \cup {None} /\ x.round \in {1, 2}
    /\ IsVerdict(x.verdict) /\ x.events \in Seq({"submitted", "confirmed", "rejected"})

Upload == [vendor : Vendors, date : Days]

Finding   == [cert : Nat \ {0}, round : {1, 2}, row : Row \cup {None}]
Decisions == {"approved", "rejected", "revoked"}
Exception == [status : {"pending"} \cup Decisions, vendor : Vendors, finding : Finding,
              requestedBy : Staff, decidedBy : Staff \cup {None}, expires : Days,
              event : [type : {"requested"} \cup Decisions, expires : Days]]

Init ==
    /\ day = 0
    /\ vendorType \in [Vendors -> Types]
    /\ versions = [t \in Types |-> <<>>]
    /\ active = [t \in Types |-> {}]
    /\ upload = [a \in Actors |-> None]
    /\ certs = <<>>
    /\ exc = [e \in Exceptions |-> None]

-----------------------------------------------------------------------------
(* Evaluation.                                                             *)

\* The rows a publication inserts.
RowsOf(profile, n) ==
    {[rule |-> r, required |-> profile[r].required, minimum |-> profile[r].minimum,
      version |-> n] : r \in DOMAIN profile}

\* Policies expire at the end of their last day, whatever the warning horizon.
Shows(doc, row, date) == doc.amount[row.rule] >= row.minimum /\ doc.until >= date

Status(row, doc, reviewed, date) ==
    IF ~row.required THEN "NOT_APPLICABLE"
    ELSE IF ~reviewed \/ row.rule \in doc.unclear THEN "UNKNOWN"
    ELSE IF Shows(doc, row, date) THEN "PASS" ELSE "FAIL"

ComplianceOf(statuses) ==
    IF "FAIL" \in statuses THEN "non_compliant"
    ELSE IF "UNKNOWN" \in statuses THEN "pending_review" ELSE "compliant"

RequirementVersion(rows) ==
    CHOOSE n \in {r.version : r \in rows} : \A r \in rows : r.version <= n

\* Without requirements there is one finding of no requirement.
Unruled(t, date) ==
    [type |-> t, version |-> 0, date |-> date,
     findings |-> [r \in {None} |-> "UNKNOWN"], compliance |-> "pending_review"]

Judged(rows, t, doc, reviewed, date) ==
    LET findings == [r \in rows |-> Status(r, doc, reviewed, date)] IN
    [type |-> t, version |-> RequirementVersion(rows), date |-> date, findings |-> findings,
     compliance |-> ComplianceOf({findings[r] : r \in rows})]

Evaluate(rows, t, doc, reviewed, date) ==
    IF rows = {} THEN Unruled(t, date) ELSE Judged(rows, t, doc, reviewed, date)

\* Against the active requirements of the vendor's type of this moment.
PersistEvaluation(v, doc, reviewed, date) ==
    Evaluate(active[vendorType[v]], vendorType[v], doc, reviewed, date)

-----------------------------------------------------------------------------
(* The clock, and the routes that change what certificates are held to.    *)

Publications == {x \in Types \X (1..MaxVersions) : x[2] <= Len(versions[x[1]])}
HasRoom ==
    Len(certs) + Cardinality(Publications)
        + Cardinality({e \in Exceptions : exc[e] # None}) < MaxRows

NextDay ==
    /\ day + 1 \in Days
    /\ day' = day + 1
    /\ UNCHANGED <<vendorType, versions, active, upload, certs, exc>>

\* Mutant: the requirements in force stay active.
PublishRequirementsAdding(t, profile) ==
    LET n == Len(versions[t]) + 1 IN
    /\ HasRoom /\ Cardinality(Publications) < MaxVersions
    /\ versions' = [versions EXCEPT ![t] = Append(@, profile)]
    /\ active' = [active EXCEPT ![t] = @ \cup RowsOf(profile, n)]
    /\ UNCHANGED <<day, vendorType, upload, certs, exc>>

PublishRequirements(t, profile) ==
    LET n == Len(versions[t]) + 1 IN
    /\ HasRoom /\ Cardinality(Publications) < MaxVersions
    /\ versions' = [versions EXCEPT ![t] = Append(@, profile)]
    /\ active' = [active EXCEPT ![t] = RowsOf(profile, n)]
    /\ UNCHANGED <<day, vendorType, upload, certs, exc>>

ChangeVendorType(v, t) ==
    /\ vendorType' = [vendorType EXCEPT ![v] = t]
    /\ UNCHANGED <<day, versions, active, upload, certs, exc>>

-----------------------------------------------------------------------------
(* Submission.                                                             *)

\* The date is read before the file is written; what the document shows is
\* looked at when it is stored.
BeginUpload(a, v) ==
    /\ HasRoom /\ Len(certs) < MaxCertificates
    /\ upload[a] = None /\ Cardinality({b \in Actors : upload[b] # None}) < MaxUploads
    /\ upload' = [upload EXCEPT ![a] = [vendor |-> v, date |-> day]]
    /\ UNCHANGED <<day, vendorType, versions, active, certs, exc>>

\* Only a member of staff can submit a document as reviewed.
NewCertificate(a, u, doc, reviewed) ==
    [vendor |-> u.vendor, doc |-> doc, state |-> IF reviewed THEN "confirmed" ELSE "draft",
     by |-> IF reviewed THEN a ELSE None, round |-> 1,
     verdict |-> PersistEvaluation(u.vendor, doc, reviewed, u.date),
     events |-> IF reviewed THEN <<"submitted", "confirmed">> ELSE <<"submitted">>]

IngestCertificate(a, doc, reviewed) ==
    /\ upload[a] # None
    /\ reviewed => a \in Staff
    /\ HasRoom /\ Len(certs) < MaxCertificates
    /\ certs' = Append(certs, NewCertificate(a, upload[a], doc, reviewed))
    /\ upload' = [upload EXCEPT ![a] = None]
    /\ UNCHANGED <<day, vendorType, versions, active, exc>>

\* The document is refused, the file cannot be written or the process stops.
AbandonUpload(a) ==
    /\ upload[a] # None
    /\ upload' = [upload EXCEPT ![a] = None]
    /\ UNCHANGED <<day, vendorType, versions, active, certs, exc>>

-----------------------------------------------------------------------------
(* Review.                                                                 *)

\* The reviewer may correct what was read from the document.
Confirmed(cert, u, doc) ==
    [vendor |-> cert.vendor, doc |-> doc, state |-> "confirmed", by |-> u,
     round |-> 2, verdict |-> PersistEvaluation(cert.vendor, doc, TRUE, day),
     events |-> Append(cert.events, "confirmed")]

\* The findings stay; what they said of a draft is void.
Void(k) ==
    [type |-> k.type, version |-> k.version, date |-> k.date, findings |-> k.findings,
     compliance |-> "pending_review"]

Rejected(cert) ==
    [vendor |-> cert.vendor, doc |-> cert.doc, state |-> "rejected", by |-> cert.by,
     round |-> cert.round, verdict |-> Void(cert.verdict),
     events |-> Append(cert.events, "rejected")]

ConfirmCertificate(u, c, doc) ==
    /\ certs[c].state = "draft"
    /\ certs' = [certs EXCEPT ![c] = Confirmed(@, u, doc)]
    /\ UNCHANGED <<day, vendorType, versions, active, upload, exc>>

RejectCertificate(c) ==
    /\ certs[c].state = "draft"
    /\ certs' = [certs EXCEPT ![c] = Rejected(@)]
    /\ UNCHANGED <<day, vendorType, versions, active, upload, exc>>

-----------------------------------------------------------------------------
(* Exceptions.                                                             *)

FindingsOf(c) ==
    {[cert |-> c, round |-> certs[c].round, row |-> r] : r \in DOMAIN certs[c].verdict.findings}

FailuresOf(c) == {f \in FindingsOf(c) : certs[c].verdict.findings[f.row] = "FAIL"}

\* An open failed finding on a confirmed certificate of the vendor.
Exceptable(f, v) ==
    /\ f \in FailuresOf(f.cert)
    /\ certs[f.cert].state = "confirmed"
    /\ certs[f.cert].vendor = v

CreateException(u, e, v, f, expires) ==
    /\ HasRoom /\ exc[e] = None
    /\ expires >= day
    /\ Exceptable(f, v)
    /\ exc' = [exc EXCEPT ![e] =
                 [status |-> "pending", vendor |-> v, finding |-> f, requestedBy |-> u,
                  decidedBy |-> None, expires |-> expires,
                  event |-> [type |-> "requested", expires |-> expires]]]
    /\ UNCHANGED <<day, vendorType, versions, active, upload, certs>>

\* Mutant: a new expiration is not announced.
DecidedQuietly(x, u, decision, expires) ==
    [status |-> decision, vendor |-> x.vendor, finding |-> x.finding,
     requestedBy |-> x.requestedBy, decidedBy |-> u,
     expires |-> IF expires = None THEN x.expires ELSE expires,
     event |-> [type |-> decision, expires |-> x.expires]]

\* The request's own fields stay; a new expiration is optional.
Decided(x, u, decision, expires) ==
    LET until == IF expires = None THEN x.expires ELSE expires IN
    [status |-> decision, vendor |-> x.vendor, finding |-> x.finding,
     requestedBy |-> x.requestedBy, decidedBy |-> u, expires |-> until,
     event |-> [type |-> decision, expires |-> until]]

DecideException(u, e, decision, expires) ==
    /\ exc[e] # None
    /\ decision = "approved" => u # exc[e].requestedBy
    /\ exc[e].status \in {"pending", "approved"}
    /\ exc' = [exc EXCEPT ![e] = Decided(@, u, decision, expires)]
    /\ UNCHANGED <<day, vendorType, versions, active, upload, certs>>

-----------------------------------------------------------------------------
Requirements ==
    \/ \E t \in Types, p \in Profiles : PublishRequirements(t, p)
    \/ \E v \in Vendors, t \in Types : ChangeVendorType(v, t)

Submission ==
    \E a \in Actors :
        \/ \E v \in Vendors : BeginUpload(a, v)
        \/ \E doc \in Documents, reviewed \in BOOLEAN : IngestCertificate(a, doc, reviewed)
        \/ AbandonUpload(a)

Review ==
    \E c \in DOMAIN certs :
        \/ \E u \in Staff, doc \in Documents : ConfirmCertificate(u, c, doc)
        \/ RejectCertificate(c)

Disposition ==
    \E e \in Exceptions :
        \/ \E u \in Staff, v \in Vendors, c \in DOMAIN certs, expires \in Days :
              \E f \in FindingsOf(c) : CreateException(u, e, v, f, expires)
        \/ \E u \in Admins, decision \in Decisions, expires \in Days \cup {None} :
              DecideException(u, e, decision, expires)

Next == NextDay \/ Requirements \/ Submission \/ Review \/ Disposition

Spec == Init /\ [][Next]_vars

-----------------------------------------------------------------------------
(* What is shown.                                                          *)

\* An exception is listed as expired from the day after its expiration ...
ExceptionShown(e) ==
    IF exc[e].expires < day /\ exc[e].status \in {"pending", "approved"}
    THEN "expired" ELSE exc[e].status

\* ... but counts while its date, without a time, is not below the instant:
\* as text a date is below every instant of its own day.
InForce(e) == exc[e] # None /\ exc[e].status = "approved" /\ exc[e].expires > day

Excepted(f) == \E e \in Exceptions : InForce(e) /\ exc[e].finding = f

\* Mutant: one exception disposes of all failures.
CheckForOne(c) ==
    IF certs[c].state = "draft" \/ certs[c].verdict.compliance = "pending_review"
    THEN "needs_review"
    ELSE IF certs[c].verdict.compliance = "compliant" THEN "meets"
    ELSE IF \E f \in FindingsOf(c) : Excepted(f) THEN "approved_exception" ELSE "deficient"

CheckFor(c) ==
    IF certs[c].state = "draft" \/ certs[c].verdict.compliance = "pending_review"
    THEN "needs_review"
    ELSE IF certs[c].verdict.compliance = "compliant" THEN "meets"
    ELSE IF /\ \E f \in FindingsOf(c) : Excepted(f)
            /\ \A f \in FailuresOf(c) : Excepted(f)
    THEN "approved_exception" ELSE "deficient"

\* The latest certificate of a vendor that was not rejected.
Considered(v) == {c \in DOMAIN certs : certs[c].vendor = v /\ certs[c].state # "rejected"}
LatestCertificate(v) == CHOOSE c \in Considered(v) : \A d \in Considered(v) : d <= c

VendorStatus(v) ==
    IF Considered(v) = {} THEN "not_submitted" ELSE CheckFor(LatestCertificate(v))

\* The same by the query of the vendor list: ranks, counts and an outer join.
RecentRankOfAll(c) ==   \* Mutant: rejected certificates are ranked too.
    1 + Cardinality({d \in DOMAIN certs : certs[d].vendor = certs[c].vendor /\ d > c})
RecentRank(c) == 1 + Cardinality({d \in Considered(certs[c].vendor) : d > c})
UnexceptedFailures(c) == Cardinality({f \in FailuresOf(c) : ~Excepted(f)})
ActiveExceptions(c) ==
    Cardinality({e \in Exceptions : InForce(e) /\ exc[e].finding \in FindingsOf(c)})

AggregateCheckStatus(c) ==
    IF certs[c].state = "draft" \/ certs[c].verdict.compliance = "pending_review"
    THEN "needs_review"
    ELSE IF certs[c].verdict.compliance = "compliant" THEN "meets"
    ELSE IF ActiveExceptions(c) > 0 /\ UnexceptedFailures(c) = 0 THEN "approved_exception"
    ELSE "deficient"

ListedStatuses(v) ==
    LET latest == {c \in Considered(v) : RecentRank(c) = 1} IN
    IF latest = {} THEN {"not_submitted"} ELSE {AggregateCheckStatus(c) : c \in latest}

-----------------------------------------------------------------------------
(* Properties.                                                             *)

TypeOK ==
    /\ day \in Days
    /\ vendorType \in [Vendors -> Types]
    /\ versions \in [Types -> Seq(Profiles)]
    /\ active \in [Types -> SUBSET Row]
    /\ upload \in [Actors -> Upload \cup {None}]
    /\ DOMAIN certs = 1..Len(certs) /\ Len(certs) \in Nat
    /\ \A c \in DOMAIN certs : IsCertificate(certs[c])
    /\ exc \in [Exceptions -> Exception \cup {None}]

\* What version n of a type demands, from the snapshots of its publications.
Published(t, n) == IF n = 0 THEN {} ELSE RowsOf(versions[t][n], n)

\* The findings and the verdict of a certificate follow from what was recorded
\* with them: the document, the type, the published snapshot of the version and
\* the date.  No later publication, change of type or review alters them, and
\* none was made from requirements of two versions.
VerdictReproducible ==
    \A c \in DOMAIN certs :
        LET k == certs[c].verdict
            again == Evaluate(Published(k.type, k.version), k.type, certs[c].doc,
                              certs[c].state = "confirmed", k.date)
        IN  /\ k.version <= Len(versions[k.type])
            /\ k = IF certs[c].state = "rejected" THEN Void(again) ELSE again

\* Every exception refers to a failed finding that is still there, of the
\* current evaluation of a confirmed certificate of the exception's vendor.
ExceptionsAnchored ==
    \A e \in Exceptions : exc[e] # None =>
        LET f == exc[e].finding IN
        /\ f.cert \in DOMAIN certs /\ f \in FindingsOf(f.cert)
        /\ certs[f.cert].verdict.findings[f.row] = "FAIL"
        /\ certs[f.cert].state = "confirmed" /\ certs[f.cert].vendor = exc[e].vendor

\* Some administrator other than its requester accepted the finding, for longer
\* than today.
Accepted(f) ==
    \E e \in Exceptions :
        /\ exc[e] # None /\ exc[e].finding = f
        /\ exc[e].status = "approved" /\ exc[e].expires > day
        /\ exc[e].decidedBy \in Admins \ {exc[e].requestedBy}

\* A vendor is shown as meeting its requirements only by its latest document,
\* confirmed by a member of staff, which clearly shows every required amount of
\* some published version on the day it was evaluated for; and as accepted only
\* if another administrator accepted each of that document's failures.
StatusIsEarned ==
    \A v \in Vendors : VendorStatus(v) \in {"meets", "approved_exception"} =>
        LET c == LatestCertificate(v)
            k == certs[c].verdict
            required == {r \in Published(k.type, k.version) : r.required}
            unclear == {r \in required : r.rule \in certs[c].doc.unclear}
            short == {r \in required \ unclear : ~Shows(certs[c].doc, r, k.date)}
        IN  /\ certs[c].state = "confirmed" /\ certs[c].by \in Staff
            /\ k.version > 0
            /\ VendorStatus(v) = "meets" => short = {} /\ unclear = {}
            /\ \A r \in short : Accepted([cert |-> c, round |-> certs[c].round, row |-> r])

\* The list of vendors and the page of a vendor show the same status.
ViewsAgree == \A v \in Vendors : ListedStatuses(v) = {VendorStatus(v)}

\* The events tell a consumer the outcome: of a certificate its submission and
\* the one decision, of an exception its status and its expiration.
EventsTellTheOutcome ==
    /\ \A c \in DOMAIN certs : certs[c].events =
          IF certs[c].state = "draft" THEN <<"submitted">> ELSE <<"submitted", certs[c].state>>
    /\ \A e \in Exceptions : exc[e] # None => exc[e].event =
          [type |-> IF exc[e].status = "pending" THEN "requested" ELSE exc[e].status,
           expires |-> exc[e].expires]

\* A reviewed certificate, a rejected or revoked exception and a published
\* version are never changed again, and an exception stays with its finding.
DecisionsAreFinal ==
    [][/\ \A c \in DOMAIN certs : certs[c].state # "draft" => certs'[c] = certs[c]
       /\ \A e \in Exceptions : exc[e] # None =>
             /\ exc'[e].finding = exc[e].finding
             /\ exc[e].status \in {"rejected", "revoked"} => exc'[e] = exc[e]
       /\ \A t \in Types : \A n \in DOMAIN versions[t] : versions'[t][n] = versions[t][n]
      ]_vars

\* "Accept this finding until the requested expiration": where every failure of
\* a vendor's latest certificate has an exception listed as approved, not as
\* expired, the vendor is shown as accepted.
ApprovedIsInForce ==
    \A v \in Vendors :
        LET c == LatestCertificate(v) IN
        /\ Considered(v) # {} /\ certs[c].state = "confirmed"
        /\ certs[c].verdict.compliance = "non_compliant"
        /\ \A f \in FailuresOf(c) : \E e \in Exceptions :
              exc[e] # None /\ exc[e].finding = f /\ ExceptionShown(e) = "approved"
        => VendorStatus(v) = "approved_exception"
=============================================================================
