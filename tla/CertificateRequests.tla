------------------------- MODULE CertificateRequests -------------------------
(***************************************************************************)
(* Tracked certificate requests, the single-use upload links they own, the *)
(* public upload handler that consumes a link, and the SMTP workers that   *)
(* mail the link.  Every action is one SQLite transaction, or one segment  *)
(* of a handler between two awaits.  A request and its link are created    *)
(* together, so both carry the request's identifier.  Plain links are the  *)
(* links staff create without a request.                                   *)
(***************************************************************************)
EXTENDS Integers, Sequences, FiniteSets

CONSTANTS
    Requests,        \* certificate_requests rows that may be created
    PlainLinks,      \* upload_links rows without a request
    Vendors,
    VendorOf,        \* the vendor of each request and plain link
    Workers,         \* SMTP delivery workers (the CLI may run several)
    Uploads,         \* public upload calls, and the certificate each creates
    None,            \* the NULL of a foreign key
    MaxAttempts,     \* MAX_DELIVERY_ATTEMPTS
    VendorOpenLimit, \* SMTP_VENDOR_OPEN_LIMIT
    Lease,           \* DELIVERY_LEASE_MS
    Backoff,         \* RETRY_BACKOFF_MS, indexed by the attempt that failed
    Ttls,            \* lifetimes a link may be given
    PlainUses,       \* values of max_uses a plain link may be given
    MaxTime          \* bound of the clock

Links == Requests \cup PlainLinks

ASSUME RequestAssumption ==
    /\ Requests \cap PlainLinks = {}
    /\ VendorOf \in [Links -> Vendors]
    /\ None \notin Requests \cup PlainLinks \cup Uploads

ASSUME WorkerAssumption == IsFiniteSet(Workers)

ASSUME TimingAssumption ==
    /\ MaxAttempts \in Nat \ {0}
    /\ VendorOpenLimit \in Nat
    /\ Lease \in Nat \ {0}
    /\ Backoff \in Seq(Nat \ {0})
    /\ Ttls \subseteq Nat \ {0}
    /\ PlainUses \subseteq Nat \ {0}
    /\ MaxTime \in Nat

VARIABLES
    now,       \* the clock every handler reads
    active,    \* vendors whose status is active
    req,       \* certificate_requests
    link,      \* upload_links
    docs,      \* the certificates stored through each link
    upload,    \* public upload handlers in flight
    worker,    \* delivery workers in flight
    sends,     \* sendMail calls made for each request, over all workers
    events     \* domain events published for each request

rows   == <<active, req, link, docs>>
vars   == <<now, active, req, link, docs, upload, worker, sends, events>>

-----------------------------------------------------------------------------
NoTime == -1                                   \* a NULL instant
Time   == Nat \cup {NoTime}

States     == {"absent", "open", "submitted", "cancelled", "expired"}
Deliveries == {"manual_ready", "queued", "processing", "accepted", "failed",
               "superseded", "cancelled", "expired"}
Row == [state : States, method : {"manual", "smtp"}, delivery : Deliveries,
        secret : BOOLEAN,      \* upload_token_ciphertext is not NULL
        claim : Nat,           \* claim_token, 0 for NULL
        claimedAt : Time, attempts : Nat, nextAt : Time,
        createdAt : Nat, cert : Uploads \cup {None}]
Link == [expiresAt : Time, maxUses : Nat, uses : Nat, revoked : BOOLEAN]
EventTypes == {"created", "email_accepted", "email_failed", "cancelled", "submitted"}

NoRow == [state |-> "absent", method |-> "manual", delivery |-> "manual_ready",
          secret |-> FALSE, claim |-> 0, claimedAt |-> NoTime, attempts |-> 0,
          nextAt |-> NoTime, createdAt |-> 0, cert |-> None]
NoLink     == [expiresAt |-> NoTime, maxUses |-> 0, uses |-> 0, revoked |-> FALSE]
IdleWorker == [pc |-> "idle", req |-> None, claim |-> 0]
NewUpload  == [pc |-> "new", link |-> None, at |-> 0]
\* A handler that has ended holds nothing.
Ended(pc) == [NewUpload EXCEPT !.pc = pc]

Init ==
    /\ now = 0
    /\ active = Vendors
    /\ req = [r \in Requests |-> NoRow]
    /\ link = [l \in Links |-> NoLink]
    /\ docs = [l \in Links |-> {}]
    /\ upload = [u \in Uploads |-> NewUpload]
    /\ worker = [w \in Workers |-> IdleWorker]
    /\ sends = [r \in Requests |-> 0]
    /\ events = [r \in Requests |-> [e \in EventTypes |-> 0]]

-----------------------------------------------------------------------------
(* Row transformations shared by the routes and the worker.                *)

\* Leaving the open state: an SMTP delivery still due is voided, the
\* recoverable token and any claim are dropped.
Closed(row, state, void) ==
    [row EXCEPT !.state = state,
                !.delivery = IF row.method = "smtp" /\ @ \in {"queued", "processing"}
                             THEN void ELSE @,
                !.secret = FALSE, !.claim = 0, !.claimedAt = NoTime, !.nextAt = NoTime]

Cancelled(row)    == Closed(row, "cancelled", "cancelled")
Submitted(row, u) == [Closed(row, "submitted", "superseded") EXCEPT !.cert = u]

\* The row createCertificateRequest inserts.
Created(method) ==
    [NoRow EXCEPT !.state = "open", !.method = method, !.createdAt = now,
                  !.delivery = IF method = "smtp" THEN "queued" ELSE @,
                  !.secret = (method = "smtp")]

\* The link created with a request or on its own.
NewLink(ttl, uses) == [NoLink EXCEPT !.expiresAt = now + ttl, !.maxUses = uses]

Revoked(lnk)      == [lnk EXCEPT !.revoked = TRUE]
LinkActive(l, at) == ~link[l].revoked /\ link[l].uses < link[l].maxUses
                                      /\ link[l].expiresAt > at

Publish(rs, type) ==
    events' = [r \in Requests |-> IF r \in rs THEN [events[r] EXCEPT ![type] = @ + 1]
                                              ELSE events[r]]

\* Mutants: requests already closed, or only the mailed ones, are cancelled.
CreatedOf(v)  == {r \in Requests : req[r].state # "absent" /\ VendorOf[r] = v}
OpenSmtpOf(v) == {r \in CreatedOf(v) : req[r].state = "open" /\ req[r].method = "smtp"}

OpenOf(v) == {r \in Requests : req[r].state = "open" /\ VendorOf[r] = v}

\* Cancel a set of open requests, revoke their links, publish one event each.
CancelOpen(rs) ==
    /\ req' = [r \in Requests |-> IF r \in rs THEN Cancelled(req[r]) ELSE req[r]]
    /\ link' = [l \in Links |-> IF l \in rs THEN Revoked(link[l]) ELSE link[l]]
    /\ Publish(rs, "cancelled")

-----------------------------------------------------------------------------
(* Staff routes and the service API.                                       *)

\* SMTP requests of the vendor that still hold a usable link.
LiveSmtpOf(v) == {r \in OpenOf(v) : req[r].method = "smtp" /\ LinkActive(r, now)}

\* The horizon bound lets the clock reach the expiry of every link.
CreateRequest(r, method, ttl) ==
    /\ req[r].state = "absent" /\ VendorOf[r] \in active
    /\ now + ttl <= MaxTime
    /\ method = "smtp" => Cardinality(LiveSmtpOf(VendorOf[r])) < VendorOpenLimit
    /\ req' = [req EXCEPT ![r] = Created(method)]
    /\ link' = [link EXCEPT ![r] = NewLink(ttl, 1)]
    /\ Publish({r}, "created")
    /\ UNCHANGED <<now, active, docs, upload, worker, sends>>

CreateLink(l, ttl, uses) ==
    /\ link[l] = NoLink
    /\ now + ttl <= MaxTime
    /\ link' = [link EXCEPT ![l] = NewLink(ttl, uses)]
    /\ UNCHANGED <<now, active, req, docs, upload, worker, sends, events>>

CancelRequest(r) ==
    /\ req[r].state = "open"
    /\ CancelOpen({r})
    /\ UNCHANGED <<now, active, docs, upload, worker, sends>>

\* Revoking the link of an open request cancels the request.
RevokeLink(l) ==
    /\ link[l] # NoLink
    /\ IF l \in Requests /\ req[l].state = "open"
       THEN CancelOpen({l})
       ELSE /\ ~link[l].revoked
            /\ link' = [link EXCEPT ![l] = Revoked(@)]
            /\ UNCHANGED <<req, events>>
    /\ UNCHANGED <<now, active, docs, upload, worker, sends>>

\* PATCH of a vendor to inactive or archived; plain links stay as they are.
DeactivateVendor(v) ==
    /\ v \in active
    /\ active' = active \ {v}
    /\ CancelOpen(OpenOf(v))
    /\ UNCHANGED <<now, docs, upload, worker, sends>>

ActivateVendor(v) ==
    /\ v \notin active
    /\ active' = active \cup {v}
    /\ UNCHANGED <<now, req, link, docs, upload, worker, sends, events>>

-----------------------------------------------------------------------------
(* The public upload handler: the link is checked, the PDF is written to   *)
(* the store (an await), and one transaction consumes the link and stores  *)
(* the certificate.  That transaction uses the instant read at the start   *)
(* and does not look at the vendor again.                                  *)

BeginUpload(u, l) ==
    /\ upload[u].pc = "new"
    /\ LinkActive(l, now) /\ VendorOf[l] \in active
    /\ upload' = [upload EXCEPT ![u] = [pc |-> "storing", link |-> l, at |-> now]]
    /\ UNCHANGED <<now, rows, worker, sends, events>>

\* Mutant: the request's state is not read again.
ConsumableByLink(u) == LinkActive(upload[u].link, upload[u].at)

\* consumeUploadLink succeeds and the tracked request, if any, is open.
Consumable(u) ==
    LET l == upload[u].link
    IN  LinkActive(l, upload[u].at) /\ (l \in Requests => req[l].state = "open")

FinishUpload(u) ==
    /\ upload[u].pc = "storing" /\ Consumable(u)
    /\ LET l == upload[u].link IN
       /\ link' = [link EXCEPT ![l].uses = @ + 1]
       /\ docs' = [docs EXCEPT ![l] = @ \cup {u}]
       /\ req' = IF l \in Requests THEN [req EXCEPT ![l] = Submitted(@, u)] ELSE req
       /\ Publish({l} \cap Requests, "submitted")
    /\ upload' = [upload EXCEPT ![u] = Ended("accepted")]
    /\ UNCHANGED <<now, active, worker, sends>>

\* The transaction is rolled back and the stored file removed.
RejectUpload(u) ==
    /\ upload[u].pc = "storing" /\ ~Consumable(u)
    /\ upload' = [upload EXCEPT ![u] = Ended("rejected")]
    /\ UNCHANGED <<now, rows, worker, sends, events>>

CrashUpload(u) ==
    /\ upload[u].pc = "storing"
    /\ upload' = [upload EXCEPT ![u] = Ended("crashed")]
    /\ UNCHANGED <<now, rows, worker, sends, events>>

-----------------------------------------------------------------------------
(* The delivery worker.  A claim first brings every open request up to     *)
(* date, in this order, then leases the oldest due one.                    *)

Recovered(r) ==
    IF req[r].state = "open" /\ docs[r] # {}
    THEN Submitted(req[r], CHOOSE u \in docs[r] : TRUE) ELSE req[r]

Orphaned(r, row) ==
    IF row.state = "open" /\ (link[r].revoked \/ link[r].uses >= link[r].maxUses)
    THEN Cancelled(row) ELSE row

\* Mutant: only requests whose mail is still due expire.
ExpiredIfDue(r, row) ==
    IF row.state = "open" /\ link[r].expiresAt <= now
                          /\ row.delivery \in {"queued", "processing"}
    THEN Closed(row, "expired", "expired") ELSE row

Expired(r, row) ==
    IF row.state = "open" /\ link[r].expiresAt <= now
    THEN Closed(row, "expired", "expired") ELSE row

\* Mutant: the last attempt that nobody completed keeps its token.
AbandonedKeepingToken(row) ==
    [row EXCEPT !.delivery = "failed", !.claim = 0, !.claimedAt = NoTime, !.nextAt = NoTime]

\* A lease nobody completed: the final attempt fails, an earlier one is requeued.
Abandoned(row) == [row EXCEPT !.delivery = "failed", !.secret = FALSE,
                              !.claim = 0, !.claimedAt = NoTime, !.nextAt = NoTime]
Requeued(row)  == [row EXCEPT !.delivery = "queued",
                              !.claim = 0, !.claimedAt = NoTime, !.nextAt = now]

Unleased(row) ==
    IF row.state = "open" /\ row.delivery = "processing" /\ row.claimedAt <= now - Lease
    THEN IF row.attempts >= MaxAttempts THEN Abandoned(row) ELSE Requeued(row)
    ELSE row

Maintained(r) == Unleased(Expired(r, Orphaned(r, Recovered(r))))

Due(r, row) ==
    /\ row.state = "open" /\ row.method = "smtp" /\ row.delivery \in {"queued", "failed"}
    /\ row.secret /\ row.attempts < MaxAttempts /\ row.nextAt <= now
    /\ LinkActive(r, now)

\* The new claim token is fresh: attempts never decrease, so they name claims.
Leased(row) ==
    [row EXCEPT !.delivery = "processing", !.attempts = @ + 1, !.claim = row.attempts + 1,
                !.claimedAt = now, !.nextAt = NoTime]

DueAfterMaintenance == {r \in Requests : Due(r, Maintained(r))}

Claim(w, r) ==
    /\ worker[w].pc = "idle"
    /\ r \in DueAfterMaintenance
    /\ \A q \in DueAfterMaintenance : req[r].createdAt <= req[q].createdAt
    /\ req' = [q \in Requests |-> IF q = r THEN Leased(Maintained(q)) ELSE Maintained(q)]
    /\ worker' = [worker EXCEPT ![w] = [pc |-> "claimed", req |-> r,
                                        claim |-> req[r].attempts + 1]]
    /\ UNCHANGED <<now, active, link, docs, upload, sends, events>>

\* Nothing is due: the cycle ends, its maintenance stays.
ClaimNothing(w) ==
    /\ worker[w].pc = "idle"
    /\ DueAfterMaintenance = {}
    /\ req' = [q \in Requests |-> Maintained(q)]
    /\ UNCHANGED <<now, active, link, docs, upload, worker, sends, events>>

\* The vendor is read after the claim: an inactive one has its request cancelled.
DispatchInactive(w) ==
    LET r == worker[w].req IN
    /\ worker[w].pc = "claimed" /\ VendorOf[r] \notin active
    /\ CancelOpen(IF req[r].state = "open" THEN {r} ELSE {})
    /\ worker' = [worker EXCEPT ![w] = IdleWorker]
    /\ UNCHANGED <<now, active, docs, upload, sends>>

Dispatch(w) ==
    LET r == worker[w].req IN
    /\ worker[w].pc = "claimed" /\ VendorOf[r] \in active
    /\ sends' = [sends EXCEPT ![r] = @ + 1]
    /\ worker' = [worker EXCEPT ![w].pc = "sending"]
    /\ UNCHANGED <<now, rows, upload, events>>

\* Mutant: everything but the state is left out of the comparison.
FindsOpen(w) == req[worker[w].req].state = "open"

\* The compare-and-set of completeCertificateRequestDelivery.
HoldsLease(w) ==
    LET row == req[worker[w].req]
    IN  row.state = "open" /\ row.delivery = "processing" /\ row.claim = worker[w].claim

Settled(row, delivery, secret, nextAt) ==
    [row EXCEPT !.delivery = delivery, !.secret = secret, !.nextAt = nextAt,
                !.claim = 0, !.claimedAt = NoTime]

\* A transient failure is retried while an attempt and a backoff remain.
Retried(w, transient) ==
    /\ transient
    /\ worker[w].claim \in DOMAIN Backoff
    /\ req[worker[w].req].attempts < MaxAttempts

SendAccepted(w) ==
    LET r == worker[w].req IN
    /\ worker[w].pc = "sending" /\ HoldsLease(w)
    /\ req' = [req EXCEPT ![r] = Settled(@, "accepted", FALSE, NoTime)]
    /\ Publish({r}, "email_accepted")
    /\ worker' = [worker EXCEPT ![w] = IdleWorker]
    /\ UNCHANGED <<now, active, link, docs, upload, sends>>

SendFailed(w, transient) ==
    LET r     == worker[w].req
        retry == Retried(w, transient)
    IN  /\ worker[w].pc = "sending" /\ HoldsLease(w)
        /\ req' = [req EXCEPT ![r] =
              Settled(@, "failed", retry,
                      IF retry THEN now + Backoff[worker[w].claim] ELSE NoTime)]
        /\ Publish({r}, "email_failed")
        /\ worker' = [worker EXCEPT ![w] = IdleWorker]
        /\ UNCHANGED <<now, active, link, docs, upload, sends>>

\* An answer whose lease was lost in the meantime changes nothing.
LateAnswer(w) ==
    /\ worker[w].pc = "sending" /\ ~HoldsLease(w)
    /\ worker' = [worker EXCEPT ![w] = IdleWorker]
    /\ UNCHANGED <<now, rows, upload, sends, events>>

\* A worker process dies with a claim in hand; its successor starts idle.
CrashWorker(w) ==
    /\ worker[w].pc # "idle"
    /\ worker' = [worker EXCEPT ![w] = IdleWorker]
    /\ UNCHANGED <<now, rows, upload, sends, events>>

Tick ==
    /\ now < MaxTime
    /\ now' = now + 1
    /\ UNCHANGED <<rows, upload, worker, sends, events>>

-----------------------------------------------------------------------------
Staff ==
    \/ \E r \in Requests, m \in {"manual", "smtp"}, t \in Ttls : CreateRequest(r, m, t)
    \/ \E l \in PlainLinks, t \in Ttls, n \in PlainUses : CreateLink(l, t, n)
    \/ \E r \in Requests : CancelRequest(r)
    \/ \E l \in Links : RevokeLink(l)
    \/ \E v \in Vendors : DeactivateVendor(v) \/ ActivateVendor(v)

PublicUpload ==
    \E u \in Uploads :
        \/ \E l \in Links : BeginUpload(u, l)
        \/ FinishUpload(u) \/ RejectUpload(u) \/ CrashUpload(u)

AnswerArrives(w) ==
    \/ SendAccepted(w)
    \/ \E transient \in BOOLEAN : SendFailed(w, transient)
    \/ LateAnswer(w)

Cycle(w) ==
    \/ \E r \in Requests : Claim(w, r)
    \/ ClaimNothing(w)
    \/ DispatchInactive(w) \/ Dispatch(w)
    \/ AnswerArrives(w)

Next ==
    \/ Staff
    \/ PublicUpload
    \/ \E w \in Workers : Cycle(w) \/ CrashWorker(w)
    \/ Tick

Spec == Init /\ [][Next]_vars

\* The watch loop keeps running cycles, the 30 second deadline makes every
\* sendMail return, and time passes.  Staff and vendors owe nothing.
Fairness == WF_vars(Tick) /\ \A w \in Workers : WF_vars(Cycle(w))

LiveSpec == Spec /\ Fairness

-----------------------------------------------------------------------------
(* Properties.                                                             *)

TypeOK ==
    /\ now \in Nat
    /\ active \subseteq Vendors
    /\ req \in [Requests -> Row]
    /\ link \in [Links -> Link]
    /\ docs \in [Links -> SUBSET Uploads]
    /\ upload \in [Uploads -> [pc : {"new", "storing", "accepted", "rejected", "crashed"},
                               link : Links \cup {None}, at : Nat]]
    /\ worker \in [Workers -> [pc : {"idle", "claimed", "sending"},
                               req : Requests \cup {None}, claim : Nat]]
    /\ sends \in [Requests -> Nat]
    /\ events \in [Requests -> [EventTypes -> Nat]]

\* An open request always has a usable, unanswered link and an active vendor:
\* every route that revokes a link, uses it up or deactivates the vendor
\* closes the request in the same transaction.
OpenRequestIsAnswerable ==
    \A r \in Requests : req[r].state = "open" =>
        /\ ~link[r].revoked /\ link[r].uses < link[r].maxUses /\ docs[r] = {}
        /\ VendorOf[r] \in active

\* The recoverable upload token exists exactly while a mail is still due: only on
\* an open SMTP request that has an attempt in flight, or one left and planned.
\* Whatever ends the mail erases it, the sweep of a last attempt that nobody
\* completed included.
TokenOnlyWhileMailDue ==
    \A r \in Requests : LET row == req[r] IN
        /\ row.state = "open" /\ row.delivery \in {"queued", "processing"} => row.secret
        /\ row.secret =>
             /\ row.state = "open" /\ row.method = "smtp"
             /\ row.delivery \in {"queued", "processing", "failed"}
             /\ row.delivery # "processing" => row.attempts < MaxAttempts
             /\ row.delivery = "failed" => row.nextAt # NoTime

\* A request is submitted exactly when one certificate came through its
\* link, and that certificate is the one it records.
SubmittedByItsOwnLink ==
    \A r \in Requests :
        docs[r] = IF req[r].state = "submitted" THEN {req[r].cert} ELSE {}

\* However many workers crash, stall and reclaim, a request is mailed at most
\* MaxAttempts times.
SendBudget == \A r \in Requests : sends[r] <= MaxAttempts

\* Of the workers in flight for one request, however late, at most one can
\* still record an outcome.
OneLeaseHolder ==
    \A v, w \in Workers :
        /\ v # w /\ worker[v].pc # "idle" /\ worker[w].pc # "idle"
        /\ worker[v].req = worker[w].req
        => ~(HoldsLease(v) /\ HoldsLease(w))

\* The outbox agrees with the rows: one cancelled or submitted event per
\* request that was, one accepted event per accepted mail, and no more
\* outcomes than attempts.
EventsMatchRows ==
    \A r \in Requests : LET n == events[r] IN
        /\ n["created"]        = IF req[r].state = "absent" THEN 0 ELSE 1
        /\ n["cancelled"]      = IF req[r].state = "cancelled" THEN 1 ELSE 0
        /\ n["submitted"]      = IF req[r].state = "submitted" THEN 1 ELSE 0
        /\ n["email_accepted"] = IF req[r].delivery = "accepted" THEN 1 ELSE 0
        /\ n["email_accepted"] + n["email_failed"] <= req[r].attempts

\* A plain link never yields more certificates than its max_uses, whatever
\* uploads overlap.
LinkBudget == \A l \in Links : Cardinality(docs[l]) <= link[l].maxUses

\* Revoking a link is final even for uploads already past their first check:
\* no certificate comes through it afterwards.
RevokedLinkTakesNothing ==
    [][\A l \in Links : link[l].revoked => link'[l].revoked /\ docs'[l] = docs[l]]_vars

\* What the requests promise, with leases, attempts and claims hidden.
MailOf(row) ==
    IF row.method = "manual" THEN "none"
    ELSE IF row.secret THEN "pending"
    ELSE IF row.delivery \in {"accepted", "failed"} THEN row.delivery ELSE "void"

Contract == INSTANCE RequestContract WITH
    Certificates <- Uploads,
    phase   <- [r \in Requests |-> req[r].state],
    mail    <- [r \in Requests |-> MailOf(req[r])],
    receipt <- [r \in Requests |-> req[r].cert]

ImplementsContract == Contract!Spec

\* Under the worker's fairness, every request the worker can see eventually leaves the open state.
RequestEventuallyCloses ==
    \A r \in Requests : req[r].state = "open" ~> req[r].state # "open"
=============================================================================
