---------------------- MODULE CertificateRequestsProofs ----------------------
(***************************************************************************)
(* Safety of CertificateRequests, for any number of requests, links,       *)
(* vendors, workers and uploads, and any timing constants.  The argument   *)
(* has four parts: types; an open request stays answerable, so the legacy  *)
(* sweeps of a claim never fire; hence a step changes a request's row in   *)
(* one of eight ways; hence the invariants of single rows, and the         *)
(* refinement of the contract, follow row by row.                          *)
(***************************************************************************)
EXTENDS CertificateRequests, FiniteSetTheorems, TLAPS

-----------------------------------------------------------------------------
(* Types.                                                                  *)

\* A handler in flight works on a row that exists as an identifier.
InFlight ==
    /\ \A w \in Workers : worker[w].pc # "idle" => worker[w].req \in Requests
    /\ \A u \in Uploads : upload[u].pc = "storing" => upload[u].link \in Links

TypeInv == TypeOK /\ InFlight

\* Closing a row, by any of the three roads out of open, gives a row.
LEMMA ClosedType ==
    ASSUME NEW row \in Row, NEW state \in States, NEW void \in Deliveries
    PROVE  Closed(row, state, void) \in Row
<1> DEFINE status == IF row.method = "smtp" /\ row.delivery \in {"queued", "processing"}
                     THEN void ELSE row.delivery
<1>1. 0 \in Nat /\ NoTime \in Time /\ status \in Deliveries
  BY DEF Row, Time
<1>2. Closed(row, state, void) =
        [row EXCEPT !.state = state, !.delivery = status, !.secret = FALSE,
                    !.claim = 0, !.claimedAt = NoTime, !.nextAt = NoTime]
  BY DEF Closed
<1> HIDE DEF status
<1> QED BY <1>1, <1>2 DEF Row

\* So does cancelling it.
LEMMA CancelledType ==
    ASSUME NEW row \in Row PROVE Cancelled(row) \in Row
BY ClosedType DEF Cancelled, States, Deliveries

\* So does answering it with a certificate.
LEMMA SubmittedType ==
    ASSUME NEW row \in Row, NEW u \in Uploads PROVE Submitted(row, u) \in Row
<1>1. Closed(row, "submitted", "superseded") \in Row
  BY ClosedType DEF States, Deliveries
<1> QED BY <1>1 DEF Submitted, Row

\* The sweeps of a claim turn a row into a row.
LEMMA MaintainedType ==
    ASSUME TypeInv, NEW r \in Requests PROVE Maintained(r) \in Row
<1>1. req[r] \in Row /\ docs[r] \subseteq Uploads /\ now \in Nat
  BY DEF TypeInv, TypeOK, Links
<1>2. Recovered(r) \in Row
  <2>1. CASE docs[r] # {}
    <3>1. (CHOOSE u \in docs[r] : TRUE) \in docs[r]
      BY <2>1
    <3> QED BY <1>1, <3>1, SubmittedType DEF Recovered
  <2>2. CASE docs[r] = {}
    BY <1>1, <2>2 DEF Recovered
  <2> QED BY <2>1, <2>2
<1>3. Orphaned(r, Recovered(r)) \in Row
  BY <1>2, CancelledType DEF Orphaned
<1>4. Expired(r, Orphaned(r, Recovered(r))) \in Row
  BY <1>3, ClosedType DEF Expired, States, Deliveries
<1>5. ASSUME NEW row \in Row PROVE Unleased(row) \in Row
  BY <1>1, <1>5 DEF Unleased, Abandoned, Requeued, Row, Time, NoTime, Deliveries
<1> QED BY <1>4, <1>5 DEF Maintained

\* The update a claim makes gives a row.
LEMMA LeasedType ==
    ASSUME TypeInv, NEW row \in Row PROVE Leased(row) \in Row
<1>1. now \in Time /\ NoTime \in Time /\ row.attempts + 1 \in Nat /\ "processing" \in Deliveries
  BY DEF TypeInv, TypeOK, Time, Row, Deliveries
<1>2. Leased(row) = [row EXCEPT !.delivery = "processing", !.attempts = row.attempts + 1,
                                !.claim = row.attempts + 1, !.claimedAt = now, !.nextAt = NoTime]
  BY DEF Leased
<1> QED BY <1>1, <1>2 DEF Row

\* The update that records an outcome gives a row.
LEMMA SettledType ==
    ASSUME NEW row \in Row, NEW delivery \in Deliveries, NEW secret \in BOOLEAN,
           NEW nextAt \in Time
    PROVE  Settled(row, delivery, secret, nextAt) \in Row
<1>1. 0 \in Nat /\ NoTime \in Time
  BY DEF Time
<1> QED BY <1>1 DEF Settled, Row

\* Revoking a link gives a link.
LEMMA RevokedType ==
    ASSUME NEW lnk \in Link PROVE Revoked(lnk) \in Link
BY DEF Revoked, Link

\* The link a staff action creates; its expiry is a time.
LEMMA NewLinkType ==
    ASSUME TypeInv, NEW ttl \in Nat, NEW uses \in Nat
    PROVE  NewLink(ttl, uses) \in Link
<1>1. 0 \in Nat /\ now + ttl \in Time
  BY DEF TypeInv, TypeOK, Time
<1> QED BY <1>1 DEF NewLink, NoLink, Link

\* An upload handler that ends keeps its record's type.
LEMMA MovedType ==
    ASSUME TypeInv, NEW u \in Uploads, NEW pc \in {"accepted", "rejected", "crashed"},
           upload' = [upload EXCEPT ![u] = Ended(pc)]
    PROVE  upload' \in [Uploads -> [pc : {"new", "storing", "accepted", "rejected", "crashed"},
                                    link : Links \cup {None}, at : Nat]]
<1>1. Ended(pc) = [pc |-> pc, link |-> None, at |-> 0]
  BY DEF Ended, NewUpload
<1> QED BY <1>1 DEF TypeInv, TypeOK

\* Publishing keeps the outbox counters natural numbers.
LEMMA PublishType ==
    ASSUME TypeInv, NEW rs, NEW type \in EventTypes, Publish(rs, type)
    PROVE  events' \in [Requests -> [EventTypes -> Nat]]
<1>1. ASSUME NEW r \in Requests
      PROVE  [events[r] EXCEPT ![type] = @ + 1] \in [EventTypes -> Nat]
  BY DEF TypeInv, TypeOK
<1> QED BY <1>1 DEF TypeInv, TypeOK, Publish

\* Cancelling a set of requests keeps the types of rows, links and events.
LEMMA CancelOpenType ==
    ASSUME TypeInv, NEW rs \in SUBSET Requests, CancelOpen(rs)
    PROVE  /\ req' \in [Requests -> Row]
           /\ link' \in [Links -> Link]
           /\ events' \in [Requests -> [EventTypes -> Nat]]
<1>1. req' \in [Requests -> Row]
  BY CancelledType DEF TypeInv, TypeOK, CancelOpen
<1>2. link' \in [Links -> Link]
  BY RevokedType DEF TypeInv, TypeOK, CancelOpen
<1>3. events' \in [Requests -> [EventTypes -> Nat]]
  BY PublishType DEF CancelOpen, EventTypes
<1> QED BY <1>1, <1>2, <1>3

\* Every action keeps the types.
LEMMA TypeStep == ASSUME TypeInv, [Next]_vars PROVE TypeInv'
<1> USE RequestAssumption, TimingAssumption
<1>1. ASSUME NEW r \in Requests, NEW m \in {"manual", "smtp"}, NEW t \in Ttls,
             CreateRequest(r, m, t)
      PROVE  TypeInv'
  <2>1. Created(m) \in Row
    BY DEF TypeInv, TypeOK, Created, NoRow, Row, Time, NoTime, States, Deliveries
  <2>2. req' \in [Requests -> Row]
    BY <1>1, <2>1 DEF CreateRequest, TypeInv, TypeOK
  <2>3. link' \in [Links -> Link]
    <3>1. t \in Nat /\ 1 \in Nat
      OBVIOUS
    <3> QED BY <1>1, <3>1, NewLinkType DEF CreateRequest, TypeInv, TypeOK
  <2>4. events' \in [Requests -> [EventTypes -> Nat]]
    BY <1>1, PublishType DEF CreateRequest, EventTypes
  <2> QED BY <1>1, <2>2, <2>3, <2>4 DEF CreateRequest, TypeInv, TypeOK, InFlight
<1>2. ASSUME NEW l \in PlainLinks, NEW t \in Ttls, NEW n \in PlainUses, CreateLink(l, t, n)
      PROVE  TypeInv'
  <2>1. t \in Nat /\ n \in Nat
    OBVIOUS
  <2>2. link' \in [Links -> Link]
    BY <1>2, <2>1, NewLinkType DEF CreateLink, TypeInv, TypeOK
  <2> QED BY <1>2, <2>2 DEF CreateLink, TypeInv, TypeOK, InFlight
<1>3. ASSUME NEW r \in Requests, CancelRequest(r) PROVE TypeInv'
  BY <1>3, CancelOpenType DEF CancelRequest, TypeInv, TypeOK, InFlight
<1>4. ASSUME NEW l \in Links, RevokeLink(l) PROVE TypeInv'
  <2>1. CASE l \in Requests /\ req[l].state = "open"
    BY <1>4, <2>1, CancelOpenType DEF RevokeLink, TypeInv, TypeOK, InFlight
  <2>2. CASE ~(l \in Requests /\ req[l].state = "open")
    <3>1. link' \in [Links -> Link]
      BY <1>4, <2>2, RevokedType DEF RevokeLink, TypeInv, TypeOK
    <3> QED BY <1>4, <2>2, <3>1 DEF RevokeLink, TypeInv, TypeOK, InFlight
  <2> QED BY <2>1, <2>2
<1>5. ASSUME NEW v \in Vendors, DeactivateVendor(v) PROVE TypeInv'
  <2>1. OpenOf(v) \subseteq Requests
    BY DEF OpenOf
  <2> QED BY <1>5, <2>1, CancelOpenType DEF DeactivateVendor, TypeInv, TypeOK, InFlight
<1>6. ASSUME NEW v \in Vendors, ActivateVendor(v) PROVE TypeInv'
  BY <1>6 DEF ActivateVendor, TypeInv, TypeOK, InFlight
<1>7. ASSUME NEW u \in Uploads, NEW l \in Links, BeginUpload(u, l) PROVE TypeInv'
  BY <1>7 DEF BeginUpload, rows, TypeInv, TypeOK, InFlight
<1>8. ASSUME NEW u \in Uploads, FinishUpload(u) PROVE TypeInv'
  <2> DEFINE l == upload[u].link
  <2>1. l \in Links
    BY <1>8 DEF FinishUpload, TypeInv, InFlight
  <2>2. req' \in [Requests -> Row]
    BY <1>8, <2>1, SubmittedType DEF FinishUpload, TypeInv, TypeOK
  <2>3. link' \in [Links -> Link]
    <3>1. ASSUME NEW lnk \in Link PROVE [lnk EXCEPT !.uses = @ + 1] \in Link
      BY DEF Link
    <3> QED BY <1>8, <2>1, <3>1 DEF FinishUpload, TypeInv, TypeOK
  <2>4. docs' \in [Links -> SUBSET Uploads]
    BY <1>8, <2>1 DEF FinishUpload, TypeInv, TypeOK
  <2>5. events' \in [Requests -> [EventTypes -> Nat]]
    BY <1>8, PublishType DEF FinishUpload, EventTypes
  <2>6. upload' = [upload EXCEPT ![u] = Ended("accepted")]
    BY <1>8 DEF FinishUpload
  <2>7. TypeOK'
    <3>1. upload' \in [Uploads -> [pc : {"new", "storing", "accepted", "rejected", "crashed"},
                                   link : Links \cup {None}, at : Nat]]
      BY <2>6, MovedType
    <3>2. UNCHANGED <<now, active, worker, sends>>
      BY <1>8 DEF FinishUpload
    <3> QED BY <2>2, <2>3, <2>4, <2>5, <3>1, <3>2 DEF TypeInv, TypeOK
  <2>8. InFlight'
    BY <1>8, <2>6 DEF FinishUpload, Ended, NewUpload, TypeInv, TypeOK, InFlight
  <2> QED BY <2>7, <2>8 DEF TypeInv
<1>9. ASSUME NEW u \in Uploads, RejectUpload(u) \/ CrashUpload(u) PROVE TypeInv'
  <2>1. PICK pc \in {"rejected", "crashed"} : upload' = [upload EXCEPT ![u] = Ended(pc)]
    BY <1>9 DEF RejectUpload, CrashUpload
  <2>2. UNCHANGED <<now, active, req, link, docs, worker, sends, events>>
    BY <1>9 DEF RejectUpload, CrashUpload, rows
  <2>3. TypeOK'
    BY <2>1, <2>2, MovedType DEF TypeInv, TypeOK
  <2>4. InFlight'
    BY <2>1, <2>2 DEF Ended, NewUpload, TypeInv, TypeOK, InFlight
  <2> QED BY <2>3, <2>4 DEF TypeInv
<1>10. ASSUME NEW w \in Workers, NEW r \in Requests, Claim(w, r) PROVE TypeInv'
  <2>1. \A q \in Requests : Maintained(q) \in Row /\ Leased(Maintained(q)) \in Row
    BY MaintainedType, LeasedType
  <2>2. req' \in [Requests -> Row]
    BY <1>10, <2>1 DEF Claim
  <2>3. req[r].attempts + 1 \in Nat
    BY DEF TypeInv, TypeOK, Row
  <2> QED BY <1>10, <2>2, <2>3 DEF Claim, TypeInv, TypeOK, InFlight
<1>11. ASSUME NEW w \in Workers, ClaimNothing(w) PROVE TypeInv'
  BY <1>11, MaintainedType DEF ClaimNothing, TypeInv, TypeOK, InFlight
<1>12. ASSUME NEW w \in Workers, DispatchInactive(w) PROVE TypeInv'
  <2>1. (IF req[worker[w].req].state = "open" THEN {worker[w].req} ELSE {}) \in SUBSET Requests
    BY <1>12 DEF DispatchInactive, TypeInv, InFlight
  <2> QED BY <1>12, <2>1, CancelOpenType DEF DispatchInactive, IdleWorker, TypeInv, TypeOK, InFlight
<1>13. ASSUME NEW w \in Workers, Dispatch(w) PROVE TypeInv'
  BY <1>13 DEF Dispatch, rows, TypeInv, TypeOK, InFlight
<1>14. ASSUME NEW w \in Workers, SendAccepted(w) PROVE TypeInv'
  <2>1. req' \in [Requests -> Row]
    <3>1. NoTime \in Time /\ "accepted" \in Deliveries /\ worker[w].req \in Requests
      BY <1>14 DEF SendAccepted, TypeInv, InFlight, Time, Deliveries
    <3> QED BY <1>14, <3>1, SettledType DEF SendAccepted, TypeInv, TypeOK
  <2>2. events' \in [Requests -> [EventTypes -> Nat]]
    BY <1>14, PublishType DEF SendAccepted, EventTypes
  <2> QED BY <1>14, <2>1, <2>2 DEF SendAccepted, IdleWorker, TypeInv, TypeOK, InFlight
<1>15. ASSUME NEW w \in Workers, NEW transient \in BOOLEAN, SendFailed(w, transient)
       PROVE  TypeInv'
  <2> DEFINE nextAt == IF Retried(w, transient) THEN now + Backoff[worker[w].claim] ELSE NoTime
  <2>1. nextAt \in Time /\ Retried(w, transient) \in BOOLEAN
    BY DEF Retried, TypeInv, TypeOK, Time, NoTime
  <2>2. req' \in [Requests -> Row]
    <3>1. "failed" \in Deliveries /\ worker[w].req \in Requests
      BY <1>15 DEF SendFailed, TypeInv, InFlight, Deliveries
    <3> QED BY <1>15, <2>1, <3>1, SettledType DEF SendFailed, TypeInv, TypeOK
  <2>3. events' \in [Requests -> [EventTypes -> Nat]]
    BY <1>15, PublishType DEF SendFailed, EventTypes
  <2> QED BY <1>15, <2>2, <2>3 DEF SendFailed, IdleWorker, TypeInv, TypeOK, InFlight
<1>16. ASSUME NEW w \in Workers, LateAnswer(w) \/ CrashWorker(w) PROVE TypeInv'
  <2>1. worker' = [worker EXCEPT ![w] = IdleWorker]
    BY <1>16 DEF LateAnswer, CrashWorker
  <2>2. UNCHANGED <<now, active, req, link, docs, upload, sends, events>>
    BY <1>16 DEF LateAnswer, CrashWorker, rows
  <2> QED BY <2>1, <2>2 DEF IdleWorker, TypeInv, TypeOK, InFlight
<1>17. CASE Tick
  BY <1>17 DEF Tick, rows, TypeInv, TypeOK, InFlight
<1>18. CASE UNCHANGED vars
  BY <1>18 DEF vars, TypeInv, TypeOK, InFlight
<1> QED
  BY <1>1, <1>2, <1>3, <1>4, <1>5, <1>6, <1>7, <1>8, <1>9, <1>10, <1>11, <1>12, <1>13,
     <1>14, <1>15, <1>16, <1>17, <1>18
     DEF Next, Staff, PublicUpload, Cycle, AnswerArrives

\* Every variable keeps its type, and handlers in flight keep naming existing
\* requests and links.
THEOREM TypeCorrect == Spec => []TypeInv
<1>1. Init => TypeInv
  BY DEF Init, TypeInv, TypeOK, InFlight, NoRow, NoLink, IdleWorker, NewUpload,
         Row, Link, Time, NoTime, States, Deliveries, EventTypes
<1>2. TypeInv /\ [Next]_vars => TypeInv'
  BY TypeStep
<1> QED BY <1>1, <1>2, PTL DEF Spec

\* The type invariant the runs check.
THEOREM TypesHold == Spec => []TypeOK
<1>1. TypeInv => TypeOK
  BY DEF TypeInv
<1> QED BY <1>1, TypeCorrect, PTL

-----------------------------------------------------------------------------
(* Open requests are answerable.                                           *)

Answerable == OpenRequestIsAnswerable /\ SubmittedByItsOwnLink

\* On answerable requests a claim only expires rows and collects dead leases.
LEMMA MaintainedIs ==
    ASSUME TypeInv, Answerable, NEW r \in Requests
    PROVE  Maintained(r) = Unleased(Expired(r, req[r]))
<1>1. Recovered(r) = req[r]
  BY DEF Answerable, OpenRequestIsAnswerable, Recovered
<1>2. r \in Links /\ link[r] \in Link
  BY DEF TypeInv, TypeOK, Links
<1>3. Orphaned(r, req[r]) = req[r]
  BY <1>2 DEF Answerable, OpenRequestIsAnswerable, Orphaned, Link
<1> QED BY <1>1, <1>3 DEF Maintained

\* The four ways the sweeps leave a row.
LEMMA Swept ==
    ASSUME TypeInv, Answerable, NEW r \in Requests
    PROVE  \/ Maintained(r) = req[r]
           \/ /\ req[r].state = "open"
              /\ Maintained(r) = Closed(req[r], "expired", "expired")
           \/ /\ req[r].state = "open" /\ req[r].delivery = "processing"
              /\ req[r].attempts >= MaxAttempts
              /\ Maintained(r) = Abandoned(req[r])
           \/ /\ req[r].state = "open" /\ req[r].delivery = "processing"
              /\ req[r].attempts < MaxAttempts
              /\ Maintained(r) = Requeued(req[r])
<1>1. req[r] \in Row /\ req[r].attempts \in Nat
  BY DEF TypeInv, TypeOK, Row
<1>2. CASE req[r].state = "open" /\ link[r].expiresAt <= now
  <2>1. Expired(r, req[r]) = Closed(req[r], "expired", "expired")
    BY <1>2 DEF Expired
  <2>2. Closed(req[r], "expired", "expired").state = "expired"
    BY <1>1 DEF Closed, Row
  <2> QED BY <1>2, <2>1, <2>2, MaintainedIs DEF Unleased
<1>3. CASE ~(req[r].state = "open" /\ link[r].expiresAt <= now)
  <2>1. Maintained(r) = Unleased(req[r])
    BY <1>3, MaintainedIs DEF Expired
  <2> QED BY <1>1, <2>1, TimingAssumption DEF Unleased
<1> QED BY <1>2, <1>3

\* What the sweeps cannot do: leave the open state other than by expiry, or
\* change the recorded certificate.
LEMMA SweptState ==
    ASSUME TypeInv, Answerable, NEW r \in Requests
    PROVE  /\ Maintained(r).cert = req[r].cert
           /\ \/ Maintained(r).state = req[r].state
              \/ req[r].state = "open" /\ Maintained(r).state = "expired"
<1>1. req[r] \in Row
  BY DEF TypeInv, TypeOK
<1> QED BY <1>1, Swept DEF Closed, Abandoned, Requeued, Row

\* A claim's last update leaves state and certificate alone.
LEMMA LeasedState ==
    ASSUME NEW row \in Row
    PROVE  Leased(row).state = row.state /\ Leased(row).cert = row.cert
BY DEF Leased, Row

\* Leaving the open state by cancellation.
LEMMA CancelledState ==
    ASSUME NEW row \in Row
    PROVE  Cancelled(row).state = "cancelled" /\ Cancelled(row).cert = row.cert
BY DEF Cancelled, Closed, Row

\* Leaving the open state by an answer.
LEMMA SubmittedState ==
    ASSUME NEW row \in Row, NEW u \in Uploads
    PROVE  Submitted(row, u).state = "submitted" /\ Submitted(row, u).cert = u
BY DEF Submitted, Closed, Row

\* Recording an outcome leaves state and certificate alone.
LEMMA SettledState ==
    ASSUME NEW row \in Row, NEW delivery, NEW secret, NEW nextAt
    PROVE  /\ Settled(row, delivery, secret, nextAt).state = row.state
           /\ Settled(row, delivery, secret, nextAt).cert = row.cert
BY DEF Settled, Row

\* Cancelling open requests keeps every other one answerable, provided the
\* vendors that become inactive have no other open request.
LEMMA CancelOpenKeeps ==
    ASSUME TypeInv, Answerable, NEW rs \in SUBSET Requests, CancelOpen(rs), docs' = docs,
           \A r \in rs : req[r].state = "open",
           \A r \in Requests \ rs : req[r].state = "open" => VendorOf[r] \in active'
    PROVE  Answerable'
<1> SUFFICES ASSUME NEW r \in Requests
             PROVE  /\ req'[r].state = "open" =>
                         /\ ~link'[r].revoked /\ link'[r].uses < link'[r].maxUses
                         /\ docs'[r] = {} /\ VendorOf[r] \in active'
                    /\ docs'[r] = IF req'[r].state = "submitted" THEN {req'[r].cert} ELSE {}
  BY DEF Answerable, OpenRequestIsAnswerable, SubmittedByItsOwnLink
<1>1. r \in Links /\ req[r] \in Row
  BY DEF TypeInv, TypeOK, Links
<1>2. CASE r \in rs
  <2>1. req'[r].state = "cancelled"
    BY <1>1, <1>2, CancelledState DEF CancelOpen
  <2> QED BY <1>2, <2>1 DEF Answerable, OpenRequestIsAnswerable
<1>3. CASE r \notin rs
  <2>1. req'[r] = req[r] /\ link'[r] = link[r]
    BY <1>1, <1>3 DEF CancelOpen
  <2> QED BY <1>3, <2>1 DEF Answerable, OpenRequestIsAnswerable, SubmittedByItsOwnLink
<1> QED BY <1>2, <1>3

\* A step that leaves requests, links and certificates alone, and deactivates
\* no vendor, keeps every open request answerable.
LEMMA UnchangedKeeps ==
    ASSUME Answerable, UNCHANGED <<req, link, docs>>, active \subseteq active'
    PROVE  Answerable'
BY DEF Answerable, OpenRequestIsAnswerable, SubmittedByItsOwnLink

\* So does a step of the worker that only moves rows along.
LEMMA WorkerKeeps ==
    ASSUME TypeInv, Answerable, UNCHANGED <<active, link, docs>>,
           \A r \in Requests :
              /\ req'[r].cert = req[r].cert
              /\ \/ req'[r].state = req[r].state
                 \/ req[r].state = "open" /\ req'[r].state = "expired"
    PROVE  Answerable'
BY DEF Answerable, OpenRequestIsAnswerable, SubmittedByItsOwnLink

\* An open request always has a usable, unanswered link and an active vendor,
\* and a submitted one has exactly the certificate that came through its link:
\* the legacy sweeps of claimCertificateRequestDelivery find nothing.
LEMMA AnswerableStep ==
    ASSUME TypeInv, Answerable, [Next]_vars PROVE Answerable'
<1> USE RequestAssumption, TimingAssumption
<1>1. ASSUME NEW r \in Requests, NEW m \in {"manual", "smtp"}, NEW t \in Ttls,
             CreateRequest(r, m, t)
      PROVE  Answerable'
  <2> SUFFICES ASSUME NEW q \in Requests
               PROVE  /\ req'[q].state = "open" =>
                           /\ ~link'[q].revoked /\ link'[q].uses < link'[q].maxUses
                           /\ docs'[q] = {} /\ VendorOf[q] \in active'
                      /\ docs'[q] = IF req'[q].state = "submitted" THEN {req'[q].cert} ELSE {}
    BY DEF Answerable, OpenRequestIsAnswerable, SubmittedByItsOwnLink
  <2>1. CASE q = r
    <3>1. docs[r] = {}
      BY <1>1 DEF CreateRequest, Answerable, SubmittedByItsOwnLink
    <3>2. req'[r] = Created(m)
      BY <1>1 DEF CreateRequest, TypeInv, TypeOK
    <3>3. req'[r].state = "open"
      BY <3>2 DEF Created, NoRow
    <3>4. link'[r] = NewLink(t, 1)
      BY <1>1 DEF CreateRequest, TypeInv, TypeOK, Links
    <3>5. ~link'[r].revoked /\ link'[r].uses < link'[r].maxUses
      BY <3>4 DEF NewLink, NoLink
    <3> QED BY <1>1, <2>1, <3>1, <3>3, <3>5 DEF CreateRequest
  <2>2. CASE q # r
    <3>1. req'[q] = req[q] /\ link'[q] = link[q] /\ UNCHANGED <<active, docs>>
      BY <1>1, <2>2 DEF CreateRequest, TypeInv, TypeOK, Links
    <3> QED BY <3>1 DEF Answerable, OpenRequestIsAnswerable, SubmittedByItsOwnLink
  <2> QED BY <2>1, <2>2
<1>2. ASSUME NEW l \in PlainLinks, NEW t \in Ttls, NEW n \in PlainUses, CreateLink(l, t, n)
      PROVE  Answerable'
  <2>1. \A r \in Requests : link'[r] = link[r]
    BY <1>2 DEF CreateLink, TypeInv, TypeOK, Links
  <2>2. UNCHANGED <<active, req, docs>>
    BY <1>2 DEF CreateLink
  <2> QED BY <2>1, <2>2 DEF Answerable, OpenRequestIsAnswerable, SubmittedByItsOwnLink
<1>3. ASSUME NEW r \in Requests, CancelRequest(r) PROVE Answerable'
  BY <1>3, CancelOpenKeeps DEF CancelRequest, Answerable, OpenRequestIsAnswerable
<1>4. ASSUME NEW l \in Links, RevokeLink(l) PROVE Answerable'
  <2>1. CASE l \in Requests /\ req[l].state = "open"
    BY <1>4, <2>1, CancelOpenKeeps DEF RevokeLink, Answerable, OpenRequestIsAnswerable
  <2>2. CASE ~(l \in Requests /\ req[l].state = "open")
    <3>1. \A r \in Requests : req[r].state = "open" => link'[r] = link[r]
      BY <1>4, <2>2 DEF RevokeLink, TypeInv, TypeOK, Links
    <3>2. UNCHANGED <<active, req, docs>>
      BY <1>4, <2>2 DEF RevokeLink
    <3> QED BY <3>1, <3>2 DEF Answerable, OpenRequestIsAnswerable, SubmittedByItsOwnLink
  <2> QED BY <2>1, <2>2
<1>5. ASSUME NEW v \in Vendors, DeactivateVendor(v) PROVE Answerable'
  <2>1. CancelOpen(OpenOf(v)) /\ docs' = docs /\ OpenOf(v) \in SUBSET Requests
    BY <1>5 DEF DeactivateVendor, OpenOf
  <2>2. \A r \in OpenOf(v) : req[r].state = "open"
    BY DEF OpenOf
  <2>3. \A r \in Requests \ OpenOf(v) : req[r].state = "open" => VendorOf[r] \in active'
    BY <1>5 DEF DeactivateVendor, OpenOf, Answerable, OpenRequestIsAnswerable
  <2> QED BY <2>1, <2>2, <2>3, CancelOpenKeeps
<1>6. ASSUME NEW v \in Vendors, ActivateVendor(v) PROVE Answerable'
  BY <1>6, UnchangedKeeps DEF ActivateVendor
<1>7. ASSUME NEW u \in Uploads, NEW l \in Links, BeginUpload(u, l) PROVE Answerable'
  BY <1>7, UnchangedKeeps DEF BeginUpload, rows
<1>8. ASSUME NEW u \in Uploads, FinishUpload(u) PROVE Answerable'
  <2> DEFINE l == upload[u].link
  <2>1. l \in Links /\ UNCHANGED active
    BY <1>8 DEF FinishUpload, TypeInv, InFlight
  <2> SUFFICES ASSUME NEW r \in Requests
               PROVE  /\ req'[r].state = "open" =>
                           /\ ~link'[r].revoked /\ link'[r].uses < link'[r].maxUses
                           /\ docs'[r] = {} /\ VendorOf[r] \in active'
                      /\ docs'[r] = IF req'[r].state = "submitted" THEN {req'[r].cert} ELSE {}
    BY DEF Answerable, OpenRequestIsAnswerable, SubmittedByItsOwnLink
  <2>2. CASE r = l
    <3>1. req[r].state = "open" /\ docs[r] = {}
      BY <1>8, <2>2 DEF FinishUpload, Consumable, Answerable, OpenRequestIsAnswerable
    <3>2. req'[r] = Submitted(req[r], u) /\ req[r] \in Row
      BY <1>8, <2>2 DEF FinishUpload, TypeInv, TypeOK
    <3>3. docs'[r] = {u}
      BY <1>8, <2>1, <2>2, <3>1 DEF FinishUpload, TypeInv, TypeOK
    <3> QED BY <3>2, <3>3, SubmittedState
  <2>3. CASE r # l
    <3>1. req'[r] = req[r] /\ link'[r] = link[r] /\ docs'[r] = docs[r]
      BY <1>8, <2>1, <2>3 DEF FinishUpload, TypeInv, TypeOK, Links
    <3> QED BY <2>1, <3>1 DEF Answerable, OpenRequestIsAnswerable, SubmittedByItsOwnLink
  <2> QED BY <2>2, <2>3
<1>9. ASSUME NEW u \in Uploads, RejectUpload(u) \/ CrashUpload(u) PROVE Answerable'
  BY <1>9, UnchangedKeeps DEF RejectUpload, CrashUpload, rows
<1>10. ASSUME NEW w \in Workers, NEW r \in Requests, Claim(w, r) PROVE Answerable'
  <2>1. \A q \in Requests : req'[q] = Maintained(q) \/ req'[q] = Leased(Maintained(q))
    BY <1>10 DEF Claim
  <2>2. \A q \in Requests : Maintained(q) \in Row
    BY MaintainedType
  <2>3. UNCHANGED <<active, link, docs>>
    BY <1>10 DEF Claim
  <2> QED BY <2>1, <2>2, <2>3, SweptState, LeasedState, WorkerKeeps
<1>11. ASSUME NEW w \in Workers, ClaimNothing(w) PROVE Answerable'
  <2>1. \A q \in Requests : req'[q] = Maintained(q)
    BY <1>11 DEF ClaimNothing
  <2> QED BY <1>11, <2>1, SweptState, WorkerKeeps DEF ClaimNothing
<1>12. ASSUME NEW w \in Workers, DispatchInactive(w) PROVE Answerable'
  <2> DEFINE rs == IF req[worker[w].req].state = "open" THEN {worker[w].req} ELSE {}
  <2>1. rs \in SUBSET Requests /\ \A r \in rs : req[r].state = "open"
    BY <1>12 DEF DispatchInactive, TypeInv, InFlight
  <2>2. CancelOpen(rs) /\ docs' = docs /\ active' = active
    BY <1>12 DEF DispatchInactive
  <2> HIDE DEF rs
  <2> QED BY <2>1, <2>2, CancelOpenKeeps DEF Answerable, OpenRequestIsAnswerable
<1>13. ASSUME NEW w \in Workers, Dispatch(w) PROVE Answerable'
  BY <1>13, UnchangedKeeps DEF Dispatch, rows
<1>14. ASSUME NEW w \in Workers, SendAccepted(w) PROVE Answerable'
  <2>1. \A r \in Requests : req'[r] = req[r]
                              \/ req'[r] = Settled(req[r], "accepted", FALSE, NoTime)
    BY <1>14 DEF SendAccepted, TypeInv, TypeOK
  <2>2. \A r \in Requests : req[r] \in Row
    BY DEF TypeInv, TypeOK
  <2>3. \A r \in Requests : req'[r].state = req[r].state /\ req'[r].cert = req[r].cert
    <3> SUFFICES ASSUME NEW r \in Requests
                 PROVE  req'[r].state = req[r].state /\ req'[r].cert = req[r].cert
      OBVIOUS
    <3>1. req[r] \in Row
      BY <2>2
    <3>2. CASE req'[r] = req[r]
      BY <3>2
    <3>3. CASE req'[r] = Settled(req[r], "accepted", FALSE, NoTime)
      <4>1. req'[r] = [req[r] EXCEPT !.delivery = "accepted", !.secret = FALSE, !.nextAt = NoTime,
                                     !.claim = 0, !.claimedAt = NoTime]
        BY <3>3 DEF Settled
      <4> QED BY <3>1, <4>1 DEF Row
    <3> QED BY <2>1, <3>2, <3>3
  <2> QED BY <1>14, <2>3, WorkerKeeps DEF SendAccepted
<1>15. ASSUME NEW w \in Workers, NEW transient \in BOOLEAN, SendFailed(w, transient)
       PROVE  Answerable'
  <2> DEFINE retry  == Retried(w, transient)
             nextAt == IF retry THEN now + Backoff[worker[w].claim] ELSE NoTime
  <2>1. \A r \in Requests : req'[r] = req[r]
                              \/ req'[r] = Settled(req[r], "failed", retry, nextAt)
    BY <1>15 DEF SendFailed, TypeInv, TypeOK
  <2>2. \A r \in Requests : req[r] \in Row
    BY DEF TypeInv, TypeOK
  <2> HIDE DEF retry, nextAt
  <2> QED BY <1>15, <2>1, <2>2, SettledState, WorkerKeeps DEF SendFailed
<1>16. ASSUME NEW w \in Workers, LateAnswer(w) \/ CrashWorker(w) PROVE Answerable'
  BY <1>16, UnchangedKeeps DEF LateAnswer, CrashWorker, rows
<1>17. CASE Tick
  BY <1>17, UnchangedKeeps DEF Tick, rows
<1>18. CASE UNCHANGED vars
  BY <1>18, UnchangedKeeps DEF vars
<1> QED
  BY <1>1, <1>2, <1>3, <1>4, <1>5, <1>6, <1>7, <1>8, <1>9, <1>10, <1>11, <1>12, <1>13,
     <1>14, <1>15, <1>16, <1>17, <1>18
     DEF Next, Staff, PublicUpload, Cycle, AnswerArrives

\* Every open request has a live link and an active vendor.
THEOREM AnswerableAlways == Spec => []OpenRequestIsAnswerable
<1>1. Init => Answerable
  BY DEF Init, NoRow, Links, Answerable, OpenRequestIsAnswerable, SubmittedByItsOwnLink
<1>2. TypeInv /\ Answerable /\ [Next]_vars => Answerable'
  BY AnswerableStep
<1>3. Answerable => OpenRequestIsAnswerable
  BY DEF Answerable
<1> QED BY <1>1, <1>2, <1>3, TypeCorrect, PTL DEF Spec

\* A submitted request records the one certificate that came through its link.
THEOREM SubmittedOnce == Spec => []SubmittedByItsOwnLink
<1>1. Init => Answerable
  BY DEF Init, NoRow, Links, Answerable, OpenRequestIsAnswerable, SubmittedByItsOwnLink
<1>2. TypeInv /\ Answerable /\ [Next]_vars => Answerable'
  BY AnswerableStep
<1>3. Answerable => SubmittedByItsOwnLink
  BY DEF Answerable
<1> QED BY <1>1, <1>2, <1>3, TypeCorrect, PTL DEF Spec

-----------------------------------------------------------------------------
(* The ways a step changes one request's row and its outbox.               *)

Silent(r)        == events'[r] = events[r]
Counted(r, type) == events'[r] = [events[r] EXCEPT ![type] = @ + 1]

Stays(r)  == req'[r] = req[r] /\ Silent(r)
Opens(r)  == /\ req[r].state = "absent"
             /\ \E m \in {"manual", "smtp"} : req'[r] = Created(m)
             /\ Counted(r, "created")
Cancels(r) == /\ req[r].state = "open"
              /\ req'[r] = Cancelled(req[r])
              /\ Counted(r, "cancelled")
Submits(r) == /\ req[r].state = "open"
              /\ \E u \in Uploads : req'[r] = Submitted(req[r], u)
              /\ Counted(r, "submitted")
Sweeps(r) == /\ req[r].state = "open"
             /\ \/ req'[r] = Closed(req[r], "expired", "expired")
                \/ /\ req[r].delivery = "processing" /\ req[r].attempts >= MaxAttempts
                   /\ req'[r] = Abandoned(req[r])
                \/ /\ req[r].delivery = "processing" /\ req[r].attempts < MaxAttempts
                   /\ req'[r] = Requeued(req[r])
             /\ Silent(r)
Leases(r) == /\ req[r].state = "open" /\ req[r].method = "smtp" /\ req[r].secret
             /\ req[r].attempts < MaxAttempts
             /\ \/ req[r].delivery \in {"queued", "failed"} /\ req'[r] = Leased(req[r])
                \/ req[r].delivery = "processing" /\ req'[r] = Leased(Requeued(req[r]))
             /\ Silent(r)
Accepts(r) == /\ req[r].state = "open" /\ req[r].delivery = "processing"
              /\ req'[r] = Settled(req[r], "accepted", FALSE, NoTime)
              /\ Counted(r, "email_accepted")
Fails(r) == /\ req[r].state = "open" /\ req[r].delivery = "processing"
            /\ \E retry \in BOOLEAN, nextAt \in Time :
                  /\ retry => req[r].attempts < MaxAttempts /\ nextAt # NoTime
                  /\ req'[r] = Settled(req[r], "failed", retry, nextAt)
            /\ Counted(r, "email_failed")

RowStep(r) == Stays(r) \/ Opens(r) \/ Cancels(r) \/ Submits(r) \/ Sweeps(r)
                       \/ Leases(r) \/ Accepts(r) \/ Fails(r)

\* Publishing counts one event for the requests named and none for the others.
LEMMA Published ==
    ASSUME NEW rs, NEW type, Publish(rs, type), NEW r \in Requests
    PROVE  IF r \in rs THEN Counted(r, type) ELSE Silent(r)
BY DEF Publish, Counted, Silent

\* Cancelling a set of open requests cancels their rows and leaves the others.
LEMMA CancelOpenRows ==
    ASSUME NEW rs \in SUBSET Requests, CancelOpen(rs), NEW r \in Requests,
           \A q \in rs : req[q].state = "open"
    PROVE  RowStep(r)
<1>1. IF r \in rs THEN Counted(r, "cancelled") ELSE Silent(r)
  BY Published DEF CancelOpen
<1>2. CASE r \in rs
  BY <1>1, <1>2 DEF CancelOpen, RowStep, Cancels
<1>3. CASE r \notin rs
  BY <1>1, <1>3 DEF CancelOpen, RowStep, Stays
<1> QED BY <1>2, <1>3

\* The sweeps of a claim, seen from one row that is not leased.
LEMMA MaintainedRows ==
    ASSUME TypeInv, Answerable, NEW r \in Requests, req'[r] = Maintained(r), events' = events
    PROVE  RowStep(r)
<1>1. Silent(r)
  BY DEF Silent
<1> QED BY <1>1, Swept DEF RowStep, Stays, Sweeps

\* The row a claim leases was due before the sweeps, or had a dead lease.
LEMMA LeasedRows ==
    ASSUME TypeInv, Answerable, NEW r \in Requests, Due(r, Maintained(r)),
           req'[r] = Leased(Maintained(r)), events' = events
    PROVE  Leases(r)
<1>1. req[r] \in Row /\ Silent(r)
  BY DEF TypeInv, TypeOK, Silent
<1>2. CASE Maintained(r) = req[r]
  BY <1>1, <1>2 DEF Due, Leases
<1>3. CASE Maintained(r) = Closed(req[r], "expired", "expired")
  BY <1>1, <1>3 DEF Due, Closed, Row
<1>4. CASE Maintained(r) = Abandoned(req[r])
  BY <1>1, <1>4 DEF Due, Abandoned, Row
<1>5. CASE /\ req[r].state = "open" /\ req[r].delivery = "processing"
           /\ req[r].attempts < MaxAttempts
           /\ Maintained(r) = Requeued(req[r])
  <2>1. Requeued(req[r]).method = req[r].method /\ Requeued(req[r]).secret = req[r].secret
    BY <1>1 DEF Requeued, Row
  <2> QED BY <1>1, <1>5, <2>1 DEF Due, Leases
<1> QED BY <1>2, <1>3, <1>4, <1>5, Swept

\* Every step changes every request's row in one of the eight ways.
LEMMA StepRows ==
    ASSUME TypeInv, Answerable, [Next]_vars, NEW r \in Requests
    PROVE  RowStep(r)
<1> USE RequestAssumption, TimingAssumption
<1>1. ASSUME UNCHANGED <<req, events>> PROVE RowStep(r)
  BY <1>1 DEF RowStep, Stays, Silent
<1>2. ASSUME NEW q \in Requests, NEW m \in {"manual", "smtp"}, NEW t \in Ttls,
             CreateRequest(q, m, t)
      PROVE  RowStep(r)
  <2>1. IF r = q THEN Counted(r, "created") ELSE Silent(r)
    BY <1>2, Published DEF CreateRequest
  <2>2. req'[r] = IF r = q THEN Created(m) ELSE req[r]
    BY <1>2 DEF CreateRequest, TypeInv, TypeOK
  <2>3. CASE r = q
    BY <1>2, <2>1, <2>2, <2>3 DEF CreateRequest, RowStep, Opens
  <2>4. CASE r # q
    BY <2>1, <2>2, <2>4 DEF RowStep, Stays
  <2> QED BY <2>3, <2>4
<1>3. ASSUME NEW q \in Requests, CancelRequest(q) PROVE RowStep(r)
  BY <1>3, CancelOpenRows DEF CancelRequest
<1>4. ASSUME NEW l \in Links, RevokeLink(l) PROVE RowStep(r)
  <2>1. CASE l \in Requests /\ req[l].state = "open"
    BY <1>4, <2>1, CancelOpenRows DEF RevokeLink
  <2>2. CASE ~(l \in Requests /\ req[l].state = "open")
    BY <1>1, <1>4, <2>2 DEF RevokeLink
  <2> QED BY <2>1, <2>2
<1>5. ASSUME NEW v \in Vendors, DeactivateVendor(v) PROVE RowStep(r)
  <2>1. OpenOf(v) \in SUBSET Requests /\ \A q \in OpenOf(v) : req[q].state = "open"
    BY DEF OpenOf
  <2> QED BY <1>5, <2>1, CancelOpenRows DEF DeactivateVendor
<1>6. ASSUME NEW u \in Uploads, FinishUpload(u) PROVE RowStep(r)
  <2> DEFINE l == upload[u].link
  <2>1. IF r = l THEN Counted(r, "submitted") ELSE Silent(r)
    BY <1>6, Published DEF FinishUpload
  <2>2. CASE r = l
    <3>1. req[r].state = "open" /\ req'[r] = Submitted(req[r], u)
      BY <1>6, <2>2 DEF FinishUpload, Consumable, TypeInv, TypeOK
    <3> QED BY <2>1, <2>2, <3>1 DEF RowStep, Submits
  <2>3. CASE r # l
    <3>1. req'[r] = req[r]
      BY <1>6, <2>3 DEF FinishUpload, TypeInv, TypeOK
    <3> QED BY <2>1, <2>3, <3>1 DEF RowStep, Stays
  <2> QED BY <2>2, <2>3
<1>7. ASSUME NEW w \in Workers, NEW q \in Requests, Claim(w, q) PROVE RowStep(r)
  <2>1. CASE r = q
    <3>1. Due(r, Maintained(r)) /\ req'[r] = Leased(Maintained(r)) /\ events' = events
      BY <1>7, <2>1 DEF Claim, DueAfterMaintenance
    <3> QED BY <3>1, LeasedRows DEF RowStep
  <2>2. CASE r # q
    <3>1. req'[r] = Maintained(r) /\ events' = events
      BY <1>7, <2>2 DEF Claim
    <3> QED BY <3>1, MaintainedRows
  <2> QED BY <2>1, <2>2
<1>8. ASSUME NEW w \in Workers, ClaimNothing(w) PROVE RowStep(r)
  BY <1>8, MaintainedRows DEF ClaimNothing
<1>9. ASSUME NEW w \in Workers, DispatchInactive(w) PROVE RowStep(r)
  <2> DEFINE rs == IF req[worker[w].req].state = "open" THEN {worker[w].req} ELSE {}
  <2>1. rs \in SUBSET Requests /\ \A q \in rs : req[q].state = "open"
    BY <1>9 DEF DispatchInactive, TypeInv, InFlight
  <2>2. CancelOpen(rs)
    BY <1>9 DEF DispatchInactive
  <2> HIDE DEF rs
  <2> QED BY <2>1, <2>2, CancelOpenRows
<1>10. ASSUME NEW w \in Workers, SendAccepted(w) PROVE RowStep(r)
  <2>1. IF r = worker[w].req THEN Counted(r, "email_accepted") ELSE Silent(r)
    BY <1>10, Published DEF SendAccepted
  <2>2. req'[r] = IF r = worker[w].req THEN Settled(req[r], "accepted", FALSE, NoTime) ELSE req[r]
    BY <1>10 DEF SendAccepted, TypeInv, TypeOK
  <2>3. CASE r = worker[w].req
    BY <1>10, <2>1, <2>2, <2>3 DEF SendAccepted, HoldsLease, RowStep, Accepts
  <2>4. CASE r # worker[w].req
    BY <2>1, <2>2, <2>4 DEF RowStep, Stays
  <2> QED BY <2>3, <2>4
<1>11. ASSUME NEW w \in Workers, NEW transient \in BOOLEAN, SendFailed(w, transient)
       PROVE  RowStep(r)
  <2> DEFINE retry  == Retried(w, transient)
             nextAt == IF retry THEN now + Backoff[worker[w].claim] ELSE NoTime
  <2>1. IF r = worker[w].req THEN Counted(r, "email_failed") ELSE Silent(r)
    BY <1>11, Published DEF SendFailed
  <2>2. retry \in BOOLEAN /\ nextAt \in Time
    BY DEF Retried, TypeInv, TypeOK, Time, NoTime
  <2>3. req'[r] = IF r = worker[w].req THEN Settled(req[r], "failed", retry, nextAt) ELSE req[r]
    BY <1>11 DEF SendFailed, TypeInv, TypeOK
  <2>4. CASE r = worker[w].req
    <3>1. retry => req[r].attempts < MaxAttempts
      BY <2>4 DEF Retried
    <3>2. req[r].state = "open" /\ req[r].delivery = "processing"
      BY <1>11, <2>4 DEF SendFailed, HoldsLease
    <3>3. retry => nextAt # NoTime
      BY TimingAssumption DEF Retried, NoTime, TypeInv, TypeOK
    <3> HIDE DEF retry, nextAt
    <3> QED BY <2>1, <2>2, <2>3, <2>4, <3>1, <3>2, <3>3 DEF RowStep, Fails
  <2>5. CASE r # worker[w].req
    BY <2>1, <2>3, <2>5 DEF RowStep, Stays
  <2> QED BY <2>4, <2>5
<1>12. CASE \/ \E l \in PlainLinks, t \in Ttls, n \in PlainUses : CreateLink(l, t, n)
            \/ \E v \in Vendors : ActivateVendor(v)
            \/ \E u \in Uploads : \/ \E l \in Links : BeginUpload(u, l)
                                  \/ RejectUpload(u) \/ CrashUpload(u)
            \/ \E w \in Workers : Dispatch(w) \/ LateAnswer(w) \/ CrashWorker(w)
            \/ Tick
            \/ UNCHANGED vars
  BY <1>1, <1>12 DEF CreateLink, ActivateVendor, BeginUpload, RejectUpload, CrashUpload,
                     Dispatch, LateAnswer, CrashWorker, Tick, vars, rows
<1> QED
  BY <1>2, <1>3, <1>4, <1>5, <1>6, <1>7, <1>8, <1>9, <1>10, <1>11, <1>12
     DEF Next, Staff, PublicUpload, Cycle, AnswerArrives

-----------------------------------------------------------------------------
(* What each row transformation does to the fields the invariants read.    *)

\* A closed row: no token, a pending delivery voided, attempts and certificate kept.
LEMMA ClosedFields ==
    ASSUME NEW row \in Row, NEW state \in States, NEW void \in Deliveries
    PROVE  LET c == Closed(row, state, void) IN
           /\ c.state = state /\ c.method = row.method /\ ~c.secret
           /\ c.attempts = row.attempts /\ c.cert = row.cert
           /\ c.delivery = IF row.method = "smtp" /\ row.delivery \in {"queued", "processing"}
                           THEN void ELSE row.delivery
<1> DEFINE status == IF row.method = "smtp" /\ row.delivery \in {"queued", "processing"}
                     THEN void ELSE row.delivery
<1>1. Closed(row, state, void) =
        [row EXCEPT !.state = state, !.delivery = status, !.secret = FALSE,
                    !.claim = 0, !.claimedAt = NoTime, !.nextAt = NoTime]
  BY DEF Closed
<1> HIDE DEF status
<1>2. /\ Closed(row, state, void).state = state
      /\ Closed(row, state, void).method = row.method
      /\ ~Closed(row, state, void).secret
      /\ Closed(row, state, void).attempts = row.attempts
      /\ Closed(row, state, void).cert = row.cert
      /\ Closed(row, state, void).delivery = status
  BY <1>1 DEF Row
<1> QED BY <1>2 DEF status

\* The same for a cancelled row.
LEMMA CancelledFields ==
    ASSUME NEW row \in Row
    PROVE  LET c == Cancelled(row) IN
           /\ c.state = "cancelled" /\ c.method = row.method /\ ~c.secret
           /\ c.attempts = row.attempts /\ c.cert = row.cert
           /\ c.delivery = IF row.method = "smtp" /\ row.delivery \in {"queued", "processing"}
                           THEN "cancelled" ELSE row.delivery
BY ClosedFields DEF Cancelled, States, Deliveries

\* The same for an answered row, which also records its certificate.
LEMMA SubmittedFields ==
    ASSUME NEW row \in Row, NEW u \in Uploads
    PROVE  LET c == Submitted(row, u) IN
           /\ c.state = "submitted" /\ c.method = row.method /\ ~c.secret
           /\ c.attempts = row.attempts /\ c.cert = u
           /\ c.delivery = IF row.method = "smtp" /\ row.delivery \in {"queued", "processing"}
                           THEN "superseded" ELSE row.delivery
<1> DEFINE c == Closed(row, "submitted", "superseded")
<1>1. c \in Row
  BY ClosedType DEF States, Deliveries
<1>2. /\ c.state = "submitted" /\ c.method = row.method /\ ~c.secret
      /\ c.attempts = row.attempts
      /\ c.delivery = IF row.method = "smtp" /\ row.delivery \in {"queued", "processing"}
                      THEN "superseded" ELSE row.delivery
  BY ClosedFields DEF States, Deliveries
<1>3. Submitted(row, u) = [c EXCEPT !.cert = u]
  BY DEF Submitted
<1> HIDE DEF c
<1>4. /\ Submitted(row, u).state = c.state /\ Submitted(row, u).method = c.method
      /\ Submitted(row, u).secret = c.secret /\ Submitted(row, u).attempts = c.attempts
      /\ Submitted(row, u).delivery = c.delivery /\ Submitted(row, u).cert = u
  BY <1>1, <1>3 DEF Row
<1> QED BY <1>2, <1>4

\* A final attempt nobody completed: failed, without a token.
LEMMA AbandonedFields ==
    ASSUME NEW row \in Row
    PROVE  LET c == Abandoned(row) IN
           /\ c.state = row.state /\ c.method = row.method /\ ~c.secret
           /\ c.attempts = row.attempts /\ c.cert = row.cert /\ c.delivery = "failed"
BY DEF Abandoned, Row

\* An earlier attempt nobody completed: queued again, with its token.
LEMMA RequeuedFields ==
    ASSUME NEW row \in Row
    PROVE  LET c == Requeued(row) IN
           /\ c.state = row.state /\ c.method = row.method /\ c.secret = row.secret
           /\ c.attempts = row.attempts /\ c.cert = row.cert /\ c.delivery = "queued"
BY DEF Requeued, Row

\* A leased row: one attempt more, in flight.
LEMMA LeasedFields ==
    ASSUME NEW row \in Row
    PROVE  LET c == Leased(row) IN
           /\ c.state = row.state /\ c.method = row.method /\ c.secret = row.secret
           /\ c.attempts = row.attempts + 1 /\ c.cert = row.cert /\ c.delivery = "processing"
BY DEF Leased, Row

\* A requeued row is a row.
LEMMA RequeuedType ==
    ASSUME TypeInv, NEW row \in Row PROVE Requeued(row) \in Row
<1>1. 0 \in Nat /\ NoTime \in Time /\ now \in Time /\ "queued" \in Deliveries
  BY DEF TypeInv, TypeOK, Time, Deliveries
<1> QED BY <1>1 DEF Requeued, Row

\* A settled row: the outcome, and the token exactly if a retry is due.
LEMMA SettledFields ==
    ASSUME NEW row \in Row, NEW delivery \in Deliveries, NEW secret \in BOOLEAN,
           NEW nextAt \in Time
    PROVE  LET c == Settled(row, delivery, secret, nextAt) IN
           /\ c.state = row.state /\ c.method = row.method /\ c.secret = secret
           /\ c.attempts = row.attempts /\ c.cert = row.cert /\ c.delivery = delivery
           /\ c.nextAt = nextAt
BY DEF Settled, Row

\* An accepted mail leaves no token.
LEMMA AcceptedFields ==
    ASSUME NEW row \in Row
    PROVE  LET c == Settled(row, "accepted", FALSE, NoTime) IN
           /\ c.state = row.state /\ c.method = row.method /\ ~c.secret
           /\ c.attempts = row.attempts /\ c.cert = row.cert /\ c.delivery = "accepted"
<1>1. Settled(row, "accepted", FALSE, NoTime) =
        [row EXCEPT !.delivery = "accepted", !.secret = FALSE, !.nextAt = NoTime,
                    !.claim = 0, !.claimedAt = NoTime]
  BY DEF Settled
<1> QED BY <1>1 DEF Row

\* A new row: open, no attempt, a token exactly if it is mailed.
LEMMA CreatedFields ==
    ASSUME NEW m \in {"manual", "smtp"}
    PROVE  LET c == Created(m) IN
           /\ c.state = "open" /\ c.method = m /\ (c.secret <=> m = "smtp")
           /\ c.attempts = 0 /\ c.cert = None
           /\ c.delivery = IF m = "smtp" THEN "queued" ELSE "manual_ready"
BY DEF Created, NoRow

-----------------------------------------------------------------------------
(* Invariants of single rows.                                              *)

TokenFits(row) ==
    /\ row.state = "open" /\ row.delivery \in {"queued", "processing"} => row.secret
    /\ row.secret =>
         /\ row.state = "open" /\ row.method = "smtp"
         /\ row.delivery \in {"queued", "processing", "failed"}
         /\ row.delivery # "processing" => row.attempts < MaxAttempts
         /\ row.delivery = "failed" => row.nextAt # NoTime

\* A row not yet created is blank, and only a submitted one names a certificate.
RowFits(row) ==
    /\ row.state = "absent" => row = NoRow
    /\ row.state # "submitted" => row.cert = None
    /\ row.attempts <= MaxAttempts
    /\ TokenFits(row)

\* Each of the eight ways a row changes keeps its token and attempts fitting.
LEMMA RowFitsStep ==
    ASSUME TypeInv, NEW r \in Requests, RowStep(r), RowFits(req[r])
    PROVE  RowFits(req'[r])
<1> USE TimingAssumption
<1> DEFINE row == req[r]
<1>1. row \in Row /\ row.attempts \in Nat /\ MaxAttempts \in Nat
  BY DEF TypeInv, TypeOK, Row
<1>2. CASE Stays(r)
  BY <1>2 DEF Stays
<1>3. CASE Opens(r)
  <2>1. PICK m \in {"manual", "smtp"} : req'[r] = Created(m)
    BY <1>3 DEF Opens
  <2>2. /\ req'[r].state = "open" /\ req'[r].method = m /\ (req'[r].secret <=> m = "smtp")
        /\ req'[r].attempts = 0 /\ req'[r].cert = None
        /\ req'[r].delivery = IF m = "smtp" THEN "queued" ELSE "manual_ready"
    BY <2>1, CreatedFields
  <2> QED BY <1>1, <2>2 DEF RowFits, TokenFits
<1>4. CASE Cancels(r)
  <2>1. req'[r] = Cancelled(row)
    BY <1>4 DEF Cancels
  <2> QED BY <1>1, <1>4, <2>1, CancelledFields DEF Cancels, RowFits, TokenFits
<1>5. CASE Submits(r)
  <2>1. PICK u \in Uploads : req'[r] = Submitted(row, u)
    BY <1>5 DEF Submits
  <2> QED BY <1>1, <2>1, SubmittedFields DEF RowFits, TokenFits
<1>6. CASE Sweeps(r)
  <2>1. CASE req'[r] = Closed(row, "expired", "expired")
    <3>1. "expired" \in States /\ "expired" \in Deliveries
      BY DEF States, Deliveries
    <3> QED BY <1>1, <1>6, <2>1, <3>1, ClosedFields DEF Sweeps, RowFits, TokenFits
  <2>2. CASE req'[r] = Abandoned(row)
    BY <1>1, <1>6, <2>2, AbandonedFields DEF Sweeps, RowFits, TokenFits
  <2>3. CASE row.delivery = "processing" /\ row.attempts < MaxAttempts
             /\ req'[r] = Requeued(row)
    BY <1>1, <1>6, <2>3, RequeuedFields DEF Sweeps, RowFits, TokenFits
  <2> QED BY <1>6, <2>1, <2>2, <2>3 DEF Sweeps
<1>7. CASE Leases(r)
  <2>1. ASSUME NEW old \in Row, old.state = "open", old.method = "smtp", old.secret,
               old.cert = None, old.attempts \in Nat, old.attempts < MaxAttempts
        PROVE  RowFits(Leased(old))
    BY <1>1, <2>1, LeasedFields DEF RowFits, TokenFits
  <2>2. CASE req'[r] = Leased(row)
    BY <1>1, <1>7, <2>1, <2>2 DEF Leases, RowFits
  <2>3. CASE req'[r] = Leased(Requeued(row))
    BY <1>1, <1>7, <2>1, <2>3, RequeuedFields, RequeuedType DEF Leases, RowFits
  <2> QED BY <1>7, <2>2, <2>3 DEF Leases
<1>8. CASE Accepts(r)
  <2>1. req'[r] = Settled(row, "accepted", FALSE, NoTime)
    BY <1>8 DEF Accepts
  <2>2. /\ req'[r].state = "open" /\ ~req'[r].secret /\ req'[r].attempts = row.attempts
        /\ req'[r].cert = row.cert /\ req'[r].delivery = "accepted"
    BY <1>1, <1>8, <2>1, AcceptedFields DEF Accepts
  <2> QED BY <1>1, <1>8, <2>2 DEF Accepts, RowFits, TokenFits
<1>9. CASE Fails(r)
  <2>1. PICK retry \in BOOLEAN, nextAt \in Time :
             /\ retry => row.attempts < MaxAttempts /\ nextAt # NoTime
             /\ req'[r] = Settled(row, "failed", retry, nextAt)
    BY <1>9 DEF Fails
  <2>2. /\ req'[r].state = "open" /\ req'[r].secret = retry
        /\ req'[r].attempts = row.attempts /\ req'[r].method = row.method
        /\ req'[r].cert = row.cert /\ req'[r].delivery = "failed" /\ req'[r].nextAt = nextAt
    BY <1>1, <1>9, <2>1, SettledFields DEF Fails, Deliveries
  <2>3. row.secret /\ row.method = "smtp"
    BY <1>9 DEF Fails, RowFits, TokenFits
  <2> QED BY <1>1, <1>9, <2>1, <2>2, <2>3 DEF Fails, RowFits, TokenFits
<1> QED BY <1>2, <1>3, <1>4, <1>5, <1>6, <1>7, <1>8, <1>9 DEF RowStep

RowsFit == \A r \in Requests : RowFits(req[r])

SafeInv == TypeInv /\ Answerable /\ RowsFit

\* The inductive invariant: types, answerable requests, and rows whose token,
\* attempts and state fit together.
THEOREM SafeInvAlways == Spec => []SafeInv
<1>1. Init => Answerable /\ RowsFit
  <2>1. Init => Answerable
    BY DEF Init, NoRow, Links, Answerable, OpenRequestIsAnswerable, SubmittedByItsOwnLink
  <2>2. Init => RowsFit
    BY TimingAssumption DEF Init, NoRow, RowsFit, RowFits, TokenFits
  <2> QED BY <2>1, <2>2
<1>2. TypeInv /\ Answerable /\ RowsFit /\ [Next]_vars => Answerable' /\ RowsFit'
  BY AnswerableStep, StepRows, RowFitsStep DEF RowsFit
<1> QED BY <1>1, <1>2, TypeCorrect, PTL DEF Spec, SafeInv

\* The recoverable upload token exists exactly while a mail is still due.
THEOREM TokenErased == Spec => []TokenOnlyWhileMailDue
<1>1. SafeInv => TokenOnlyWhileMailDue
  BY DEF SafeInv, RowsFit, RowFits, TokenFits, TokenOnlyWhileMailDue
<1> QED BY <1>1, SafeInvAlways, PTL

-----------------------------------------------------------------------------
(* The outbox.                                                             *)

\* A lease in hand still owes its outcome: one fewer outcome than attempts.
OutboxFits(row, n) ==
    /\ n["created"]        = IF row.state = "absent" THEN 0 ELSE 1
    /\ n["cancelled"]      = IF row.state = "cancelled" THEN 1 ELSE 0
    /\ n["submitted"]      = IF row.state = "submitted" THEN 1 ELSE 0
    /\ n["email_accepted"] = IF row.delivery = "accepted" THEN 1 ELSE 0
    /\ n["email_accepted"] + n["email_failed"] <= row.attempts
    /\ row.state = "open" /\ row.delivery = "processing"
         => n["email_accepted"] + n["email_failed"] < row.attempts

\* Each of the eight ways a row changes publishes what it has to.
LEMMA OutboxFitsStep ==
    ASSUME TypeInv, NEW r \in Requests, RowStep(r), RowFits(req[r]),
           OutboxFits(req[r], events[r])
    PROVE  OutboxFits(req'[r], events'[r])
<1> DEFINE row == req[r]
           n   == events[r]
<1>1. /\ row \in Row /\ row.attempts \in Nat /\ n \in [EventTypes -> Nat]
      /\ \A e \in EventTypes : n[e] \in Nat
  BY DEF TypeInv, TypeOK, Row
<1>2. ASSUME NEW type \in EventTypes, Counted(r, type), NEW e \in EventTypes
      PROVE  events'[r][e] = IF e = type THEN n[e] + 1 ELSE n[e]
  BY <1>1, <1>2 DEF Counted
<1>3. CASE Stays(r)
  BY <1>3 DEF Stays, Silent
<1>4. CASE Opens(r)
  <2>1. PICK m \in {"manual", "smtp"} : req'[r] = Created(m)
    BY <1>4 DEF Opens
  <2>2. /\ req'[r].state = "open" /\ req'[r].attempts = 0
        /\ req'[r].delivery \in {"queued", "manual_ready"}
    BY <2>1, CreatedFields
  <2>3. row.delivery = "manual_ready" /\ row.attempts = 0 /\ row.state = "absent"
    BY <1>4 DEF Opens, RowFits, NoRow
  <2>4. \A e \in EventTypes : events'[r][e] = IF e = "created" THEN n[e] + 1 ELSE n[e]
    BY <1>2, <1>4 DEF Opens, EventTypes
  <2> QED BY <1>1, <2>2, <2>3, <2>4 DEF OutboxFits, EventTypes
<1>5. CASE Cancels(r)
  <2>1. \A e \in EventTypes : events'[r][e] = IF e = "cancelled" THEN n[e] + 1 ELSE n[e]
    BY <1>2, <1>5 DEF Cancels, EventTypes
  <2>2. /\ req'[r].state = "cancelled" /\ req'[r].attempts = row.attempts
        /\ req'[r].delivery = "accepted" <=> row.delivery = "accepted"
    BY <1>1, <1>5, CancelledFields DEF Cancels
  <2> QED BY <1>1, <1>5, <2>1, <2>2 DEF Cancels, OutboxFits, EventTypes
<1>6. CASE Submits(r)
  <2>1. \A e \in EventTypes : events'[r][e] = IF e = "submitted" THEN n[e] + 1 ELSE n[e]
    BY <1>2, <1>6 DEF Submits, EventTypes
  <2>2. /\ req'[r].state = "submitted" /\ req'[r].attempts = row.attempts
        /\ req'[r].delivery = "accepted" <=> row.delivery = "accepted"
    BY <1>1, <1>6, SubmittedFields DEF Submits
  <2> QED BY <1>1, <1>6, <2>1, <2>2 DEF Submits, OutboxFits, EventTypes
<1>7. CASE Sweeps(r)
  <2>1. CASE req'[r] = Closed(row, "expired", "expired")
    <3>1. /\ req'[r].state = "expired" /\ req'[r].attempts = row.attempts
          /\ req'[r].delivery = "accepted" <=> row.delivery = "accepted"
      BY <1>1, <2>1, ClosedFields DEF States, Deliveries
    <3> QED BY <1>1, <1>7, <3>1 DEF Sweeps, Silent, OutboxFits, EventTypes
  <2>2. CASE row.delivery = "processing" /\ req'[r] = Abandoned(row)
    BY <1>1, <1>7, <2>2, AbandonedFields DEF Sweeps, Silent, OutboxFits, EventTypes
  <2>3. CASE row.delivery = "processing" /\ req'[r] = Requeued(row)
    BY <1>1, <1>7, <2>3, RequeuedFields DEF Sweeps, Silent, OutboxFits, EventTypes
  <2> QED BY <1>7, <2>1, <2>2, <2>3 DEF Sweeps
<1>8. CASE Leases(r)
  <2>1. /\ req'[r].state = "open" /\ req'[r].attempts = row.attempts + 1
        /\ req'[r].delivery = "processing"
    BY <1>1, <1>8, LeasedFields, RequeuedFields, RequeuedType DEF Leases
  <2>2. row.state = "open" /\ row.delivery # "accepted"
    BY <1>8 DEF Leases
  <2> QED BY <1>1, <1>8, <2>1, <2>2 DEF Leases, Silent, OutboxFits, EventTypes
<1>9. CASE Accepts(r)
  <2>1. \A e \in EventTypes : events'[r][e] = IF e = "email_accepted" THEN n[e] + 1 ELSE n[e]
    BY <1>2, <1>9 DEF Accepts, EventTypes
  <2>2. /\ req'[r].state = "open" /\ req'[r].attempts = row.attempts
        /\ req'[r].delivery = "accepted"
    BY <1>1, <1>9, AcceptedFields DEF Accepts
  <2>3. row.state = "open" /\ row.delivery = "processing"
    BY <1>9 DEF Accepts
  <2>4. n["email_accepted"] = 0 /\ n["email_failed"] < row.attempts
    BY <1>1, <2>3 DEF OutboxFits, EventTypes
  <2>5. events'[r]["email_accepted"] = 1 /\ events'[r]["email_failed"] = n["email_failed"]
    BY <2>1, <2>4 DEF EventTypes
  <2>6. /\ events'[r]["created"] = n["created"] /\ events'[r]["cancelled"] = n["cancelled"]
        /\ events'[r]["submitted"] = n["submitted"]
    BY <2>1 DEF EventTypes
  <2> QED BY <1>1, <2>2, <2>3, <2>4, <2>5, <2>6 DEF OutboxFits, EventTypes
<1>10. CASE Fails(r)
  <2>1. \A e \in EventTypes : events'[r][e] = IF e = "email_failed" THEN n[e] + 1 ELSE n[e]
    BY <1>2, <1>10 DEF Fails, EventTypes
  <2>2. /\ req'[r].state = "open" /\ req'[r].attempts = row.attempts
        /\ req'[r].delivery = "failed"
    BY <1>1, <1>10, SettledFields DEF Fails, Deliveries
  <2> QED BY <1>1, <1>10, <2>1, <2>2 DEF Fails, OutboxFits, EventTypes
<1> QED BY <1>3, <1>4, <1>5, <1>6, <1>7, <1>8, <1>9, <1>10 DEF RowStep

OutboxInv == \A r \in Requests : OutboxFits(req[r], events[r])

\* The outbox agrees with the rows, whoever wrote which.
THEOREM OutboxMatches == Spec => []EventsMatchRows
<1>1. Init => OutboxInv
  BY DEF Init, NoRow, EventTypes, OutboxInv, OutboxFits
<1>2. SafeInv /\ OutboxInv /\ [Next]_vars => OutboxInv'
  BY StepRows, OutboxFitsStep DEF SafeInv, RowsFit, OutboxInv
<1>3. OutboxInv => EventsMatchRows
  BY DEF OutboxInv, OutboxFits, EventsMatchRows
<1> QED BY <1>1, <1>2, <1>3, SafeInvAlways, PTL DEF Spec

-----------------------------------------------------------------------------
(* The contract.                                                           *)

\* How one row may change, in the contract's terms.
ContractRow(row, new) ==
    \/ /\ new.state = row.state /\ MailOf(new) = MailOf(row) /\ new.cert = row.cert
    \/ /\ row.state = "absent" /\ new.state = "open" /\ new.cert = row.cert
       /\ MailOf(row) = "none" /\ MailOf(new) \in {"none", "pending"}
    \/ /\ row.state = "open" /\ new.state = "open" /\ new.cert = row.cert
       /\ MailOf(row) = "pending" /\ MailOf(new) \in {"accepted", "failed"}
    \/ /\ row.state = "open" /\ new.state \in {"submitted", "cancelled", "expired"}
       /\ IF MailOf(row) = "pending" THEN MailOf(new) \in {"void", "failed"}
                                     ELSE MailOf(new) = MailOf(row)
       /\ IF new.state = "submitted" THEN row.cert = None /\ new.cert \in Uploads
                                     ELSE new.cert = row.cert

\* Closing voids a pending mail and keeps the outcome of a settled one.
LEMMA ClosedMail ==
    ASSUME NEW row \in Row, NEW new, NEW void \in {"cancelled", "superseded", "expired"},
           TokenFits(row), row.state = "open",
           new.method = row.method, ~new.secret,
           new.delivery = IF row.method = "smtp" /\ row.delivery \in {"queued", "processing"}
                          THEN void ELSE row.delivery
    PROVE  IF MailOf(row) = "pending" THEN MailOf(new) \in {"void", "failed"}
                                      ELSE MailOf(new) = MailOf(row)
<1>1. CASE row.method = "manual"
  BY <1>1 DEF MailOf
<1>2. CASE row.method = "smtp" /\ row.secret
  <2>1. row.delivery \in {"queued", "processing", "failed"}
    BY <1>2 DEF TokenFits
  <2> QED BY <1>2, <2>1 DEF MailOf
<1>3. CASE row.method = "smtp" /\ ~row.secret
  <2>1. row.delivery \notin {"queued", "processing"}
    BY <1>3 DEF TokenFits
  <2> QED BY <1>3, <2>1 DEF MailOf
<1> QED BY <1>1, <1>2, <1>3 DEF Row

\* Each of the eight ways a row changes is a step of the contract, or none.
LEMMA ContractRowStep ==
    ASSUME TypeInv, NEW r \in Requests, RowStep(r), RowFits(req[r])
    PROVE  ContractRow(req[r], req'[r])
<1> DEFINE row == req[r]
           new == req'[r]
<1>1. row \in Row
  BY DEF TypeInv, TypeOK
<1>2. CASE Stays(r)
  BY <1>2 DEF Stays, ContractRow
<1>3. CASE Opens(r)
  <2>1. PICK m \in {"manual", "smtp"} : new = Created(m)
    BY <1>3 DEF Opens
  <2>2. new.state = "open" /\ new.method = m /\ (new.secret <=> m = "smtp") /\ new.cert = None
    BY <2>1, CreatedFields
  <2>3. row.state = "absent" /\ row.cert = None /\ row.method = "manual"
    BY <1>3 DEF Opens, RowFits, NoRow
  <2>4. MailOf(row) = "none" /\ MailOf(new) \in {"none", "pending"}
    BY <2>2, <2>3 DEF MailOf
  <2> QED BY <2>2, <2>3, <2>4 DEF ContractRow
<1>4. CASE Cancels(r)
  <2>1. new.state = "cancelled" /\ new.cert = row.cert
    BY <1>1, <1>4, CancelledFields DEF Cancels
  <2>2. IF MailOf(row) = "pending" THEN MailOf(new) \in {"void", "failed"}
                                   ELSE MailOf(new) = MailOf(row)
    BY <1>1, <1>4, CancelledFields, ClosedMail DEF Cancels, RowFits
  <2> QED BY <1>4, <2>1, <2>2 DEF Cancels, ContractRow
<1>5. CASE Submits(r)
  <2>1. PICK u \in Uploads : new = Submitted(row, u)
    BY <1>5 DEF Submits
  <2>2. new.state = "submitted" /\ new.cert = u /\ row.cert = None
    BY <1>1, <1>5, <2>1, SubmittedFields DEF Submits, RowFits
  <2>3. IF MailOf(row) = "pending" THEN MailOf(new) \in {"void", "failed"}
                                   ELSE MailOf(new) = MailOf(row)
    BY <1>1, <1>5, <2>1, SubmittedFields, ClosedMail DEF Submits, RowFits
  <2> QED BY <1>5, <2>2, <2>3 DEF Submits, ContractRow
<1>6. CASE Sweeps(r)
  <2>1. CASE new = Closed(row, "expired", "expired")
    <3>1. "expired" \in States /\ "expired" \in Deliveries
      BY DEF States, Deliveries
    <3>2. new.state = "expired" /\ new.cert = row.cert
      BY <1>1, <2>1, <3>1, ClosedFields
    <3>3. IF MailOf(row) = "pending" THEN MailOf(new) \in {"void", "failed"}
                                     ELSE MailOf(new) = MailOf(row)
      BY <1>1, <1>6, <2>1, <3>1, ClosedFields, ClosedMail DEF Sweeps, RowFits
    <3> QED BY <1>6, <3>2, <3>3 DEF Sweeps, ContractRow
  <2>2. CASE row.delivery = "processing" /\ new = Abandoned(row)
    <3>1. /\ new.state = "open" /\ new.method = row.method /\ ~new.secret
          /\ new.cert = row.cert /\ new.delivery = "failed"
      BY <1>1, <1>6, <2>2, AbandonedFields DEF Sweeps
    <3>2. row.state = "open" /\ row.secret /\ row.method = "smtp"
      BY <1>6, <2>2 DEF Sweeps, RowFits, TokenFits
    <3>3. MailOf(row) = "pending" /\ MailOf(new) = "failed"
      BY <3>1, <3>2 DEF MailOf
    <3> QED BY <3>1, <3>2, <3>3 DEF ContractRow
  <2>3. CASE row.delivery = "processing" /\ new = Requeued(row)
    <3>1. /\ new.state = row.state /\ new.method = row.method /\ new.secret = row.secret
          /\ new.cert = row.cert
      BY <1>1, <2>3, RequeuedFields
    <3>2. row.secret /\ row.method = "smtp"
      BY <1>6, <2>3 DEF Sweeps, RowFits, TokenFits
    <3> QED BY <3>1, <3>2 DEF ContractRow, MailOf
  <2> QED BY <1>6, <2>1, <2>2, <2>3 DEF Sweeps
<1>7. CASE Leases(r)
  <2>1. /\ new.state = row.state /\ new.method = row.method /\ new.secret = row.secret
        /\ new.cert = row.cert
    <3>1. CASE new = Leased(row)
      BY <1>1, <3>1, LeasedFields
    <3>2. CASE new = Leased(Requeued(row))
      <4>1. Requeued(row) \in Row
        BY <1>1, RequeuedType
      <4>2. /\ new.state = Requeued(row).state /\ new.method = Requeued(row).method
            /\ new.secret = Requeued(row).secret /\ new.cert = Requeued(row).cert
        BY <3>2, <4>1, LeasedFields
      <4> QED BY <1>1, <4>2, RequeuedFields
    <3> QED BY <1>7, <3>1, <3>2 DEF Leases
  <2> QED BY <1>7, <2>1 DEF Leases, ContractRow, MailOf
<1>8. CASE Accepts(r)
  <2>1. /\ new.state = "open" /\ new.method = row.method /\ ~new.secret
        /\ new.cert = row.cert /\ new.delivery = "accepted"
    BY <1>1, <1>8, AcceptedFields DEF Accepts
  <2>2. row.state = "open" /\ row.secret /\ row.method = "smtp"
    BY <1>8 DEF Accepts, RowFits, TokenFits
  <2>3. MailOf(row) = "pending" /\ MailOf(new) = "accepted"
    BY <2>1, <2>2 DEF MailOf
  <2> QED BY <2>1, <2>2, <2>3 DEF ContractRow
<1>9. CASE Fails(r)
  <2>1. PICK retry \in BOOLEAN, nextAt \in Time : new = Settled(row, "failed", retry, nextAt)
    BY <1>9 DEF Fails
  <2>2. /\ new.state = "open" /\ new.method = row.method /\ new.secret = retry
        /\ new.cert = row.cert /\ new.delivery = "failed"
    BY <1>1, <1>9, <2>1, SettledFields DEF Fails, Deliveries
  <2>3. row.state = "open" /\ row.secret /\ row.method = "smtp"
    BY <1>9 DEF Fails, RowFits, TokenFits
  <2>4. MailOf(row) = "pending" /\ MailOf(new) = IF retry THEN "pending" ELSE "failed"
    BY <2>2, <2>3 DEF MailOf
  <2> QED BY <2>2, <2>3, <2>4 DEF ContractRow
<1> QED BY <1>2, <1>3, <1>4, <1>5, <1>6, <1>7, <1>8, <1>9 DEF RowStep

\* The detailed specification implements the contract.
THEOREM Refinement == Spec => ImplementsContract
<1>1. Init => Contract!Init
  BY DEF Init, NoRow, MailOf, Contract!Init
<1>2. SafeInv /\ [Next]_vars => [Contract!Next]_(Contract!contractVars)
  <2> SUFFICES ASSUME SafeInv, [Next]_vars PROVE Contract!Next
    OBVIOUS
  <2>1. \A r \in Requests : ContractRow(req[r], req'[r])
    BY StepRows, ContractRowStep DEF SafeInv, RowsFit
  <2> QED
    BY <2>1 DEF ContractRow, Contract!Next, Contract!Same, Contract!Open, Contract!Settle,
                Contract!Close, Contract!Final
<1> QED BY <1>1, <1>2, SafeInvAlways, PTL DEF Spec, ImplementsContract, Contract!Spec

-----------------------------------------------------------------------------
(* Leases.                                                                 *)

Busy(w) == worker[w].pc # "idle"

\* A claim in hand was numbered by an attempt of its request, and no two
\* claims of one request carry the same number.
ClaimsInv ==
    /\ \A w \in Workers : Busy(w) =>
          worker[w].claim \in Nat \ {0} /\ worker[w].claim <= req[worker[w].req].attempts
    /\ \A v, w \in Workers :
          v # w /\ Busy(v) /\ Busy(w) /\ worker[v].req = worker[w].req
             => worker[v].claim # worker[w].claim

\* Attempts never decrease.
LEMMA AttemptsGrow ==
    ASSUME TypeInv, NEW r \in Requests, RowStep(r), RowFits(req[r])
    PROVE  req[r].attempts <= req'[r].attempts
<1> DEFINE row == req[r]
<1>1. row \in Row /\ row.attempts \in Nat
  BY DEF TypeInv, TypeOK, Row
<1>2. CASE Stays(r)
  BY <1>1, <1>2 DEF Stays
<1>3. CASE Opens(r)
  <2>1. PICK m \in {"manual", "smtp"} : req'[r] = Created(m)
    BY <1>3 DEF Opens
  <2> QED BY <1>3, <2>1, CreatedFields DEF Opens, RowFits, NoRow
<1>4. CASE Cancels(r)
  BY <1>1, <1>4, CancelledFields DEF Cancels
<1>5. CASE Submits(r)
  BY <1>1, <1>5, SubmittedFields DEF Submits
<1>6. CASE Sweeps(r)
  BY <1>1, <1>6, ClosedFields, AbandonedFields, RequeuedFields DEF Sweeps, States, Deliveries
<1>7. CASE Leases(r)
  BY <1>1, <1>7, LeasedFields, RequeuedFields, RequeuedType DEF Leases
<1>8. CASE Accepts(r)
  <2>1. req'[r] = Settled(row, "accepted", FALSE, NoTime)
    BY <1>8 DEF Accepts
  <2>2. req'[r].attempts = row.attempts
    BY <1>1, <2>1, AcceptedFields
  <2> QED BY <1>1, <2>2
<1>9. CASE Fails(r)
  <2>1. PICK retry \in BOOLEAN, nextAt \in Time : req'[r] = Settled(row, "failed", retry, nextAt)
    BY <1>9 DEF Fails
  <2> QED BY <1>1, <2>1, SettledFields DEF Deliveries
<1> QED BY <1>2, <1>3, <1>4, <1>5, <1>6, <1>7, <1>8, <1>9 DEF RowStep

\* A claim numbers itself with the attempt it starts.
LEMMA ClaimNumbers ==
    ASSUME SafeInv, NEW w \in Workers, NEW r \in Requests, Claim(w, r)
    PROVE  /\ req'[r].attempts = req[r].attempts + 1
           /\ worker' = [worker EXCEPT ![w] = [pc |-> "claimed", req |-> r,
                                               claim |-> req[r].attempts + 1]]
<1>1. req[r] \in Row
  BY DEF SafeInv, TypeInv, TypeOK
<1>2. Leases(r)
  BY LeasedRows DEF Claim, DueAfterMaintenance, SafeInv
<1> QED BY <1>1, <1>2, LeasedFields, RequeuedFields, RequeuedType DEF Leases, Claim, SafeInv

\* The ways a step changes a worker.
WorkersMove ==
    \A w \in Workers : \/ worker'[w] = worker[w]
                       \/ /\ worker[w].pc = "claimed" /\ worker'[w].pc = "sending"
                          /\ worker'[w].req = worker[w].req
                          /\ worker'[w].claim = worker[w].claim
                       \/ worker'[w].pc = "idle"

WorkerStep ==
    \/ WorkersMove
    \/ \E w \in Workers, r \in Requests : Claim(w, r)

\* Every step either claims, or only lets workers go on or go idle.
LEMMA WorkerSteps == ASSUME TypeInv, [Next]_vars PROVE WorkerStep
<1>1. ASSUME worker' = worker PROVE WorkerStep
  BY <1>1 DEF WorkersMove, WorkerStep
<1>2. ASSUME NEW w \in Workers, worker' = [worker EXCEPT ![w] = IdleWorker] PROVE WorkerStep
  <2>1. WorkersMove
    BY <1>2 DEF WorkersMove, IdleWorker, TypeInv, TypeOK
  <2> QED BY <2>1 DEF WorkerStep
<1>3. ASSUME NEW w \in Workers, Dispatch(w) PROVE WorkerStep
  <2>1. WorkersMove
    BY <1>3 DEF Dispatch, WorkersMove, TypeInv, TypeOK
  <2> QED BY <2>1 DEF WorkerStep
<1>4. CASE Staff \/ PublicUpload \/ Tick \/ UNCHANGED vars
  BY <1>1, <1>4
     DEF Staff, PublicUpload, CreateRequest, CreateLink, CancelRequest, RevokeLink,
         DeactivateVendor, ActivateVendor, BeginUpload, FinishUpload, RejectUpload,
         CrashUpload, Tick, vars
<1>5. ASSUME NEW w \in Workers, Cycle(w) \/ CrashWorker(w) PROVE WorkerStep
  BY <1>1, <1>2, <1>3, <1>5
     DEF Cycle, AnswerArrives, ClaimNothing, DispatchInactive, SendAccepted, SendFailed,
         LateAnswer, CrashWorker, WorkerStep
<1> QED BY <1>4, <1>5 DEF Next

\* Claims in flight for one request stay distinct and at most its attempts.
LEMMA ClaimsStep ==
    ASSUME SafeInv, ClaimsInv, [Next]_vars PROVE ClaimsInv'
<1>1. \A r \in Requests : /\ req[r].attempts \in Nat /\ req'[r].attempts >= req[r].attempts
  BY StepRows, AttemptsGrow DEF SafeInv, RowsFit, TypeInv, TypeOK, Row
<1>2. \A w \in Workers : Busy(w) => worker[w].req \in Requests
  BY DEF SafeInv, TypeInv, InFlight, Busy
<1>3. \A r \in Requests : req'[r].attempts \in Nat
  <2>1. TypeInv'
    BY TypeStep DEF SafeInv
  <2> QED BY <2>1 DEF TypeInv, TypeOK, Row
<1>4. CASE WorkersMove
  <2>1. \A w \in Workers : Busy(w)' => /\ Busy(w) /\ worker'[w].req = worker[w].req
                                       /\ worker'[w].claim = worker[w].claim
    BY <1>4 DEF WorkersMove, Busy
  <2>2. ASSUME NEW w \in Workers, Busy(w)'
        PROVE  worker'[w].claim \in Nat \ {0} /\ worker'[w].claim <= req'[worker'[w].req].attempts
    BY <1>1, <1>2, <1>3, <2>1, <2>2 DEF ClaimsInv
  <2>3. ASSUME NEW v \in Workers, NEW w \in Workers, v # w, Busy(v)', Busy(w)',
               worker'[v].req = worker'[w].req
        PROVE  worker'[v].claim # worker'[w].claim
    BY <2>1, <2>3 DEF ClaimsInv
  <2> QED BY <2>2, <2>3 DEF ClaimsInv
<1>5. ASSUME NEW w \in Workers, NEW r \in Requests, Claim(w, r) PROVE ClaimsInv'
  <2>1. /\ req'[r].attempts = req[r].attempts + 1
        /\ \A v \in Workers : worker'[v] =
              IF v = w THEN [pc |-> "claimed", req |-> r, claim |-> req[r].attempts + 1]
                       ELSE worker[v]
    BY <1>5, ClaimNumbers DEF SafeInv, TypeInv, TypeOK
  <2>2. \A v \in Workers \ {w} : Busy(v)' <=> Busy(v)
    BY <2>1 DEF Busy
  <2>3. worker'[w].req = r /\ worker'[w].claim = req[r].attempts + 1
    BY <2>1
  <2>4. ASSUME NEW v \in Workers, Busy(v)'
        PROVE  worker'[v].claim \in Nat \ {0} /\ worker'[v].claim <= req'[worker'[v].req].attempts
    <3>1. CASE v = w
      BY <1>1, <2>1, <2>3, <3>1
    <3>2. CASE v # w
      BY <1>1, <1>2, <1>3, <2>1, <2>2, <2>4, <3>2 DEF ClaimsInv
    <3> QED BY <3>1, <3>2
  <2>5. ASSUME NEW v \in Workers \ {w}, Busy(v)', worker'[v].req = r
        PROVE  worker'[v].claim # worker'[w].claim
    BY <1>1, <2>1, <2>2, <2>3, <2>5 DEF ClaimsInv
  <2>6. ASSUME NEW u \in Workers, NEW v \in Workers, u # v, Busy(u)', Busy(v)',
               worker'[u].req = worker'[v].req
        PROVE  worker'[u].claim # worker'[v].claim
    <3>1. CASE u = w
      BY <2>3, <2>5, <2>6, <3>1
    <3>2. CASE v = w
      BY <2>3, <2>5, <2>6, <3>2
    <3>3. CASE u # w /\ v # w
      BY <2>1, <2>2, <2>6, <3>3 DEF ClaimsInv
    <3> QED BY <3>1, <3>2, <3>3
  <2> QED BY <2>4, <2>6 DEF ClaimsInv
<1> QED BY <1>4, <1>5, WorkerSteps DEF SafeInv, WorkerStep

\* However late the answers arrive, at most one worker can record an outcome.
THEOREM OneHolder == Spec => []OneLeaseHolder
<1>1. Init => ClaimsInv
  BY DEF Init, IdleWorker, ClaimsInv, Busy
<1>2. SafeInv /\ ClaimsInv /\ [Next]_vars => ClaimsInv'
  BY ClaimsStep
<1>3. ClaimsInv => OneLeaseHolder
  BY DEF ClaimsInv, Busy, OneLeaseHolder, HoldsLease
<1> QED BY <1>1, <1>2, <1>3, SafeInvAlways, PTL DEF Spec

-----------------------------------------------------------------------------
(* The attempt budget.                                                     *)

\* Workers that claimed r and have not yet mailed it.
Claimants(r) == {w \in Workers : worker[w].pc = "claimed" /\ worker[w].req = r}

\* Every mail, and every claim that may still become one, spent an attempt.
BudgetInv == \A r \in Requests : sends[r] + Cardinality(Claimants(r)) <= req[r].attempts

\* The workers holding an unsent claim of a request can be counted.
LEMMA ClaimantsFinite ==
    ASSUME NEW r \in Requests
    PROVE  IsFiniteSet(Claimants(r)) /\ Cardinality(Claimants(r)) \in Nat
BY WorkerAssumption, FS_Subset, FS_CardinalityType DEF Claimants

\* A step that mails nothing and adds no claimant stays within the budget.
LEMMA BudgetKept ==
    ASSUME SafeInv, BudgetInv, [Next]_vars, NEW r \in Requests,
           sends'[r] = sends[r], Claimants(r)' \subseteq Claimants(r)
    PROVE  sends'[r] + Cardinality(Claimants(r)') <= req'[r].attempts
<1>1. Cardinality(Claimants(r)') \in Nat /\ Cardinality(Claimants(r)') <= Cardinality(Claimants(r))
  BY ClaimantsFinite, FS_Subset, FS_CardinalityType
<1>2. req[r].attempts <= req'[r].attempts /\ req[r].attempts \in Nat /\ sends[r] \in Nat
  BY StepRows, AttemptsGrow DEF SafeInv, RowsFit, TypeInv, TypeOK, Row
<1>3. req'[r].attempts \in Nat
  <2>1. TypeInv'
    BY TypeStep DEF SafeInv
  <2> QED BY <2>1 DEF TypeInv, TypeOK, Row
<1> QED BY <1>1, <1>2, <1>3, ClaimantsFinite DEF BudgetInv

\* A claim spends an attempt for the mail it may send.
LEMMA BudgetStep ==
    ASSUME SafeInv, BudgetInv, [Next]_vars PROVE BudgetInv'
<1> SUFFICES ASSUME NEW r \in Requests
             PROVE  sends'[r] + Cardinality(Claimants(r)') <= req'[r].attempts
  BY DEF BudgetInv
<1>1. /\ req[r].attempts \in Nat /\ sends[r] \in Nat /\ r \in Requests
      /\ sends[r] + Cardinality(Claimants(r)) <= req[r].attempts
      /\ \A w \in Workers : worker[w] \in [pc : {"idle", "claimed", "sending"},
                                           req : Requests \cup {None}, claim : Nat]
  BY DEF SafeInv, BudgetInv, TypeInv, TypeOK, Row
<1>2. ASSUME sends' = sends, worker' = worker
      PROVE  sends'[r] + Cardinality(Claimants(r)') <= req'[r].attempts
  BY <1>2, BudgetKept DEF Claimants
<1>3. ASSUME NEW w \in Workers, sends' = sends, worker' = [worker EXCEPT ![w] = IdleWorker]
      PROVE  sends'[r] + Cardinality(Claimants(r)') <= req'[r].attempts
  <2>1. Claimants(r)' \subseteq Claimants(r)
    BY <1>3 DEF Claimants, IdleWorker, SafeInv, TypeInv, TypeOK
  <2> QED BY <1>3, <2>1, BudgetKept
<1>4. ASSUME NEW w \in Workers, NEW q \in Requests, Claim(w, q)
      PROVE  sends'[r] + Cardinality(Claimants(r)') <= req'[r].attempts
  <2>1. \A v \in Workers : worker'[v] =
           IF v = w THEN [pc |-> "claimed", req |-> q, claim |-> req[q].attempts + 1]
                    ELSE worker[v]
    BY <1>4, ClaimNumbers DEF SafeInv, TypeInv, TypeOK
  <2>2. sends' = sends /\ worker[w].pc = "idle"
    BY <1>4 DEF Claim
  <2>3. CASE r = q
    <3>1. Claimants(r)' = Claimants(r) \cup {w} /\ w \notin Claimants(r)
      BY <2>1, <2>2, <2>3 DEF Claimants
    <3>2. Cardinality(Claimants(r)') = Cardinality(Claimants(r)) + 1
      BY <3>1, ClaimantsFinite, FS_AddElement
    <3>3. req'[r].attempts = req[r].attempts + 1
      BY <1>4, <2>3, ClaimNumbers
    <3> QED BY <1>1, <2>2, <3>2, <3>3, ClaimantsFinite
  <2>4. CASE r # q
    <3>1. Claimants(r)' \subseteq Claimants(r)
      BY <2>1, <2>4 DEF Claimants
    <3> QED BY <2>2, <3>1, BudgetKept
  <2> QED BY <2>3, <2>4
<1>5. ASSUME NEW w \in Workers, Dispatch(w)
      PROVE  sends'[r] + Cardinality(Claimants(r)') <= req'[r].attempts
  <2>1. \A v \in Workers : /\ worker'[v].pc = IF v = w THEN "sending" ELSE worker[v].pc
                           /\ worker'[v].req = worker[v].req
    BY <1>5 DEF Dispatch, SafeInv, TypeInv, TypeOK
  <2>2. req' = req /\ worker[w].pc = "claimed"
    BY <1>5 DEF Dispatch, rows
  <2>3. CASE r = worker[w].req
    <3>1. w \in Claimants(r) /\ Claimants(r)' = Claimants(r) \ {w}
      BY <2>1, <2>2, <2>3 DEF Claimants
    <3>2. Cardinality(Claimants(r)') = Cardinality(Claimants(r)) - 1
      BY <3>1, ClaimantsFinite, FS_RemoveElement
    <3>3. sends'[r] = sends[r] + 1
      BY <1>5, <2>3 DEF Dispatch, SafeInv, TypeInv, TypeOK
    <3> QED BY <1>1, <2>2, <3>2, <3>3, ClaimantsFinite
  <2>4. CASE r # worker[w].req
    <3>1. sends'[r] = sends[r]
      BY <1>5, <2>4 DEF Dispatch, SafeInv, TypeInv, TypeOK
    <3>2. Claimants(r)' \subseteq Claimants(r)
      BY <2>1 DEF Claimants
    <3> QED BY <3>1, <3>2, BudgetKept
  <2> QED BY <2>3, <2>4
<1>6. CASE Staff \/ PublicUpload \/ Tick \/ UNCHANGED vars
  <2>1. sends' = sends /\ worker' = worker
    BY <1>6
       DEF Staff, PublicUpload, CreateRequest, CreateLink, CancelRequest, RevokeLink,
           DeactivateVendor, ActivateVendor, BeginUpload, FinishUpload, RejectUpload,
           CrashUpload, Tick, vars
  <2> QED BY <1>2, <2>1
<1>7. ASSUME NEW w \in Workers, Cycle(w) \/ CrashWorker(w)
      PROVE  sends'[r] + Cardinality(Claimants(r)') <= req'[r].attempts
  BY <1>2, <1>3, <1>4, <1>5, <1>7
     DEF Cycle, AnswerArrives, ClaimNothing, DispatchInactive, SendAccepted, SendFailed,
         LateAnswer, CrashWorker
<1> QED BY <1>6, <1>7 DEF Next

\* However many workers crash, stall and reclaim, a request is mailed at most
\* MaxAttempts times.
THEOREM SendsBounded == Spec => []SendBudget
<1>1. Init => BudgetInv
  <2> SUFFICES ASSUME Init, NEW r \in Requests
               PROVE  sends[r] + Cardinality(Claimants(r)) <= req[r].attempts
    BY DEF BudgetInv
  <2>1. Claimants(r) = {}
    BY DEF Init, IdleWorker, Claimants
  <2> QED BY <2>1, FS_EmptySet DEF Init, NoRow
<1>2. SafeInv /\ BudgetInv /\ [Next]_vars => BudgetInv'
  BY BudgetStep
<1>3. SafeInv /\ BudgetInv => SendBudget
  <2> SUFFICES ASSUME SafeInv, BudgetInv, NEW r \in Requests PROVE sends[r] <= MaxAttempts
    BY DEF SendBudget
  <2>1. req[r].attempts \in Nat /\ sends[r] \in Nat /\ req[r].attempts <= MaxAttempts
    BY DEF SafeInv, RowsFit, RowFits, TypeInv, TypeOK, Row
  <2> QED BY <2>1, ClaimantsFinite, TimingAssumption DEF BudgetInv
<1> QED BY <1>1, <1>2, <1>3, SafeInvAlways, PTL DEF Spec

-----------------------------------------------------------------------------
(* Links.                                                                  *)

\* The ways a step changes one link and the certificates stored through it.
LinkStays(l)   == link'[l] = link[l] /\ docs'[l] = docs[l]
LinkOpens(l)   == /\ link[l] = NoLink \/ (l \in Requests /\ req[l].state = "absent")
                  /\ l \in Requests => req'[l].state = "open"
                  /\ \E t \in Nat, n \in Nat : link'[l] = NewLink(t, n)
                  /\ docs'[l] = docs[l]
LinkRevoked(l) == /\ link[l] # NoLink \/ (l \in Requests /\ req[l].state = "open")
                  /\ link'[l] = Revoked(link[l]) /\ docs'[l] = docs[l]
LinkUsed(l)    == /\ ~link[l].revoked /\ link[l].uses < link[l].maxUses
                  /\ l \in Requests => req[l].state = "open"
                  /\ link'[l] = [link[l] EXCEPT !.uses = @ + 1]
                  /\ \E u \in Uploads : docs'[l] = docs[l] \cup {u}

LinkStep(l) == LinkStays(l) \/ LinkOpens(l) \/ LinkRevoked(l) \/ LinkUsed(l)

\* Cancelling requests revokes their links and leaves the others.
LEMMA CancelOpenLinks ==
    ASSUME NEW rs \in SUBSET Requests, CancelOpen(rs), docs' = docs, NEW l \in Links,
           \A r \in rs : req[r].state = "open"
    PROVE  LinkStep(l)
<1>1. CASE l \in rs
  BY <1>1 DEF CancelOpen, LinkStep, LinkRevoked
<1>2. CASE l \notin rs
  BY <1>2 DEF CancelOpen, LinkStep, LinkStays
<1> QED BY <1>1, <1>2

\* Every step opens, revokes or uses a link, or leaves it alone.
LEMMA LinkSteps ==
    ASSUME TypeInv, [Next]_vars, NEW l \in Links
    PROVE  LinkStep(l)
<1> USE RequestAssumption, TimingAssumption
<1>1. ASSUME UNCHANGED <<link, docs>> PROVE LinkStep(l)
  BY <1>1 DEF LinkStep, LinkStays
<1>2. ASSUME NEW r \in Requests, NEW m \in {"manual", "smtp"}, NEW t \in Ttls,
             CreateRequest(r, m, t)
      PROVE  LinkStep(l)
  <2>1. CASE l = r
    <3>1. t \in Nat /\ 1 \in Nat
      OBVIOUS
    <3>2. link'[l] = NewLink(t, 1) /\ docs' = docs
      BY <1>2, <2>1 DEF CreateRequest, TypeInv, TypeOK, Links
    <3>3. req'[l].state = "open" /\ req[l].state = "absent"
      BY <1>2, <2>1, CreatedFields DEF CreateRequest, TypeInv, TypeOK
    <3> QED BY <2>1, <3>1, <3>2, <3>3 DEF LinkStep, LinkOpens
  <2>2. CASE l # r
    BY <1>2, <2>2 DEF CreateRequest, TypeInv, TypeOK, LinkStep, LinkStays
  <2> QED BY <2>1, <2>2
<1>3. ASSUME NEW k \in PlainLinks, NEW t \in Ttls, NEW n \in PlainUses, CreateLink(k, t, n)
      PROVE  LinkStep(l)
  <2>1. CASE l = k
    <3>1. t \in Nat /\ n \in Nat /\ l \notin Requests
      BY <2>1
    <3>2. /\ link[l] = NoLink /\ docs' = docs
          /\ link'[l] = NewLink(t, n)
      BY <1>3, <2>1 DEF CreateLink, TypeInv, TypeOK, Links
    <3>3. LinkOpens(l)
      BY <3>1, <3>2 DEF LinkOpens
    <3> QED BY <3>3 DEF LinkStep
  <2>2. CASE l # k
    BY <1>3, <2>2 DEF CreateLink, TypeInv, TypeOK, LinkStep, LinkStays
  <2> QED BY <2>1, <2>2
<1>4. ASSUME NEW r \in Requests, CancelRequest(r) PROVE LinkStep(l)
  BY <1>4, CancelOpenLinks DEF CancelRequest
<1>5. ASSUME NEW k \in Links, RevokeLink(k) PROVE LinkStep(l)
  <2>1. CASE k \in Requests /\ req[k].state = "open"
    BY <1>5, <2>1, CancelOpenLinks DEF RevokeLink
  <2>2. CASE ~(k \in Requests /\ req[k].state = "open")
    <3>1. link[k] # NoLink /\ link' = [link EXCEPT ![k] = Revoked(@)] /\ docs' = docs
      BY <1>5, <2>2 DEF RevokeLink
    <3>2. CASE l = k
      <4>1. link'[l] = Revoked(link[l])
        BY <3>1, <3>2 DEF TypeInv, TypeOK
      <4>2. link[l] # NoLink /\ docs'[l] = docs[l]
        BY <3>1, <3>2
      <4> QED BY <4>1, <4>2 DEF LinkStep, LinkRevoked
    <3>3. CASE l # k
      BY <3>1, <3>3 DEF TypeInv, TypeOK, LinkStep, LinkStays
    <3> QED BY <3>2, <3>3
  <2> QED BY <2>1, <2>2
<1>6. ASSUME NEW v \in Vendors, DeactivateVendor(v) PROVE LinkStep(l)
  <2>1. OpenOf(v) \in SUBSET Requests /\ \A q \in OpenOf(v) : req[q].state = "open"
    BY DEF OpenOf
  <2> QED BY <1>6, <2>1, CancelOpenLinks DEF DeactivateVendor
<1>7. ASSUME NEW u \in Uploads, FinishUpload(u) PROVE LinkStep(l)
  <2> DEFINE k == upload[u].link
  <2>1. CASE l = k
    <3>1. /\ ~link[l].revoked /\ link[l].uses < link[l].maxUses
          /\ l \in Requests => req[l].state = "open"
      BY <1>7, <2>1 DEF FinishUpload, Consumable, LinkActive
    <3>2. link'[l] = [link[l] EXCEPT !.uses = @ + 1] /\ docs'[l] = docs[l] \cup {u}
      BY <1>7, <2>1 DEF FinishUpload, TypeInv, TypeOK
    <3> QED BY <3>1, <3>2 DEF LinkStep, LinkUsed
  <2>2. CASE l # k
    <3>1. link'[l] = link[l] /\ docs'[l] = docs[l]
      BY <1>7, <2>2 DEF FinishUpload, TypeInv, TypeOK
    <3> QED BY <3>1 DEF LinkStep, LinkStays
  <2> QED BY <2>1, <2>2
<1>8. ASSUME NEW w \in Workers, DispatchInactive(w) PROVE LinkStep(l)
  <2> DEFINE rs == IF req[worker[w].req].state = "open" THEN {worker[w].req} ELSE {}
  <2>1. rs \in SUBSET Requests /\ \A q \in rs : req[q].state = "open"
    BY <1>8 DEF DispatchInactive, TypeInv, InFlight
  <2>2. CancelOpen(rs) /\ docs' = docs
    BY <1>8 DEF DispatchInactive
  <2> HIDE DEF rs
  <2> QED BY <2>1, <2>2, CancelOpenLinks
<1>9. CASE \/ \E v \in Vendors : ActivateVendor(v)
           \/ \E u \in Uploads : \/ \E k \in Links : BeginUpload(u, k)
                                 \/ RejectUpload(u) \/ CrashUpload(u)
           \/ \E w \in Workers : \/ \E r \in Requests : Claim(w, r)
                                 \/ ClaimNothing(w) \/ Dispatch(w) \/ SendAccepted(w)
                                 \/ \E transient \in BOOLEAN : SendFailed(w, transient)
                                 \/ LateAnswer(w) \/ CrashWorker(w)
           \/ Tick
           \/ UNCHANGED vars
  BY <1>1, <1>9 DEF ActivateVendor, BeginUpload, RejectUpload, CrashUpload, Claim, ClaimNothing,
                    Dispatch, SendAccepted, SendFailed, LateAnswer, CrashWorker, Tick, vars, rows
<1> QED
  BY <1>2, <1>3, <1>4, <1>5, <1>6, <1>7, <1>8, <1>9
     DEF Next, Staff, PublicUpload, Cycle, AnswerArrives

\* A request not yet created has no link; a link counts its certificates.
LinkFits(l) ==
    /\ l \in Requests /\ req[l].state = "absent" => link[l] = NoLink /\ docs[l] = {}
    /\ IsFiniteSet(docs[l]) /\ Cardinality(docs[l]) <= link[l].uses
    /\ link[l].uses <= link[l].maxUses

LinksFit == \A l \in Links : LinkFits(l)

\* A new link is unused and not revoked.
LEMMA NewLinkFields ==
    ASSUME NEW t, NEW n
    PROVE  /\ NewLink(t, n).uses = 0 /\ NewLink(t, n).maxUses = n
           /\ ~NewLink(t, n).revoked
BY DEF NewLink, NoLink

\* Revoking changes nothing else about a link.
LEMMA RevokedFields ==
    ASSUME NEW lnk \in Link
    PROVE  /\ Revoked(lnk).revoked
           /\ Revoked(lnk).uses = lnk.uses /\ Revoked(lnk).maxUses = lnk.maxUses
BY DEF Revoked, Link

\* Nothing takes a request back to the state before its creation.
LEMMA NeverUncreated ==
    ASSUME TypeInv, NEW r \in Requests, RowStep(r), RowFits(req[r]), req'[r].state = "absent"
    PROVE  req[r].state = "absent"
BY ContractRowStep DEF ContractRow

\* Each of the ways a link changes keeps its uses and certificates in step.
LEMMA LinkFitsStep ==
    ASSUME SafeInv, LinksFit, [Next]_vars, NEW l \in Links
    PROVE  LinkFits(l)'
<1>1. /\ link[l] \in Link /\ link[l].uses \in Nat /\ link[l].maxUses \in Nat
      /\ IsFiniteSet(docs[l]) /\ Cardinality(docs[l]) \in Nat
      /\ Cardinality(docs[l]) <= link[l].uses /\ link[l].uses <= link[l].maxUses
  BY FS_CardinalityType DEF SafeInv, TypeInv, TypeOK, Link, LinksFit, LinkFits
<1>2. l \in Requests /\ req'[l].state = "absent"
        => req[l].state = "absent" /\ link[l] = NoLink /\ docs[l] = {}
  BY NeverUncreated, StepRows DEF SafeInv, RowsFit, LinksFit, LinkFits
<1>3. CASE LinkStays(l)
  BY <1>1, <1>2, <1>3 DEF LinkStays, LinkFits
<1>4. CASE LinkOpens(l)
  <2>1. PICK t \in Nat, n \in Nat : link'[l] = NewLink(t, n)
    BY <1>4 DEF LinkOpens
  <2>2. link'[l].uses = 0 /\ link'[l].maxUses = n
    BY <2>1, NewLinkFields
  <2>3. link[l] = NoLink
    BY <1>4 DEF LinkOpens, LinksFit, LinkFits
  <2>4. link[l].uses = 0
    BY <2>3 DEF NoLink
  <2>5. Cardinality(docs'[l]) <= 0 /\ IsFiniteSet(docs'[l])
    BY <1>1, <1>4, <2>4 DEF LinkOpens
  <2> QED BY <1>2, <1>4, <2>2, <2>5 DEF LinkOpens, LinkFits
<1>5. CASE LinkRevoked(l)
  <2>1. link'[l].uses = link[l].uses /\ link'[l].maxUses = link[l].maxUses /\ docs'[l] = docs[l]
    BY <1>1, <1>5, RevokedFields DEF LinkRevoked
  <2>2. ~(l \in Requests /\ req'[l].state = "absent")
    BY <1>2, <1>5 DEF LinkRevoked
  <2> QED BY <1>1, <2>1, <2>2 DEF LinkFits
<1>6. CASE LinkUsed(l)
  <2>1. PICK u \in Uploads : docs'[l] = docs[l] \cup {u}
    BY <1>6 DEF LinkUsed
  <2>2. IsFiniteSet(docs'[l]) /\ Cardinality(docs'[l]) <= Cardinality(docs[l]) + 1
    <3>1. IsFiniteSet(docs[l] \cup {u})
          /\ Cardinality(docs[l] \cup {u})
               = IF u \in docs[l] THEN Cardinality(docs[l]) ELSE Cardinality(docs[l]) + 1
      BY <1>1, FS_AddElement
    <3> QED BY <1>1, <2>1, <3>1
  <2>3. link'[l].uses = link[l].uses + 1 /\ link'[l].maxUses = link[l].maxUses
    BY <1>1, <1>6 DEF LinkUsed, Link
  <2>4. link[l].uses < link[l].maxUses /\ ~(l \in Requests /\ req'[l].state = "absent")
    BY <1>2, <1>6 DEF LinkUsed
  <2>5. Cardinality(docs'[l]) \in Nat
    BY <2>2, FS_CardinalityType
  <2> QED BY <1>1, <2>2, <2>3, <2>4, <2>5 DEF LinkFits
<1> QED BY <1>3, <1>4, <1>5, <1>6, LinkSteps DEF LinkStep, SafeInv

\* A link counts a use for every certificate stored through it, and never more
\* uses than it allows.
THEOREM LinksFitAlways == Spec => []LinksFit
<1>1. Init => LinksFit
  BY FS_EmptySet DEF Init, NoLink, LinksFit, LinkFits, Links
<1>2. SafeInv /\ LinksFit /\ [Next]_vars => LinksFit'
  BY LinkFitsStep DEF LinksFit
<1> QED BY <1>1, <1>2, SafeInvAlways, PTL DEF Spec

\* A link never yields more certificates than its max_uses.
THEOREM LinkUsesBounded == Spec => []LinkBudget
<1>1. TypeInv /\ LinksFit => LinkBudget
  <2> SUFFICES ASSUME TypeInv, LinksFit, NEW l \in Links
               PROVE  Cardinality(docs[l]) <= link[l].maxUses
    BY DEF LinkBudget
  <2>1. /\ link[l].uses \in Nat /\ link[l].maxUses \in Nat /\ Cardinality(docs[l]) \in Nat
        /\ Cardinality(docs[l]) <= link[l].uses /\ link[l].uses <= link[l].maxUses
    BY FS_CardinalityType DEF TypeInv, TypeOK, Link, LinksFit, LinkFits
  <2> QED BY <2>1
<1> QED BY <1>1, LinksFitAlways, TypeCorrect, PTL

\* Revoking a link is final, even for uploads already past their first check.
THEOREM RevocationFinal == Spec => RevokedLinkTakesNothing
<1>1. TypeInv /\ LinksFit /\ [Next]_vars
        => [\A l \in Links : link[l].revoked => link'[l].revoked /\ docs'[l] = docs[l]]_vars
  <2> SUFFICES ASSUME TypeInv, LinksFit, [Next]_vars, NEW l \in Links, link[l].revoked
               PROVE  link'[l].revoked /\ docs'[l] = docs[l]
    OBVIOUS
  <2>1. link[l] \in Link /\ link[l] # NoLink
    BY DEF TypeInv, TypeOK, NoLink
  <2>2. CASE LinkStays(l)
    BY <2>2 DEF LinkStays
  <2>3. CASE LinkOpens(l)
    BY <2>1, <2>3 DEF LinkOpens, LinksFit, LinkFits
  <2>4. CASE LinkRevoked(l)
    BY <2>1, <2>4, RevokedFields DEF LinkRevoked
  <2>5. CASE LinkUsed(l)
    BY <2>5 DEF LinkUsed
  <2> QED BY <2>2, <2>3, <2>4, <2>5, LinkSteps DEF LinkStep
<1> QED BY <1>1, LinksFitAlways, TypeCorrect, PTL DEF Spec, RevokedLinkTakesNothing
=============================================================================
