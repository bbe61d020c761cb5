--------------------------- MODULE WebhookDelivery ---------------------------
(***************************************************************************)
(* The outbox of domain events and the webhook workers that post it.       *)
(* Publishing an event inserts one delivery row for every active endpoint  *)
(* that wants it; workers lease due rows one at a time, resolve the        *)
(* target (an await), look at the endpoint again, post (an await) and      *)
(* record the outcome under their claim.  Every action is one SQLite       *)
(* statement or transaction, with the synchronous code around it.          *)
(*                                                                         *)
(* The code only ever compares an instant with the present, so a row holds *)
(* the age of its claim and the wait until its next attempt, and a tick    *)
(* moves both.                                                             *)
(***************************************************************************)
EXTENDS Integers, Sequences, FiniteSets

CONSTANTS
    Events,
    Endpoints,
    Wants,        \* the events each endpoint subscribes to by type, or by *
    Workers,
    None,         \* the NULL claim token
    MaxAttempts,  \* MAX_ATTEMPTS
    Stale,        \* STALE_CLAIM_MS
    Delays,       \* the delays of retryAt, indexed by the attempt that failed
    MaxReplays    \* bound on the replays of one delivery

Deliveries == Events \X Endpoints

ASSUME SubscriptionAssumption == Wants \in [Endpoints -> SUBSET Events]

ASSUME LimitAssumption ==
    /\ MaxAttempts \in Nat \ {0}
    /\ Stale \in Nat
    /\ Delays \in Seq(Nat \ {0}) /\ Delays # <<>>
    /\ MaxReplays \in Nat
    /\ IsFiniteSet(Workers) /\ None \notin Workers \cup Deliveries

VARIABLES
    endpoint,   \* webhook_endpoints.status
    published,  \* domain_events
    row,        \* webhook_deliveries
    worker,     \* worker processes
    posts,      \* requests sent for each delivery, over all workers
    taken,      \* deliveries the receiver answered with 2xx at least once
    replays     \* replays asked for each delivery

vars == <<endpoint, published, row, worker, posts, taken, replays>>

-----------------------------------------------------------------------------
Waiting  == {"pending", "failed"}
Statuses == Waiting \cup {"absent", "processing", "succeeded", "dead_letter"}
Row == [status : Statuses, attempts : Nat,
        claim : Workers \cup {None},   \* claim_token: a UUID, named by its worker
        age : Nat,                     \* now - claimed_at, up to Stale + 1
        wait : Nat]                    \* next_attempt_at - now, 0 once due

NoRow == [status |-> "absent", attempts |-> 0, claim |-> None, age |-> 0, wait |-> 0]
IdleWorker == [pc |-> "idle", todo |-> {}, job |-> None, attempt |-> 0]

Init ==
    /\ endpoint = [e \in Endpoints |-> "absent"]
    /\ published = {}
    /\ row = [d \in Deliveries |-> NoRow]
    /\ worker = [w \in Workers |-> IdleWorker]
    /\ posts = [d \in Deliveries |-> 0]
    /\ taken = {}
    /\ replays = [d \in Deliveries |-> 0]

Active(d) == endpoint[d[2]] = "active"

-----------------------------------------------------------------------------
(* The application: events, endpoints and replays.                         *)

\* publishDomainEvent, inside the transaction of the change it reports.
Audience(ev) == {e \in Endpoints : endpoint[e] = "active" /\ ev \in Wants[e]}

Publish(ev) ==
    /\ ev \notin published
    /\ published' = published \cup {ev}
    /\ row' = [d \in Deliveries |-> IF d[1] = ev /\ d[2] \in Audience(ev)
                                    THEN [NoRow EXCEPT !.status = "pending"] ELSE row[d]]
    /\ UNCHANGED <<endpoint, worker, posts, taken, replays>>

CreateEndpoint(e) ==
    /\ endpoint[e] = "absent"
    /\ endpoint' = [endpoint EXCEPT ![e] = "active"]
    /\ UNCHANGED <<published, row, worker, posts, taken, replays>>

\* Deliveries of a disabled endpoint stay where they are.
SetEndpointStatus(e, status) ==
    /\ endpoint[e] # "absent"
    /\ endpoint' = [endpoint EXCEPT ![e] = status]
    /\ UNCHANGED <<published, row, worker, posts, taken, replays>>

Replay(d) ==
    /\ row[d].status \in {"failed", "dead_letter"}
    /\ replays[d] < MaxReplays
    /\ row' = [row EXCEPT ![d] = [NoRow EXCEPT !.status = "pending"]]
    /\ replays' = [replays EXCEPT ![d] = @ + 1]
    /\ UNCHANGED <<endpoint, published, worker, posts, taken>>

-----------------------------------------------------------------------------
(* A worker's batch.                                                       *)

Unclaimed(r, status) == [r EXCEPT !.status = status, !.claim = None, !.age = 0]

\* Mutant: the last attempt is requeued as well.
RecoveredAlive(r) ==
    IF r.status = "processing" /\ r.age > Stale
    THEN [Unclaimed(r, "failed") EXCEPT !.wait = 0] ELSE r

\* recoverStaleDeliveries: a claim nobody completed is due at once, or dead.
Recovered(r) ==
    IF r.status = "processing" /\ r.age > Stale
    THEN [Unclaimed(r, IF r.attempts >= MaxAttempts THEN "dead_letter" ELSE "failed")
             EXCEPT !.wait = 0]
    ELSE r

\* Mutant: failed deliveries wait for a replay.
ClaimableOnce(d, r) ==
    r.status = "pending" /\ r.wait = 0 /\ r.attempts < MaxAttempts /\ Active(d)

\* The condition of both the candidate query and the claim.
Claimable(d, r) ==
    r.status \in Waiting /\ r.wait = 0 /\ r.attempts < MaxAttempts /\ Active(d)

StartBatch(w) ==
    /\ worker[w].pc = "idle"
    /\ row' = [d \in Deliveries |-> Recovered(row[d])]
    /\ LET todo == {d \in Deliveries : Claimable(d, Recovered(row[d]))} IN
       worker' = [worker EXCEPT ![w] = IF todo = {} THEN IdleWorker
                                       ELSE [IdleWorker EXCEPT !.pc = "batch", !.todo = todo]]
    /\ UNCHANGED <<endpoint, published, posts, taken, replays>>

\* The worker goes on with the rest of its batch.
Proceed(w, todo) ==
    worker' = [worker EXCEPT ![w] = IF todo = {} THEN IdleWorker
                                    ELSE [IdleWorker EXCEPT !.pc = "batch", !.todo = todo]]

Claim(w, d) ==
    /\ worker[w].pc = "batch" /\ d \in worker[w].todo
    /\ Claimable(d, row[d])
    /\ row' = [row EXCEPT ![d].status = "processing", ![d].attempts = @ + 1,
                          ![d].claim = w, ![d].age = 0]
    /\ worker' = [worker EXCEPT ![w] = [pc |-> "resolving", todo |-> worker[w].todo \ {d},
                                        job |-> d, attempt |-> row[d].attempts + 1]]
    /\ UNCHANGED <<endpoint, published, posts, taken, replays>>

\* A candidate another worker took, or whose endpoint was disabled since.
Skip(w, d) ==
    /\ worker[w].pc = "batch" /\ d \in worker[w].todo
    /\ ~Claimable(d, row[d])
    /\ Proceed(w, worker[w].todo \ {d})
    /\ UNCHANGED <<endpoint, published, row, posts, taken, replays>>

\* Mutant: the row is found by its id.
HoldsRow(w)      == row[worker[w].job].status # "absent"

\* The WHERE clause of every outcome.
HoldsClaim(w) == row[worker[w].job].claim = w

\* The target is resolved but its endpoint is disabled: the attempt is given back.
Released(r) ==
    [Unclaimed(r, IF r.attempts > 1 THEN "failed" ELSE "pending")
        EXCEPT !.attempts = IF @ > 0 THEN @ - 1 ELSE 0]

Release(w) ==
    LET d == worker[w].job IN
    /\ worker[w].pc = "resolving" /\ ~Active(d)
    /\ row' = IF HoldsClaim(w) /\ row[d].status = "processing"
              THEN [row EXCEPT ![d] = Released(@)] ELSE row
    /\ Proceed(w, worker[w].todo)
    /\ UNCHANGED <<endpoint, published, posts, taken, replays>>

\* The post leaves; whether the receiver takes it is decided out there.
Post(w, ok) ==
    LET d == worker[w].job IN
    /\ worker[w].pc = "resolving" /\ Active(d)
    /\ posts' = [posts EXCEPT ![d] = @ + 1]
    /\ taken' = IF ok THEN taken \cup {d} ELSE taken
    /\ worker' = [worker EXCEPT ![w].pc = IF ok THEN "posted_ok" ELSE "posted"]
    /\ UNCHANGED <<endpoint, published, row, replays>>

RetryDelay(attempt) == Delays[IF attempt < Len(Delays) THEN attempt ELSE Len(Delays)]

Succeed(w) ==
    LET d == worker[w].job IN
    /\ worker[w].pc = "posted_ok"
    /\ row' = IF HoldsClaim(w) THEN [row EXCEPT ![d] = Unclaimed(@, "succeeded")] ELSE row
    /\ Proceed(w, worker[w].todo)
    /\ UNCHANGED <<endpoint, published, posts, taken, replays>>

\* No 2xx answer was seen: the target did not resolve, the deadline passed,
\* the receiver refused, or its answer was lost.
Fail(w) ==
    LET d == worker[w].job
        status == IF worker[w].attempt >= MaxAttempts THEN "dead_letter" ELSE "failed"
    IN  /\ worker[w].pc \in {"resolving", "posted", "posted_ok"}
        /\ row' = IF HoldsClaim(w)
                  THEN [row EXCEPT ![d] = [Unclaimed(@, status)
                          EXCEPT !.wait = RetryDelay(worker[w].attempt)]]
                  ELSE row
        /\ Proceed(w, worker[w].todo)
        /\ UNCHANGED <<endpoint, published, posts, taken, replays>>

\* The process dies with whatever it holds; its successor starts idle.
Crash(w) ==
    /\ worker[w].pc # "idle"
    /\ worker' = [worker EXCEPT ![w] = IdleWorker]
    /\ UNCHANGED <<endpoint, published, row, posts, taken, replays>>

Tick ==
    /\ row' = [d \in Deliveries |->
          [row[d] EXCEPT
              !.wait = IF @ > 0 THEN @ - 1 ELSE 0,
              !.age  = IF row[d].status = "processing" /\ @ <= Stale THEN @ + 1 ELSE @]]
    /\ UNCHANGED <<endpoint, published, worker, posts, taken, replays>>

-----------------------------------------------------------------------------
Application ==
    \/ \E ev \in Events : Publish(ev)
    \/ \E e \in Endpoints : \/ CreateEndpoint(e)
                            \/ \E s \in {"active", "disabled"} : SetEndpointStatus(e, s)
    \/ \E d \in Deliveries : Replay(d)

Take(w) == \E d \in Deliveries : Claim(w, d) \/ Skip(w, d)

Attempt(w) == Release(w) \/ (\E ok \in BOOLEAN : Post(w, ok)) \/ Succeed(w) \/ Fail(w)

Next ==
    \/ Application
    \/ \E w \in Workers : StartBatch(w) \/ Take(w) \/ Attempt(w) \/ Crash(w)
    \/ Tick

Spec == Init /\ [][Next]_vars

\* The watch loop starts a batch every few seconds, an attempt has a deadline
\* and time passes.  A worker is not killed between the start of a batch and
\* its first claim every single time.
Fairness ==
    /\ WF_vars(Tick)
    /\ \A w \in Workers : WF_vars(StartBatch(w)) /\ SF_vars(Take(w)) /\ WF_vars(Attempt(w))

LiveSpec == Spec /\ Fairness
-----------------------------------------------------------------------------
(* Properties.                                                             *)

TypeOK ==
    /\ endpoint \in [Endpoints -> {"absent", "active", "disabled"}]
    /\ published \subseteq Events
    /\ row \in [Deliveries -> Row]
    /\ worker \in [Workers -> [pc : {"idle", "batch", "resolving", "posted", "posted_ok"},
                               todo : SUBSET Deliveries, job : Deliveries \cup {None},
                               attempt : Nat]]
    /\ posts \in [Deliveries -> Nat]
    /\ taken \subseteq Deliveries
    /\ replays \in [Deliveries -> Nat]

\* No delivery is stranded: one that waits has an attempt left, one in
\* process has a claim that can expire, and only the last attempt kills it.
\* Crashes, releases, recoveries and replays all adjust status and attempts.
NothingStranded ==
    \A d \in Deliveries : LET r == row[d] IN
        /\ r.status \in Waiting => r.attempts < MaxAttempts
        /\ r.status = "pending" => r.attempts = 0
        /\ r.status = "dead_letter" => r.attempts = MaxAttempts
        /\ r.status = "processing" <=> r.claim # None

\* A delivery is posted at most MaxAttempts times, and as often again for each
\* replay, although a release gives its attempt back and workers stall.
PostBudget ==
    \A d \in Deliveries : posts[d] <= MaxAttempts * (1 + replays[d])

\* A worker still at its attempt loses its claim only by letting it go stale:
\* no replay, late answer, release or other worker takes it away.
ClaimLostOnlyWhenStale ==
    [][\A w \in Workers, d \in Deliveries :
          /\ row[d].claim = w /\ row'[d].claim # w
          /\ worker[w].job = d /\ worker'[w].job = d
          => row[d].age > Stale]_vars

\* What a delivery promises, with attempts and claims hidden.
PhaseOf(r) ==
    IF r.status = "absent" THEN "none"
    ELSE IF r.status = "succeeded" THEN "done"
    ELSE IF r.status = "dead_letter" THEN "dead" ELSE "due"

Contract == INSTANCE DeliveryContract WITH
    announced <- published,
    phase     <- [d \in Deliveries |-> PhaseOf(row[d])],
    got       <- taken,
    asked     <- replays

ImplementsContract == Contract!Spec

\* Every delivery is settled in the end, or its endpoint is disabled.
DeliverySettles ==
    \A d \in Deliveries :
        row[d].status \in Waiting \cup {"processing"}
            ~> row[d].status \in {"succeeded", "dead_letter"} \/ ~Active(d)
=============================================================================
