--------------------------- MODULE DeliveryProofs ---------------------------
(***************************************************************************)
(* Proofs about the two loops that deliver in the background: the workers  *)
(* that post webhooks, for any number of events, endpoints and workers and *)
(* any attempt limit, delays and bound on replays; and the cycles that     *)
(* mail renewal reminders, for any number of reminders and cycles and any  *)
(* attempt limit, lease and backoffs.  The two share no state.             *)
(***************************************************************************)
EXTENDS WebhookDelivery, ReminderDelivery, FiniteSetTheorems, TLAPS

-----------------------------------------------------------------------------
(* Webhook deliveries.                                                     *)

\* A worker between its claim and the outcome it records.
Busy(w) == worker[w].pc \in {"resolving", "posted", "posted_ok"}

\* Recovering a row gives a row.
LEMMA RecoveredType == ASSUME NEW r \in Row PROVE Recovered(r) \in Row
BY DEF Recovered, Unclaimed, Row, Statuses, Waiting

\* So does clearing a claim.
LEMMA UnclaimedType ==
    ASSUME NEW r \in Row, NEW s \in Statuses PROVE Unclaimed(r, s) \in Row
BY DEF Unclaimed, Row

\* So does giving an attempt back.
LEMMA ReleasedType == ASSUME NEW r \in Row PROVE Released(r) \in Row
<1> DEFINE u == Unclaimed(r, IF r.attempts > 1 THEN "failed" ELSE "pending")
<1>1. u \in Row /\ u.attempts \in Nat
  BY UnclaimedType DEF Row, Statuses, Waiting
<1>2. Released(r) = [u EXCEPT !.attempts = IF u.attempts > 0 THEN u.attempts - 1 ELSE 0]
  BY DEF Released
<1> HIDE DEF u
<1>3. (IF u.attempts > 0 THEN u.attempts - 1 ELSE 0) \in Nat
  BY <1>1
<1> QED BY <1>1, <1>2, <1>3 DEF Row

\* Time passes for a row.
LEMMA AgedType ==
    ASSUME NEW r \in Row, NEW wait \in Nat, NEW age \in Nat
    PROVE  [r EXCEPT !.wait = wait, !.age = age] \in Row
BY DEF Row

\* A delay of the table, whichever attempt failed.
LEMMA RetryDelayType == ASSUME NEW n \in Nat \ {0} PROVE RetryDelay(n) \in Nat
<1>1. Len(Delays) \in Nat \ {0} /\ \A i \in 1..Len(Delays) : Delays[i] \in Nat
  BY LimitAssumption
<1> QED BY <1>1 DEF RetryDelay

\* The job of a busy worker is a delivery it claimed, its attempt at least the first.
JobsNamed ==
    \A w \in Workers :
        IF Busy(w) THEN worker[w].job \in Deliveries /\ worker[w].attempt \in Nat \ {0}
                   ELSE worker[w].job = None

TypeInv == TypeOK /\ JobsNamed

\* Every step keeps the types.
LEMMA TypeStep == TypeInv /\ [Next]_vars => TypeInv'
<1> SUFFICES ASSUME TypeInv, [Next]_vars PROVE TypeInv'
  OBVIOUS
<1> USE DEF TypeInv, TypeOK, JobsNamed, Busy
<1>0. ASSUME NEW w \in Workers, NEW todo \in SUBSET Deliveries, Proceed(w, todo)
      PROVE  /\ worker' \in [Workers -> [pc : {"idle", "batch", "resolving", "posted", "posted_ok"},
                                         todo : SUBSET Deliveries, job : Deliveries \cup {None},
                                         attempt : Nat]]
             /\ JobsNamed'
  BY <1>0 DEF Proceed, IdleWorker
<1>1. ASSUME NEW ev \in Events, Publish(ev) PROVE TypeInv'
  <2>1. [NoRow EXCEPT !.status = "pending"] \in Row
    BY DEF NoRow, Row, Statuses, Waiting
  <2> QED BY <1>1, <2>1 DEF Publish
<1>2. ASSUME NEW e \in Endpoints, CreateEndpoint(e) PROVE TypeInv'
  BY <1>2 DEF CreateEndpoint
<1>3. ASSUME NEW e \in Endpoints, NEW s \in {"active", "disabled"}, SetEndpointStatus(e, s)
      PROVE  TypeInv'
  BY <1>3 DEF SetEndpointStatus
<1>4. ASSUME NEW d \in Deliveries, Replay(d) PROVE TypeInv'
  <2>1. [NoRow EXCEPT !.status = "pending"] \in Row
    BY DEF NoRow, Row, Statuses, Waiting
  <2> QED BY <1>4, <2>1 DEF Replay
<1>5. ASSUME NEW w \in Workers, StartBatch(w) PROVE TypeInv'
  <2>1. row' \in [Deliveries -> Row]
    BY <1>5, RecoveredType DEF StartBatch
  <2> DEFINE todo == {d \in Deliveries : Claimable(d, Recovered(row[d]))}
  <2>2. Proceed(w, todo)
    BY <1>5 DEF StartBatch, Proceed
  <2>3. todo \in SUBSET Deliveries
    OBVIOUS
  <2> HIDE DEF todo
  <2> QED BY <1>5, <1>0, <2>1, <2>2, <2>3 DEF StartBatch
<1>6. ASSUME NEW w \in Workers, NEW d \in Deliveries, Claim(w, d) PROVE TypeInv'
  <2>1. row' \in [Deliveries -> Row]
    BY <1>6 DEF Claim, Row, Statuses
  <2>2. row[d].attempts + 1 \in Nat \ {0}
    BY DEF Row
  <2> QED BY <1>6, <2>1, <2>2 DEF Claim
<1>7. ASSUME NEW w \in Workers, NEW d \in Deliveries, Skip(w, d) PROVE TypeInv'
  <2>1. worker[w].todo \ {d} \in SUBSET Deliveries
    OBVIOUS
  <2> QED BY <1>7, <1>0, <2>1 DEF Skip
<1>8. ASSUME NEW w \in Workers, Release(w) PROVE TypeInv'
  <2>1. row' \in [Deliveries -> Row]
    <3>1. ASSUME NEW r \in Row PROVE Released(r) \in Row
      BY <3>1, ReleasedType
    <3> QED BY <1>8, <3>1 DEF Release
  <2>2. worker[w].todo \in SUBSET Deliveries
    OBVIOUS
  <2> QED BY <1>8, <1>0, <2>1, <2>2 DEF Release
<1>9. ASSUME NEW w \in Workers, NEW ok \in BOOLEAN, Post(w, ok) PROVE TypeInv'
  BY <1>9 DEF Post
<1>10. ASSUME NEW w \in Workers, Succeed(w) PROVE TypeInv'
  <2>1. row' \in [Deliveries -> Row]
    BY <1>10, UnclaimedType DEF Succeed, Statuses
  <2>2. worker[w].todo \in SUBSET Deliveries
    OBVIOUS
  <2> QED BY <1>10, <1>0, <2>1, <2>2 DEF Succeed
<1>11. ASSUME NEW w \in Workers, Fail(w) PROVE TypeInv'
  <2> DEFINE status == IF worker[w].attempt >= MaxAttempts THEN "dead_letter" ELSE "failed"
             d == worker[w].job
             r == [Unclaimed(row[d], status) EXCEPT !.wait = RetryDelay(worker[w].attempt)]
  <2>1. row' \in [Deliveries -> Row]
    <3>1. d \in Deliveries /\ worker[w].attempt \in Nat \ {0}
      BY <1>11 DEF Fail
    <3>2. Unclaimed(row[d], status) \in Row
      BY <3>1, UnclaimedType DEF Statuses, Waiting
    <3>3. r \in Row
      BY <3>1, <3>2, RetryDelayType DEF Row
    <3>4. row' = row \/ row' = [row EXCEPT ![d] = r]
      BY <1>11 DEF Fail
    <3> QED BY <3>3, <3>4
  <2>2. worker[w].todo \in SUBSET Deliveries
    OBVIOUS
  <2> QED BY <1>11, <1>0, <2>1, <2>2 DEF Fail
<1>12. ASSUME NEW w \in Workers, Crash(w) PROVE TypeInv'
  BY <1>12 DEF Crash, IdleWorker
<1>13. CASE Tick
  <2> DEFINE wait(d) == IF row[d].wait > 0 THEN row[d].wait - 1 ELSE 0
             age(d)  == IF row[d].status = "processing" /\ row[d].age <= Stale
                        THEN row[d].age + 1 ELSE row[d].age
  <2>1. \A d \in Deliveries : wait(d) \in Nat /\ age(d) \in Nat
    BY DEF Row
  <2>2. row' = [d \in Deliveries |-> [row[d] EXCEPT !.wait = wait(d), !.age = age(d)]]
    BY <1>13 DEF Tick
  <2> HIDE DEF wait, age
  <2>3. row' \in [Deliveries -> Row]
    BY <2>1, <2>2, AgedType
  <2> QED BY <1>13, <2>3 DEF Tick
<1>14. CASE UNCHANGED vars
  BY <1>14 DEF vars
<1> QED
  BY <1>1, <1>2, <1>3, <1>4, <1>5, <1>6, <1>7, <1>8, <1>9, <1>10, <1>11, <1>12, <1>13, <1>14
     DEF Next, Application, Take, Attempt

\* Every variable keeps its type.
THEOREM TypesHold == Spec => []TypeOK
<1>1. Init => TypeInv
  BY DEF Init, TypeInv, TypeOK, JobsNamed, Busy, NoRow, IdleWorker, Row, Statuses, Waiting
<1>2. TypeInv => TypeOK
  BY DEF TypeInv
<1> QED BY <1>1, <1>2, TypeStep, PTL DEF Spec

-----------------------------------------------------------------------------
(* How a step may change a delivery row.                                   *)

Becomes(d, status, attempts, claim) ==
    row'[d].status = status /\ row'[d].attempts = attempts /\ row'[d].claim = claim

Keeps(d)    == Becomes(d, row[d].status, row[d].attempts, row[d].claim)
Appears(d)  == /\ d[1] \notin published /\ d[1] \in published'
               /\ Becomes(d, "pending", 0, None)
Restarts(d) == /\ row[d].status \in {"failed", "dead_letter"}
               /\ replays'[d] = replays[d] + 1
               /\ Becomes(d, "pending", 0, None)
Expires(d)  == /\ row[d].status = "processing" /\ row[d].age > Stale
               /\ Becomes(d, IF row[d].attempts >= MaxAttempts THEN "dead_letter" ELSE "failed",
                          row[d].attempts, None)
Starts(d)   == /\ row[d].status \in Waiting /\ row[d].attempts < MaxAttempts
               /\ \E w \in Workers : /\ ~Busy(w)
                                     /\ Becomes(d, "processing", row[d].attempts + 1, w)

\* The outcomes, recorded by the worker that holds the claim, which then goes on.
Holder(w, d) == Busy(w) /\ ~Busy(w)' /\ worker[w].job = d /\ row[d].claim = w
Returns(d, w)  == /\ Holder(w, d) /\ worker[w].pc = "resolving" /\ row[d].status = "processing"
                  /\ Becomes(d, IF row[d].attempts > 1 THEN "failed" ELSE "pending",
                             IF row[d].attempts > 0 THEN row[d].attempts - 1 ELSE 0, None)
Finishes(d, w) == /\ Holder(w, d) /\ worker[w].pc = "posted_ok"
                  /\ Becomes(d, "succeeded", row[d].attempts, None)
Fails(d, w)    == /\ Holder(w, d)
                  /\ Becomes(d, IF worker[w].attempt >= MaxAttempts THEN "dead_letter"
                                ELSE "failed", row[d].attempts, None)
Settles(d) == \E w \in Workers : Returns(d, w) \/ Finishes(d, w) \/ Fails(d, w)

RowStep(d) == Keeps(d) \/ Appears(d) \/ Restarts(d) \/ Expires(d) \/ Starts(d) \/ Settles(d)

\* A worker that goes on with its batch is not busy.
LEMMA ProceedRests ==
    ASSUME TypeInv, NEW w \in Workers, NEW todo, Proceed(w, todo)
    PROVE  ~Busy(w)'
BY DEF Proceed, IdleWorker, Busy, TypeInv, TypeOK

\* What clearing a claim leaves.
LEMMA UnclaimedFields ==
    ASSUME NEW r \in Row, NEW s
    PROVE  /\ Unclaimed(r, s).status = s /\ Unclaimed(r, s).attempts = r.attempts
           /\ Unclaimed(r, s).claim = None
BY DEF Unclaimed, Row

\* Setting the wait leaves the other fields.
LEMMA WaitFields ==
    ASSUME NEW r \in Row, NEW s, NEW n
    PROVE  LET q == [Unclaimed(r, s) EXCEPT !.wait = n] IN
           q.status = s /\ q.attempts = r.attempts /\ q.claim = None
BY DEF Unclaimed, Row

\* A new row, or one that is asked for again.
LEMMA PendingFields ==
    LET q == [NoRow EXCEPT !.status = "pending"] IN
    q.status = "pending" /\ q.attempts = 0 /\ q.claim = None
BY DEF NoRow

\* A returned attempt.
LEMMA ReleasedFields ==
    ASSUME NEW r \in Row
    PROVE  LET q == Released(r) IN
           /\ q.status = IF r.attempts > 1 THEN "failed" ELSE "pending"
           /\ q.attempts = IF r.attempts > 0 THEN r.attempts - 1 ELSE 0
           /\ q.claim = None
<1> DEFINE u == Unclaimed(r, IF r.attempts > 1 THEN "failed" ELSE "pending")
           n == IF u.attempts > 0 THEN u.attempts - 1 ELSE 0
<1>1. /\ u \in Row /\ u.attempts = r.attempts /\ u.claim = None
      /\ u.status = IF r.attempts > 1 THEN "failed" ELSE "pending"
  BY UnclaimedFields, UnclaimedType DEF Statuses, Waiting
<1>2. Released(r) = [u EXCEPT !.attempts = n]
  BY DEF Released
<1> HIDE DEF u
<1>3. /\ [u EXCEPT !.attempts = n].attempts = n
      /\ [u EXCEPT !.attempts = n].status = u.status
      /\ [u EXCEPT !.attempts = n].claim = u.claim
  <2> HIDE DEF n
  <2> QED BY <1>1 DEF Row
<1> QED BY <1>1, <1>2, <1>3

\* A batch's start only recovers stale rows.
LEMMA RecoveredFields ==
    ASSUME NEW r \in Row
    PROVE  LET q == Recovered(r) IN
           IF r.status = "processing" /\ r.age > Stale
           THEN /\ q.status = IF r.attempts >= MaxAttempts THEN "dead_letter" ELSE "failed"
                /\ q.attempts = r.attempts /\ q.claim = None
           ELSE q = r
<1> DEFINE s == IF r.attempts >= MaxAttempts THEN "dead_letter" ELSE "failed"
<1>1. LET q == [Unclaimed(r, s) EXCEPT !.wait = 0] IN
      q.status = s /\ q.attempts = r.attempts /\ q.claim = None
  BY WaitFields
<1> QED BY <1>1 DEF Recovered

\* Every step changes every delivery in one of these ways.
LEMMA StepRows ==
    ASSUME TypeInv, [Next]_vars, NEW d \in Deliveries
    PROVE  RowStep(d)
<1>0. /\ row \in [Deliveries -> Row] /\ row[d] \in Row
      /\ \A w \in Workers : Busy(w) => worker[w].job \in Deliveries
  BY DEF TypeInv, TypeOK, JobsNamed
<1>k. ASSUME row'[d] = row[d] PROVE RowStep(d)
  BY <1>k DEF RowStep, Keeps, Becomes
<1>1. ASSUME NEW ev \in Events, Publish(ev) PROVE RowStep(d)
  <2>1. CASE d[1] = ev /\ d[2] \in Audience(ev)
    <3>1. row'[d] = [NoRow EXCEPT !.status = "pending"] /\ d[1] \notin published
          /\ d[1] \in published'
      BY <1>1, <2>1 DEF Publish
    <3> QED BY <3>1, PendingFields DEF RowStep, Appears, Becomes
  <2>2. CASE ~(d[1] = ev /\ d[2] \in Audience(ev))
    BY <1>1, <2>2, <1>k DEF Publish
  <2> QED BY <2>1, <2>2
<1>2. ASSUME NEW q \in Deliveries, Replay(q) PROVE RowStep(d)
  <2>1. CASE q = d
    <3>1. /\ row'[d] = [NoRow EXCEPT !.status = "pending"]
          /\ row[d].status \in {"failed", "dead_letter"} /\ replays'[d] = replays[d] + 1
      BY <1>2, <2>1, <1>0 DEF Replay, TypeInv, TypeOK
    <3> QED BY <3>1, PendingFields DEF RowStep, Restarts, Becomes
  <2>2. CASE q # d
    BY <1>2, <2>2, <1>0, <1>k DEF Replay
  <2> QED BY <2>1, <2>2
<1>3. ASSUME NEW w \in Workers, StartBatch(w) PROVE RowStep(d)
  <2>1. row'[d] = Recovered(row[d])
    BY <1>3 DEF StartBatch
  <2> QED BY <1>0, <1>k, <2>1, RecoveredFields DEF RowStep, Expires, Becomes
<1>4. ASSUME NEW w \in Workers, NEW q \in Deliveries, Claim(w, q) PROVE RowStep(d)
  <2>1. CASE q = d
    <3>1. /\ row[d].status \in Waiting /\ row[d].attempts < MaxAttempts /\ ~Busy(w)
          /\ row' = [row EXCEPT ![d].status = "processing", ![d].attempts = @ + 1,
                                ![d].claim = w, ![d].age = 0]
      BY <1>4, <2>1 DEF Claim, Claimable, Busy
    <3>2. Becomes(d, "processing", row[d].attempts + 1, w)
      BY <1>0, <3>1 DEF Becomes, Row
    <3> QED BY <3>1, <3>2 DEF RowStep, Starts
  <2>2. CASE q # d
    BY <1>4, <2>2, <1>0, <1>k DEF Claim
  <2> QED BY <2>1, <2>2
<1>5. ASSUME NEW w \in Workers, Release(w) PROVE RowStep(d)
  <2>1. CASE worker[w].job = d /\ HoldsClaim(w) /\ row[d].status = "processing"
    <3>1. row'[d] = Released(row[d]) /\ worker[w].pc = "resolving"
      BY <1>5, <1>0, <2>1 DEF Release
    <3>2. ~Busy(w)'
      BY <1>5, ProceedRests DEF Release
    <3> QED BY <3>1, <3>2, <2>1, <1>0, ReleasedFields
            DEF RowStep, Settles, Returns, Holder, Busy, HoldsClaim, Becomes
  <2>2. CASE ~(worker[w].job = d /\ HoldsClaim(w) /\ row[d].status = "processing")
    BY <1>5, <1>0, <2>2, <1>k DEF Release
  <2> QED BY <2>1, <2>2
<1>6. ASSUME NEW w \in Workers, Succeed(w) PROVE RowStep(d)
  <2>1. CASE worker[w].job = d /\ HoldsClaim(w)
    <3>1. row'[d] = Unclaimed(row[d], "succeeded") /\ worker[w].pc = "posted_ok"
      BY <1>6, <1>0, <2>1 DEF Succeed
    <3>2. ~Busy(w)'
      BY <1>6, ProceedRests DEF Succeed
    <3> QED BY <3>1, <3>2, <2>1, <1>0, UnclaimedFields
            DEF RowStep, Settles, Finishes, Holder, Busy, HoldsClaim, Becomes
  <2>2. CASE ~(worker[w].job = d /\ HoldsClaim(w))
    BY <1>6, <1>0, <2>2, <1>k DEF Succeed
  <2> QED BY <2>1, <2>2
<1>7. ASSUME NEW w \in Workers, Fail(w) PROVE RowStep(d)
  <2> DEFINE s == IF worker[w].attempt >= MaxAttempts THEN "dead_letter" ELSE "failed"
  <2>1. CASE worker[w].job = d /\ HoldsClaim(w)
    <3>1. row'[d] = [Unclaimed(row[d], s) EXCEPT !.wait = RetryDelay(worker[w].attempt)]
          /\ Busy(w)
      BY <1>7, <1>0, <2>1 DEF Fail, Busy
    <3>3. ~Busy(w)'
      BY <1>7, ProceedRests DEF Fail
    <3>2. Becomes(d, s, row[d].attempts, None)
      BY <3>1, <1>0, WaitFields DEF Becomes
    <3> QED BY <3>1, <3>2, <3>3, <2>1 DEF RowStep, Settles, Fails, Holder, HoldsClaim
  <2>2. CASE ~(worker[w].job = d /\ HoldsClaim(w))
    BY <1>7, <1>0, <2>2, <1>k DEF Fail
  <2> QED BY <2>1, <2>2
<1>8. CASE Tick
  <2> DEFINE wait == IF row[d].wait > 0 THEN row[d].wait - 1 ELSE 0
             age  == IF row[d].status = "processing" /\ row[d].age <= Stale
                     THEN row[d].age + 1 ELSE row[d].age
  <2>1. row'[d] = [row[d] EXCEPT !.wait = wait, !.age = age]
    BY <1>8 DEF Tick
  <2> HIDE DEF wait, age
  <2>2. Keeps(d)
    BY <1>0, <2>1 DEF Keeps, Becomes, Row
  <2> QED BY <2>2 DEF RowStep
<1>9. ASSUME row' = row PROVE RowStep(d)
  BY <1>9, <1>k
<1>10. ASSUME NEW w \in Workers,
              (\E q \in Deliveries : Skip(w, q)) \/ (\E ok \in BOOLEAN : Post(w, ok)) \/ Crash(w)
       PROVE  row' = row
  BY <1>10 DEF Skip, Post, Crash
<1>11. ASSUME NEW e \in Endpoints,
              CreateEndpoint(e) \/ \E s \in {"active", "disabled"} : SetEndpointStatus(e, s)
       PROVE  row' = row
  BY <1>11 DEF CreateEndpoint, SetEndpointStatus
<1>12. UNCHANGED vars => row' = row
  BY DEF vars
<1> QED
  BY <1>1, <1>2, <1>3, <1>4, <1>5, <1>6, <1>7, <1>8, <1>9, <1>10, <1>11, <1>12
     DEF Next, Application, Take, Attempt

-----------------------------------------------------------------------------
(* The inductive invariant.                                                *)

RowFits(r) ==
    /\ r.attempts <= MaxAttempts
    /\ r.status \in Waiting => r.attempts < MaxAttempts
    /\ r.status \in {"absent", "pending"} => r.attempts = 0
    /\ r.status = "dead_letter" => r.attempts = MaxAttempts
    /\ r.status = "processing" <=> r.claim # None
    /\ r.status = "processing" => r.attempts >= 1

RowsFit == \A d \in Deliveries : RowFits(row[d])

\* A worker that holds its claim knows the number of its attempt; a worker
\* that saw a 2xx answer posted to a receiver that gave it.
WorkersFit ==
    \A w \in Workers : Busy(w) =>
        /\ row[worker[w].job].status # "absent"
        /\ HoldsClaim(w) => row[worker[w].job].attempts = worker[w].attempt
        /\ worker[w].pc = "posted_ok" => worker[w].job \in taken

Announced == \A d \in Deliveries : row[d].status # "absent" => d[1] \in published

SafeInv == TypeInv /\ RowsFit /\ WorkersFit /\ Announced

\* Each way a row changes keeps status, attempts and claim fitting.
LEMMA RowsFitStep == ASSUME SafeInv, [Next]_vars PROVE RowsFit'
<1> SUFFICES ASSUME NEW d \in Deliveries PROVE RowFits(row'[d])
  BY DEF RowsFit
<1> USE LimitAssumption
<1>1. /\ row[d] \in Row /\ row[d].attempts \in Nat /\ RowFits(row[d])
      /\ \A w \in Workers : w # None
  BY DEF SafeInv, RowsFit, TypeInv, TypeOK, Row
<1>2. RowStep(d)
  BY StepRows DEF SafeInv
<1>3. CASE Keeps(d)
  BY <1>1, <1>3 DEF Keeps, Becomes, RowFits
<1>4. CASE Appears(d) \/ Restarts(d)
  BY <1>1, <1>4 DEF Appears, Restarts, Becomes, RowFits, Waiting
<1>5. CASE Expires(d)
  BY <1>1, <1>5 DEF Expires, Becomes, RowFits, Waiting
<1>6. CASE Starts(d)
  BY <1>1, <1>6 DEF Starts, Becomes, RowFits, Waiting
<1>7. ASSUME NEW w \in Workers, Returns(d, w) PROVE RowFits(row'[d])
  BY <1>1, <1>7 DEF Returns, Becomes, RowFits, Waiting
<1>8. ASSUME NEW w \in Workers, Finishes(d, w) PROVE RowFits(row'[d])
  BY <1>1, <1>8 DEF Finishes, Becomes, RowFits, Waiting
<1>9. ASSUME NEW w \in Workers, Fails(d, w) PROVE RowFits(row'[d])
  <2>1. worker[w].attempt = row[d].attempts
    BY <1>9 DEF Fails, Holder, HoldsClaim, SafeInv, WorkersFit
  <2>2. row[d].status = "processing"
    BY <1>1, <1>9 DEF Fails, Holder, RowFits
  <2> QED BY <1>1, <1>9, <2>1, <2>2 DEF Fails, Becomes, RowFits, Waiting
<1> QED BY <1>2, <1>3, <1>4, <1>5, <1>6, <1>7, <1>8, <1>9 DEF RowStep, Settles

\* What is announced stays so, and rows appear only with their event.
LEMMA AnnouncedStep ==
    ASSUME SafeInv, [Next]_vars
    PROVE  /\ Announced' /\ published \subseteq published'
           /\ \A d \in Deliveries : row[d].status # "absent" => row'[d].status # "absent"
<1>1. published \subseteq published'
  BY DEF Next, Application, Take, Attempt, Publish, CreateEndpoint, SetEndpointStatus, Replay,
         StartBatch, Claim, Skip, Release, Post, Succeed, Fail, Crash, Tick, vars
<1>2. ASSUME NEW d \in Deliveries
      PROVE  /\ row'[d].status # "absent" => d[1] \in published'
             /\ row[d].status # "absent" => row'[d].status # "absent"
  <2>1. /\ row[d].status # "absent" => d[1] \in published
        /\ row[d].claim # None => row[d].status # "absent"
        /\ \A w \in Workers : w # None
    BY LimitAssumption DEF SafeInv, Announced, RowsFit, RowFits
  <2>2. RowStep(d)
    BY StepRows DEF SafeInv
  <2>3. CASE Keeps(d)
    BY <1>1, <2>1, <2>3 DEF Keeps, Becomes
  <2>4. CASE Appears(d)
    BY <2>4 DEF Appears, Becomes
  <2>5. CASE Restarts(d) \/ Expires(d) \/ Starts(d)
    BY <1>1, <2>1, <2>5 DEF Restarts, Expires, Starts, Becomes, Waiting
  <2>6. CASE Settles(d)
    <3>1. PICK w \in Workers : Returns(d, w) \/ Finishes(d, w) \/ Fails(d, w)
      BY <2>6 DEF Settles
    <3>2. d[1] \in published
      BY <2>1, <3>1 DEF Returns, Finishes, Fails, Holder
    <3> QED BY <1>1, <3>1, <3>2 DEF Returns, Finishes, Fails, Becomes
  <2> QED BY <2>2, <2>3, <2>4, <2>5, <2>6 DEF RowStep
<1> QED BY <1>1, <1>2 DEF Announced

\* A worker becomes busy only by a claim; otherwise it keeps its job and attempt
\* or drops them.
GoesOn(w) ==
    Busy(w)' => /\ Busy(w) /\ worker'[w].job = worker[w].job
                /\ worker'[w].attempt = worker[w].attempt
Takes(w)  == \E d \in Deliveries :
    /\ row[d].status \in Waiting
    /\ Becomes(d, "processing", row[d].attempts + 1, w)
    /\ worker'[w].pc = "resolving" /\ worker'[w].job = d
    /\ worker'[w].attempt = row[d].attempts + 1

\* Each step lets every worker go on or take a delivery, and a 2xx answer
\* comes from a receiver that took the delivery.
LEMMA WorkerSteps ==
    ASSUME TypeInv, [Next]_vars, NEW v \in Workers
    PROVE  /\ GoesOn(v) \/ Takes(v)
           /\ worker'[v].pc = "posted_ok" =>
                \/ worker[v].pc = "posted_ok" /\ worker'[v].job = worker[v].job
                \/ worker'[v].job \in taken'
           /\ taken \subseteq taken'
<1> DEFINE Goal == /\ GoesOn(v) \/ Takes(v)
                   /\ worker'[v].pc = "posted_ok" =>
                        \/ worker[v].pc = "posted_ok" /\ worker'[v].job = worker[v].job
                        \/ worker'[v].job \in taken'
                   /\ taken \subseteq taken'
<1>0. /\ worker \in [Workers -> [pc : {"idle", "batch", "resolving", "posted", "posted_ok"},
                                 todo : SUBSET Deliveries, job : Deliveries \cup {None},
                                 attempt : Nat]]
      /\ row \in [Deliveries -> Row]
  BY DEF TypeInv, TypeOK
<1>1. ASSUME worker' = worker, taken' = taken PROVE Goal
  BY <1>1 DEF GoesOn, Busy
<1>2. ASSUME NEW w \in Workers, NEW todo, Proceed(w, todo), taken' = taken PROVE Goal
  <2>1. worker'[v] = worker[v] \/ worker'[v].pc \in {"idle", "batch"}
    BY <1>0, <1>2 DEF Proceed, IdleWorker
  <2> QED BY <1>2, <2>1 DEF GoesOn, Busy
<1>3. ASSUME NEW w \in Workers, StartBatch(w) PROVE Goal
  BY <1>2, <1>3 DEF StartBatch, Proceed
<1>4. ASSUME NEW w \in Workers, NEW d \in Deliveries, Claim(w, d) PROVE Goal
  <2>1. CASE w = v
    <3>1. /\ worker'[v].pc = "resolving" /\ worker'[v].job = d
          /\ worker'[v].attempt = row[d].attempts + 1 /\ taken' = taken
          /\ row[d].status \in Waiting
      BY <1>0, <1>4, <2>1 DEF Claim, Claimable
    <3>2. Becomes(d, "processing", row[d].attempts + 1, v)
      BY <1>0, <1>4, <2>1 DEF Claim, Becomes, Row
    <3> QED BY <3>1, <3>2 DEF Takes
  <2>2. CASE w # v
    BY <1>0, <1>4, <2>2 DEF Claim, GoesOn, Busy
  <2> QED BY <2>1, <2>2
<1>5. ASSUME NEW w \in Workers, NEW ok \in BOOLEAN, Post(w, ok) PROVE Goal
  <2>1. CASE w = v
    <3>1. /\ worker'[v].job = worker[v].job /\ worker'[v].attempt = worker[v].attempt
          /\ worker[v].pc = "resolving"
          /\ worker'[v].pc = IF ok THEN "posted_ok" ELSE "posted"
      BY <1>0, <1>5, <2>1 DEF Post
    <3>2. taken' = IF ok THEN taken \cup {worker[v].job} ELSE taken
      BY <1>5, <2>1 DEF Post
    <3> QED BY <3>1, <3>2 DEF GoesOn, Busy
  <2>2. CASE w # v
    <3>1. worker'[v] = worker[v] /\ taken \subseteq taken'
      BY <1>0, <1>5, <2>2 DEF Post
    <3> QED BY <3>1 DEF GoesOn, Busy
  <2> QED BY <2>1, <2>2
<1>6. ASSUME NEW w \in Workers, (\E d \in Deliveries : Skip(w, d)) \/ Release(w)
                                \/ Succeed(w) \/ Fail(w)
      PROVE  Goal
  BY <1>2, <1>6 DEF Skip, Release, Succeed, Fail
<1>7. ASSUME NEW w \in Workers, Crash(w) PROVE Goal
  <2>1. worker'[v] = worker[v] \/ worker'[v].pc = "idle"
    BY <1>0, <1>7 DEF Crash, IdleWorker
  <2> QED BY <1>7, <2>1 DEF Crash, GoesOn, Busy
<1>8. ASSUME Application \/ Tick \/ UNCHANGED vars PROVE Goal
  <2>1. worker' = worker /\ taken' = taken
    BY <1>8 DEF Application, Publish, CreateEndpoint, SetEndpointStatus, Replay, Tick, vars
  <2> QED BY <1>1, <2>1
<1> HIDE DEF Goal
<1>9. Goal
  BY <1>3, <1>4, <1>5, <1>6, <1>7, <1>8 DEF Next, Take, Attempt
<1> QED BY <1>9 DEF Goal

\* Workers keep knowing the attempt they hold.
LEMMA WorkersFitStep == ASSUME SafeInv, [Next]_vars PROVE WorkersFit'
<1> SUFFICES ASSUME NEW w \in Workers, Busy(w)'
             PROVE  /\ row'[worker'[w].job].status # "absent"
                    /\ row'[worker'[w].job].claim = w
                         => row'[worker'[w].job].attempts = worker'[w].attempt
                    /\ worker'[w].pc = "posted_ok" => worker'[w].job \in taken'
  BY DEF WorkersFit, HoldsClaim
<1> DEFINE d == worker'[w].job
<1>0. d \in Deliveries /\ w # None
  BY TypeStep, LimitAssumption DEF SafeInv, TypeInv, JobsNamed
<1>1. CASE Takes(w)
  BY <1>1 DEF Takes, Becomes
<1>2. CASE GoesOn(w)
  <2>1. /\ Busy(w) /\ worker[w].job = d /\ worker'[w].attempt = worker[w].attempt
        /\ row[d].status # "absent" /\ (row[d].claim = w => row[d].attempts = worker[w].attempt)
        /\ worker[w].pc = "posted_ok" => d \in taken
    BY <1>2 DEF GoesOn, SafeInv, WorkersFit, HoldsClaim
  <2>2. row'[d].status # "absent"
    BY <1>0, <2>1, AnnouncedStep
  <2>3. worker'[w].pc = "posted_ok" => d \in taken'
    BY <2>1, WorkerSteps DEF SafeInv
  <2>4. row'[d].claim = w => row'[d].attempts = worker'[w].attempt
    <3>1. SUFFICES ASSUME row'[d].claim = w PROVE row'[d].attempts = worker'[w].attempt
      OBVIOUS
    <3>2. RowStep(d)
      BY <1>0, StepRows DEF SafeInv
    <3>3. CASE Keeps(d)
      BY <2>1, <3>1, <3>3 DEF Keeps, Becomes
    <3>4. CASE Starts(d)
      BY <2>1, <3>1, <3>4 DEF Starts, Becomes
    <3>5. CASE Appears(d) \/ Restarts(d) \/ Expires(d) \/ Settles(d)
      BY <1>0, <3>1, <3>5
         DEF Appears, Restarts, Expires, Settles, Returns, Finishes, Fails, Becomes
    <3> QED BY <3>2, <3>3, <3>4, <3>5 DEF RowStep
  <2> QED BY <2>2, <2>3, <2>4
<1> QED BY <1>1, <1>2, WorkerSteps DEF SafeInv

\* The inductive invariant holds.
THEOREM SafeInvAlways == Spec => []SafeInv
<1>1. Init => SafeInv
  <2> SUFFICES ASSUME Init PROVE SafeInv
    OBVIOUS
  <2>1. TypeInv
    BY DEF Init, TypeInv, TypeOK, JobsNamed, Busy, NoRow, IdleWorker, Row, Statuses, Waiting
  <2>2. RowsFit /\ Announced /\ WorkersFit
    BY LimitAssumption
       DEF Init, RowsFit, RowFits, WorkersFit, Announced, Busy, NoRow, IdleWorker, Waiting
  <2> QED BY <2>1, <2>2 DEF SafeInv
<1>2. SafeInv /\ [Next]_vars => SafeInv'
  BY TypeStep, RowsFitStep, WorkersFitStep, AnnouncedStep DEF SafeInv
<1> QED BY <1>1, <1>2, PTL DEF Spec

\* No delivery is stranded: one that waits has an attempt left, one in process
\* has a claim, and only the last attempt kills it.
THEOREM NoneStranded == Spec => []NothingStranded
<1>1. SafeInv => NothingStranded
  BY DEF SafeInv, RowsFit, RowFits, NothingStranded
<1> QED BY <1>1, SafeInvAlways, PTL

\* A worker at its attempt loses its claim only by letting it go stale.
THEOREM ClaimsHold == Spec => ClaimLostOnlyWhenStale
<1>1. ASSUME SafeInv, [Next]_vars, NEW w \in Workers, NEW d \in Deliveries,
             row[d].claim = w, row'[d].claim # w, worker[w].job = d, worker'[w].job = d
      PROVE  row[d].age > Stale
  <2>1. row[d].status = "processing"
    BY <1>1, LimitAssumption DEF SafeInv, RowsFit, RowFits
  <2>2. Busy(w)'
    <3>1. TypeInv'
      BY <1>1, TypeStep DEF SafeInv
    <3> QED BY <1>1, <3>1, LimitAssumption DEF TypeInv, JobsNamed
  <2>3. ~Settles(d)
    BY <1>1, <2>2 DEF Settles, Returns, Finishes, Fails, Holder
  <2>4. RowStep(d)
    BY <1>1, StepRows DEF SafeInv
  <2>5. CASE Keeps(d)
    BY <1>1, <2>5 DEF Keeps, Becomes
  <2>6. CASE Appears(d)
    BY <1>1, <2>1, <2>6 DEF Appears, SafeInv, Announced
  <2>7. CASE Restarts(d) \/ Starts(d)
    BY <2>1, <2>7 DEF Restarts, Starts, Waiting
  <2>8. CASE Expires(d)
    BY <2>8 DEF Expires
  <2> QED BY <2>3, <2>4, <2>5, <2>6, <2>7, <2>8 DEF RowStep
<1>2. SafeInv /\ [Next]_vars =>
        [\A w \in Workers, d \in Deliveries :
            /\ row[d].claim = w /\ row'[d].claim # w
            /\ worker[w].job = d /\ worker'[w].job = d
            => row[d].age > Stale]_vars
  BY <1>1
<1> QED BY <1>2, SafeInvAlways, PTL DEF Spec, ClaimLostOnlyWhenStale

-----------------------------------------------------------------------------
(* The budget of posts.                                                    *)

Unsent(d) == {w \in Workers : worker[w].pc = "resolving" /\ worker[w].job = d}
Spent(d)  == row[d].attempts + MaxAttempts * replays[d]

\* Every post, and every claim that may still become one, spent an attempt
\* that was not given back.
BudgetInv == \A d \in Deliveries : posts[d] + Cardinality(Unsent(d)) <= Spent(d)

\* The workers holding an unsent claim of a delivery can be counted.
LEMMA UnsentFinite ==
    ASSUME NEW d \in Deliveries
    PROVE  IsFiniteSet(Unsent(d)) /\ Cardinality(Unsent(d)) \in Nat
BY LimitAssumption, FS_Subset, FS_CardinalityType DEF Unsent

\* Attempts and replays are numbers, before and after a step.
LEMMA SpentNat ==
    ASSUME TypeInv, [Next]_vars, NEW d \in Deliveries
    PROVE  /\ row[d].attempts \in Nat /\ replays[d] \in Nat /\ posts[d] \in Nat /\ Spent(d) \in Nat
           /\ row'[d].attempts \in Nat /\ replays'[d] \in Nat /\ Spent(d)' \in Nat
<1>1. TypeInv'
  BY TypeStep
<1>2. /\ row[d].attempts \in Nat /\ replays[d] \in Nat /\ posts[d] \in Nat
      /\ row'[d].attempts \in Nat /\ replays'[d] \in Nat
  BY <1>1 DEF TypeInv, TypeOK, Row
<1>3. MaxAttempts * replays[d] \in Nat /\ MaxAttempts * replays'[d] \in Nat
  BY <1>2, LimitAssumption
<1> QED BY <1>2, <1>3 DEF Spent

\* Replays only grow, by one for each time the delivery restarts.
LEMMA ReplaysGrow ==
    ASSUME TypeInv, [Next]_vars, NEW d \in Deliveries
    PROVE  replays'[d] = replays[d] \/ (replays'[d] = replays[d] + 1 /\ Restarts(d))
<1>1. ASSUME NEW q \in Deliveries, Replay(q)
      PROVE  replays'[d] = replays[d] \/ (replays'[d] = replays[d] + 1 /\ Restarts(d))
  <2>1. CASE q = d
    <3>1. /\ row'[d] = [NoRow EXCEPT !.status = "pending"]
          /\ row[d].status \in {"failed", "dead_letter"} /\ replays'[d] = replays[d] + 1
      BY <1>1, <2>1 DEF Replay, TypeInv, TypeOK
    <3> QED BY <3>1, PendingFields DEF Restarts, Becomes
  <2>2. CASE q # d
    BY <1>1, <2>2 DEF Replay, TypeInv, TypeOK
  <2> QED BY <2>1, <2>2
<1>2. (\E q \in Deliveries : Replay(q)) \/ replays' = replays
  BY DEF Next, Application, Take, Attempt, Publish, CreateEndpoint, SetEndpointStatus,
         StartBatch, Claim, Skip, Release, Post, Succeed, Fail, Crash, Tick, vars
<1> QED BY <1>1, <1>2

\* Only a returned attempt makes a delivery's account smaller.
LEMMA SpentGrows ==
    ASSUME SafeInv, [Next]_vars, NEW d \in Deliveries, \A w \in Workers : ~Returns(d, w)
    PROVE  Spent(d)' >= Spent(d)
<1> USE LimitAssumption
<1>1. /\ row[d].attempts \in Nat /\ replays[d] \in Nat
      /\ row'[d].attempts \in Nat /\ replays'[d] \in Nat
  BY SpentNat DEF SafeInv
<1>2. CASE Restarts(d) /\ replays'[d] = replays[d] + 1
  <2>1. row[d].attempts <= MaxAttempts
    BY DEF SafeInv, RowsFit, RowFits
  <2>2. MaxAttempts * (replays[d] + 1) = MaxAttempts * replays[d] + MaxAttempts
    BY <1>1
  <2>3. MaxAttempts * replays[d] \in Nat
    BY <1>1
  <2> DEFINE earlier == MaxAttempts * replays[d]
  <2>4. Spent(d)' = row'[d].attempts + (earlier + MaxAttempts)
    BY <1>2, <2>2 DEF Spent
  <2>5. Spent(d) = row[d].attempts + earlier /\ earlier \in Nat
    BY <2>3 DEF Spent
  <2> HIDE DEF earlier
  <2> QED BY <1>1, <2>1, <2>4, <2>5
<1>3. CASE replays'[d] = replays[d]
  <2>1. row'[d].attempts >= row[d].attempts
    <3>1. RowStep(d)
      BY StepRows DEF SafeInv
    <3>2. CASE Keeps(d)
      BY <1>1, <3>2 DEF Keeps, Becomes
    <3>3. CASE Appears(d)
      <4>1. row[d].status = "absent"
        BY <3>3 DEF Appears, SafeInv, Announced
      <4> QED BY <1>1, <4>1 DEF SafeInv, RowsFit, RowFits
    <3>4. CASE Expires(d)
      BY <1>1, <3>4 DEF Expires, Becomes
    <3>5. CASE Starts(d)
      BY <1>1, <3>5 DEF Starts, Becomes
    <3>6. CASE Settles(d)
      BY <1>1, <3>6 DEF Settles, Finishes, Fails, Becomes
    <3>7. CASE Restarts(d)
      BY <1>1, <1>3, <3>7 DEF Restarts
    <3> QED BY <3>1, <3>2, <3>3, <3>4, <3>5, <3>6, <3>7 DEF RowStep
  <2> DEFINE earlier == MaxAttempts * replays[d]
  <2>2. earlier \in Nat /\ Spent(d) = row[d].attempts + earlier
    BY <1>1 DEF Spent
  <2>3. Spent(d)' = row'[d].attempts + earlier
    BY <1>3 DEF Spent
  <2> HIDE DEF earlier
  <2> QED BY <1>1, <2>1, <2>2, <2>3
<1> QED BY <1>2, <1>3, ReplaysGrow DEF SafeInv

\* A step that posts nothing, gives nothing back and adds no unsent claim stays
\* within the budget.
LEMMA BudgetKept ==
    ASSUME SafeInv, BudgetInv, [Next]_vars, NEW d \in Deliveries, posts'[d] = posts[d],
           Unsent(d)' \subseteq Unsent(d), Spent(d)' >= Spent(d)
    PROVE  posts'[d] + Cardinality(Unsent(d)') <= Spent(d)'
<1>1. Cardinality(Unsent(d)') \in Nat /\ Cardinality(Unsent(d)') <= Cardinality(Unsent(d))
  BY UnsentFinite, FS_Subset, FS_CardinalityType
<1>2. /\ posts[d] \in Nat /\ Spent(d) \in Nat /\ Spent(d)' \in Nat
      /\ posts[d] + Cardinality(Unsent(d)) <= Spent(d)
  BY SpentNat DEF SafeInv, BudgetInv
<1> HIDE DEF Spent
<1> QED BY <1>1, <1>2, UnsentFinite

\* A claim spends an attempt for the post it may send, and a release gives it
\* back only with the claim.
LEMMA BudgetStep == ASSUME SafeInv, BudgetInv, [Next]_vars PROVE BudgetInv'
<1> SUFFICES ASSUME NEW d \in Deliveries
             PROVE  posts'[d] + Cardinality(Unsent(d)') <= Spent(d)'
  BY DEF BudgetInv
<1> DEFINE Goal == posts'[d] + Cardinality(Unsent(d)') <= Spent(d)'
<1>0. /\ worker \in [Workers -> [pc : {"idle", "batch", "resolving", "posted", "posted_ok"},
                                 todo : SUBSET Deliveries, job : Deliveries \cup {None},
                                 attempt : Nat]]
      /\ row \in [Deliveries -> Row] /\ posts \in [Deliveries -> Nat]
      /\ row[d].attempts \in Nat /\ row'[d].attempts \in Nat
      /\ replays[d] \in Nat /\ posts[d] \in Nat
      /\ posts[d] + Cardinality(Unsent(d)) <= Spent(d)
      /\ MaxAttempts * replays[d] \in Nat
  BY SpentNat, LimitAssumption DEF SafeInv, BudgetInv, TypeInv, TypeOK
<1>1. ASSUME posts' = posts, Unsent(d)' \subseteq Unsent(d), \A w \in Workers : ~Returns(d, w)
      PROVE  Goal
  BY <1>1, SpentGrows, BudgetKept
<1>2. ASSUME NEW w \in Workers, NEW todo, Proceed(w, todo)
      PROVE  Unsent(d)' = Unsent(d) \ {w}
  <2>1. \A v \in Workers : v # w => worker'[v] = worker[v]
    BY <1>0, <1>2 DEF Proceed, IdleWorker
  <2>2. worker'[w].pc \in {"idle", "batch"}
    BY <1>0, <1>2 DEF Proceed, IdleWorker
  <2> QED BY <2>1, <2>2 DEF Unsent
<1>3. ASSUME NEW w \in Workers, Release(w) PROVE Goal
  <2>1. Unsent(d)' = Unsent(d) \ {w} /\ posts' = posts /\ replays' = replays
    BY <1>2, <1>3 DEF Release
  <2>2. CASE worker[w].job = d /\ HoldsClaim(w) /\ row[d].status = "processing"
    <3>1. w \in Unsent(d)
      BY <1>3, <2>2 DEF Release, Unsent
    <3>2. Cardinality(Unsent(d)') = Cardinality(Unsent(d)) - 1
      BY <2>1, <3>1, UnsentFinite, FS_RemoveElement
    <3>3. row'[d] = Released(row[d])
      BY <1>0, <1>3, <2>2 DEF Release
    <3>4. row'[d].attempts >= row[d].attempts - 1
      BY <1>0, <3>3, ReleasedFields
    <3>5. Spent(d)' = row'[d].attempts + MaxAttempts * replays[d]
      BY <2>1 DEF Spent
    <3> DEFINE earlier == MaxAttempts * replays[d]
    <3>6. Spent(d) = row[d].attempts + earlier /\ Spent(d)' = row'[d].attempts + earlier
          /\ earlier \in Nat
      BY <1>0, <3>5 DEF Spent
    <3> HIDE DEF earlier
    <3> QED BY <1>0, <2>1, <3>2, <3>4, <3>6, UnsentFinite
  <2>3. CASE ~(worker[w].job = d /\ HoldsClaim(w) /\ row[d].status = "processing")
    <3>1. row'[d] = row[d]
      BY <1>0, <1>3, <2>3 DEF Release
    <3>2. Spent(d)' = Spent(d)
      BY <2>1, <3>1 DEF Spent
    <3>3. Spent(d) \in Nat
      BY SpentNat DEF SafeInv
    <3> QED BY <2>1, <3>2, <3>3, BudgetKept
  <2> QED BY <2>2, <2>3
<1>4. ASSUME NEW w \in Workers, NEW q \in Deliveries, Claim(w, q) PROVE Goal
  <2>1. /\ \A v \in Workers : v # w => worker'[v] = worker[v]
        /\ worker'[w].pc = "resolving" /\ worker'[w].job = q /\ worker[w].pc = "batch"
        /\ posts' = posts /\ replays' = replays
    BY <1>0, <1>4 DEF Claim
  <2>2. CASE q = d
    <3>1. Unsent(d)' = Unsent(d) \cup {w} /\ w \notin Unsent(d)
      BY <2>1, <2>2 DEF Unsent
    <3>2. Cardinality(Unsent(d)') = Cardinality(Unsent(d)) + 1
      BY <3>1, UnsentFinite, FS_AddElement
    <3>3. row'[d].attempts = row[d].attempts + 1
      BY <1>0, <1>4, <2>2 DEF Claim, Row
    <3> DEFINE earlier == MaxAttempts * replays[d]
    <3>4. Spent(d) = row[d].attempts + earlier /\ Spent(d)' = row'[d].attempts + earlier
          /\ earlier \in Nat
      BY <1>0, <2>1 DEF Spent
    <3> HIDE DEF earlier
    <3> QED BY <1>0, <2>1, <3>2, <3>3, <3>4, UnsentFinite
  <2>3. CASE q # d
    <3>1. Unsent(d)' \subseteq Unsent(d)
      BY <2>1, <2>3 DEF Unsent
    <3>2. row'[d] = row[d]
      BY <1>0, <1>4, <2>3 DEF Claim
    <3>3. Spent(d)' = Spent(d) /\ Spent(d) \in Nat
      BY <2>1, <3>2, SpentNat DEF Spent, SafeInv
    <3> QED BY <2>1, <3>1, <3>3, BudgetKept
  <2> QED BY <2>2, <2>3
<1>5. ASSUME NEW w \in Workers, NEW ok \in BOOLEAN, Post(w, ok) PROVE Goal
  <2>1. /\ \A v \in Workers : v # w => worker'[v] = worker[v]
        /\ worker'[w].pc \in {"posted", "posted_ok"} /\ worker[w].pc = "resolving"
        /\ posts' = [posts EXCEPT ![worker[w].job] = @ + 1]
        /\ row' = row /\ replays' = replays
    BY <1>0, <1>5 DEF Post
  <2>2. Unsent(d)' = Unsent(d) \ {w}
    BY <2>1 DEF Unsent
  <2>3. Spent(d)' = Spent(d) /\ Spent(d) \in Nat
    BY <2>1, SpentNat DEF Spent, SafeInv
  <2>4. CASE worker[w].job = d
    <3>1. w \in Unsent(d) /\ posts'[d] = posts[d] + 1
      BY <1>0, <2>1, <2>4 DEF Unsent
    <3>2. Cardinality(Unsent(d)') = Cardinality(Unsent(d)) - 1
      BY <2>2, <3>1, UnsentFinite, FS_RemoveElement
    <3> QED BY <1>0, <2>3, <3>1, <3>2, UnsentFinite
  <2>5. CASE worker[w].job # d
    <3>1. posts'[d] = posts[d]
      BY <1>0, <2>1, <2>5
    <3> QED BY <2>2, <2>3, <3>1, BudgetKept
  <2> QED BY <2>4, <2>5
<1>6. ASSUME NEW w \in Workers, Succeed(w) \/ Fail(w) PROVE Goal
  <2>1. Unsent(d)' \subseteq Unsent(d) /\ posts' = posts /\ replays' = replays
    BY <1>2, <1>6 DEF Succeed, Fail
  <2>2. row'[d].attempts = row[d].attempts
    <3>1. CASE row'[d] = row[d]
      BY <3>1
    <3>2. CASE Succeed(w) /\ row'[d] = Unclaimed(row[d], "succeeded")
      BY <1>0, <3>2, UnclaimedFields
    <3> DEFINE s == IF worker[w].attempt >= MaxAttempts THEN "dead_letter" ELSE "failed"
               n == RetryDelay(worker[w].attempt)
    <3>3. CASE row'[d] = [Unclaimed(row[d], s) EXCEPT !.wait = n]
      <4> HIDE DEF s, n
      <4> QED BY <1>0, <3>3, WaitFields
    <3>4. \/ row' = row
          \/ \E q \in Deliveries :
                \/ Succeed(w) /\ row' = [row EXCEPT ![q] = Unclaimed(@, "succeeded")]
                \/ row' = [row EXCEPT ![q] = [Unclaimed(@, s) EXCEPT !.wait = n]]
      BY <1>6 DEF Succeed, Fail, SafeInv, TypeInv, JobsNamed, Busy
    <3> QED BY <1>0, <3>1, <3>2, <3>3, <3>4
  <2>3. Spent(d)' = Spent(d) /\ Spent(d) \in Nat
    BY <2>1, <2>2, SpentNat DEF Spent, SafeInv
  <2> QED BY <2>1, <2>3, BudgetKept
<1>7. ASSUME posts' = posts, Unsent(d)' \subseteq Unsent(d), Spent(d)' >= Spent(d) PROVE Goal
  BY <1>7, BudgetKept
<1>8. ASSUME NEW w \in Workers, (\E q \in Deliveries : Skip(w, q)) \/ Crash(w) PROVE Goal
  <2>1. posts' = posts /\ row' = row /\ replays' = replays
    BY <1>8 DEF Skip, Crash
  <2>2. Unsent(d)' \subseteq Unsent(d)
    <3>1. CASE \E q \in Deliveries : Skip(w, q)
      BY <1>2, <3>1 DEF Skip
    <3>2. CASE Crash(w)
      BY <1>0, <3>2 DEF Crash, IdleWorker, Unsent
    <3> QED BY <1>8, <3>1, <3>2
  <2>3. Spent(d)' = Spent(d) /\ Spent(d) \in Nat
    BY <2>1, SpentNat DEF Spent, SafeInv
  <2> QED BY <2>1, <2>2, <2>3, <1>7
<1>9. ASSUME Application \/ Tick \/ UNCHANGED vars \/ \E w \in Workers : StartBatch(w)
      PROVE  Goal
  <2>1. posts' = posts
    BY <1>9 DEF Application, Publish, CreateEndpoint, SetEndpointStatus, Replay, Tick,
                StartBatch, vars
  <2>2. Unsent(d)' \subseteq Unsent(d) /\ \A w \in Workers : ~Returns(d, w)
    <3>1. CASE \E w \in Workers : StartBatch(w)
      <4>1. PICK w \in Workers : StartBatch(w)
        BY <3>1
      <4>2. Unsent(d)' = Unsent(d) \ {w}
        BY <1>2, <4>1 DEF StartBatch, Proceed
      <4>3. ~Busy(w) /\ \A v \in Workers : v # w => worker'[v] = worker[v]
        BY <1>0, <4>1 DEF StartBatch, Busy
      <4>4. \A v \in Workers : ~Returns(d, v)
        BY <4>3 DEF Returns, Holder, Busy
      <4> QED BY <4>2, <4>4
    <3>2. CASE worker' = worker
      BY <3>2 DEF Unsent, Returns, Holder, Busy
    <3> QED
      BY <1>9, <3>1, <3>2
         DEF Application, Publish, CreateEndpoint, SetEndpointStatus, Replay, Tick, vars
  <2> QED BY <1>1, <2>1, <2>2
<1> HIDE DEF Goal
<1>10. Goal
  BY <1>3, <1>4, <1>5, <1>6, <1>8, <1>9 DEF Next, Take, Attempt
<1> QED BY <1>10 DEF Goal

\* A delivery is posted at most MaxAttempts times, and as often again for each
\* replay, although a release gives its attempt back and workers stall.
THEOREM PostsBounded == Spec => []PostBudget
<1>1. Init => BudgetInv
  <2> SUFFICES ASSUME Init, NEW d \in Deliveries
               PROVE  posts[d] + Cardinality(Unsent(d)) <= Spent(d)
    BY DEF BudgetInv
  <2>1. Unsent(d) = {}
    BY DEF Init, IdleWorker, Unsent
  <2>2. posts[d] = 0 /\ Spent(d) = 0
    BY LimitAssumption DEF Init, NoRow, Spent
  <2> QED BY <2>1, <2>2, FS_EmptySet
<1>2. SafeInv /\ SafeInv' /\ BudgetInv /\ [Next]_vars => BudgetInv'
  BY BudgetStep
<1>3. SafeInv /\ BudgetInv => PostBudget
  <2> SUFFICES ASSUME SafeInv, BudgetInv, NEW d \in Deliveries
               PROVE  posts[d] <= MaxAttempts * (1 + replays[d])
    BY DEF PostBudget
  <2>1. /\ row[d].attempts \in Nat /\ replays[d] \in Nat /\ posts[d] \in Nat
        /\ row[d].attempts <= MaxAttempts
    BY DEF SafeInv, TypeInv, TypeOK, Row, RowsFit, RowFits
  <2> DEFINE earlier == MaxAttempts * replays[d]
  <2>2. earlier \in Nat /\ MaxAttempts * (1 + replays[d]) = MaxAttempts + earlier
        /\ MaxAttempts \in Nat
    BY <2>1, LimitAssumption
  <2>3. posts[d] + Cardinality(Unsent(d)) <= row[d].attempts + earlier
    BY DEF BudgetInv, Spent
  <2> HIDE DEF earlier
  <2>4. posts[d] <= MaxAttempts + earlier
    BY <2>1, <2>2, <2>3, UnsentFinite
  <2> QED BY <2>2, <2>4
<1> QED BY <1>1, <1>2, <1>3, SafeInvAlways, PTL DEF Spec

-----------------------------------------------------------------------------
(* The worker and its outbox implement the contract.                       *)

\* Each way a row changes is a step of the contract for that delivery.
LEMMA ContractRowStep ==
    ASSUME SafeInv, [Next]_vars, NEW d \in Deliveries
    PROVE  LET old == PhaseOf(row[d])
               new == PhaseOf(row'[d])
           IN  \/ new = old
               \/ d[1] \notin published /\ d[1] \in published' /\ old = "none" /\ new = "due"
               \/ old = "due" /\ new = "done" /\ d \in taken
               \/ old = "due" /\ new = "dead"
               \/ old \in {"due", "dead"} /\ new = "due" /\ replays'[d] # replays[d]
<1>1. RowStep(d) /\ RowFits(row[d]) /\ \A w \in Workers : w # None
  BY StepRows, LimitAssumption DEF SafeInv, RowsFit
<1>2. CASE Keeps(d)
  BY <1>2 DEF Keeps, Becomes, PhaseOf
<1>3. CASE Appears(d)
  BY <1>3 DEF Appears, Becomes, PhaseOf, SafeInv, Announced
<1>4. CASE Restarts(d)
  <2>1. replays'[d] # replays[d]
    BY <1>4 DEF Restarts, SafeInv, TypeInv, TypeOK
  <2> QED BY <1>4, <2>1 DEF Restarts, Becomes, PhaseOf
<1>5. CASE Expires(d)
  BY <1>5 DEF Expires, Becomes, PhaseOf
<1>6. CASE Starts(d)
  BY <1>6 DEF Starts, Becomes, PhaseOf, Waiting
<1>7. ASSUME NEW w \in Workers, Holder(w, d)
      PROVE  PhaseOf(row[d]) = "due" /\ (worker[w].pc = "posted_ok" => d \in taken)
  BY <1>1, <1>7 DEF Holder, RowFits, PhaseOf, SafeInv, WorkersFit
<1>8. CASE Settles(d)
  <2>1. PICK w \in Workers : Returns(d, w) \/ Finishes(d, w) \/ Fails(d, w)
    BY <1>8 DEF Settles
  <2>2. Holder(w, d)
    BY <2>1 DEF Returns, Finishes, Fails
  <2> QED BY <1>7, <2>1, <2>2 DEF Returns, Finishes, Fails, Becomes, PhaseOf
<1> QED BY <1>1, <1>2, <1>3, <1>4, <1>5, <1>6, <1>8 DEF RowStep

\* The receiver takes only deliveries that exist.
LEMMA TakenStep ==
    ASSUME SafeInv, [Next]_vars, NEW d \in taken' \ taken
    PROVE  d \in Deliveries /\ row[d].status # "absent"
<1>1. PICK w \in Workers, ok \in BOOLEAN : Post(w, ok)
  BY DEF Next, Application, Take, Attempt, Publish, CreateEndpoint, SetEndpointStatus, Replay,
         StartBatch, Claim, Skip, Release, Succeed, Fail, Crash, Tick, vars
<1>2. d = worker[w].job /\ Busy(w)
  BY <1>1 DEF Post, Busy
<1> QED BY <1>2 DEF SafeInv, TypeInv, JobsNamed, WorkersFit

\* The detailed specification implements the contract.
THEOREM Refinement == Spec => ImplementsContract
<1>1. Init => Contract!Init
  BY DEF Init, NoRow, PhaseOf, Contract!Init, Contract!Deliveries, Deliveries
<1>2. SafeInv /\ [Next]_vars => [Contract!Next]_(Contract!contractVars)
  <2> SUFFICES ASSUME SafeInv, [Next]_vars PROVE Contract!Next
    OBVIOUS
  <2>1. published \subseteq published' /\ taken \subseteq taken'
    <3>1. CASE Workers = {}
      BY <3>1 DEF Next, Application, Publish, CreateEndpoint, SetEndpointStatus, Replay, Tick, vars
    <3>2. CASE Workers # {}
      BY <3>2, AnnouncedStep, WorkerSteps DEF SafeInv
    <3> QED BY <3>1, <3>2
  <2>2. \A d \in taken' \ taken : PhaseOf(row[d]) # "none" /\ d \in Deliveries
    BY TakenStep DEF PhaseOf
  <2> QED
    BY <2>1, <2>2, ContractRowStep
       DEF Contract!Next, Contract!Same, Contract!Announce, Contract!Finish, Contract!GiveUp,
           Contract!AskAgain, Contract!Deliveries, Deliveries
<1> QED BY <1>1, <1>2, SafeInvAlways, PTL DEF Spec, ImplementsContract, Contract!Spec

-----------------------------------------------------------------------------
(* Renewal reminders.                                                      *)

\* A cycle between a claim and the outcome it records.
CycleBusy(w) == cycle[w].pc \in {"claimed", "sending"}

\* What is true of every reminder row: the attempts stay within the limit,
\* and a retry is only planned where one is left.
ReminderFits(r) ==
    /\ r \in Reminder
    /\ r.attempts <= MaxDeliveryAttempts
    /\ r.status \in {"absent", "pending"} => r.attempts = 0
    /\ r.retry => r.status = "failed" /\ r.attempts < MaxDeliveryAttempts
    /\ ~r.retry => r.wait = 0

-----------------------------------------------------------------------------
(* The operators on rows keep them fit.                                    *)

\* Scheduling does.
LEMMA SchedulingFits ==
    ASSUME NEW n \in Notices, NEW found, NEW mailable, ReminderFits(reminder[n])
    PROVE  ReminderFits(AfterScheduling(n, found, mailable))
BY ReminderLimits DEF AfterScheduling, Scheduled, NoReminder, ReminderFits, Reminder

\* Giving up does.
LEMMA ExhaustedFits == ASSUME NEW r, ReminderFits(r) PROVE ReminderFits(Exhausted(r))
BY ReminderLimits DEF Exhausted, ReminderFits, Reminder

\* A claim gives a row.
LEMMA ClaimedType == ASSUME NEW r \in Reminder PROVE Claimed(r) \in Reminder
<1> DEFINE next == r.attempts + 1
           after(n) == [r EXCEPT !.status = "processing", !.attempts = n,
                                 !.retry = FALSE, !.age = 0, !.wait = 0]
<1>1. ASSUME NEW n \in Nat PROVE after(n) \in Reminder
  BY <1>1 DEF Reminder
<1>2. next \in Nat
  BY DEF Reminder
<1> HIDE DEF next
<1>3. after(next) \in Reminder
  BY <1>1, <1>2
<1> QED BY <1>3 DEF next, Claimed

\* A claim does, although it does not look at the attempts of a failed row.
LEMMA ClaimedFits ==
    ASSUME NEW r, ReminderFits(r), ReminderClaimable(r) PROVE ReminderFits(Claimed(r))
<1>1. r \in Reminder /\ r.attempts \in Nat /\ MaxDeliveryAttempts \in Nat \ {0}
  BY ReminderLimits DEF ReminderFits, Reminder
<1>2. r.attempts < MaxDeliveryAttempts
  <2>1. CASE r.status = "pending"
    BY <1>1, <2>1 DEF ReminderFits
  <2>2. CASE r.status = "failed" /\ r.retry /\ r.wait = 0
    BY <2>2 DEF ReminderFits
  <2>3. CASE ClaimStale(r) /\ r.attempts < MaxDeliveryAttempts
    BY <2>3
  <2> QED BY <2>1, <2>2, <2>3 DEF ReminderClaimable
<1>3. Claimed(r) \in Reminder
  BY <1>1, ClaimedType
<1>4. /\ Claimed(r).attempts = r.attempts + 1 /\ Claimed(r).status = "processing"
      /\ ~Claimed(r).retry /\ Claimed(r).wait = 0
  BY <1>1 DEF Claimed, Reminder
<1>5. r.attempts + 1 <= MaxDeliveryAttempts
  BY <1>1, <1>2
<1> QED BY <1>3, <1>4, <1>5 DEF ReminderFits

\* An acceptance does.
LEMMA SentFits ==
    ASSUME NEW r, ReminderFits(r), r.status = "processing" PROVE ReminderFits(Sent(r))
BY ReminderLimits DEF Sent, ReminderFits, Reminder

\* A failure of the attempt the row is at does.
LEMMA FailedFits ==
    ASSUME NEW r, ReminderFits(r), NEW transient \in BOOLEAN, r.status = "processing"
    PROVE  ReminderFits(Failed(r, r.attempts, transient))
<1> DEFINE again == transient /\ r.attempts < MaxDeliveryAttempts /\ r.attempts \in DOMAIN Backoff
           wait  == IF again THEN Backoff[r.attempts] ELSE 0
<1>1. again \in BOOLEAN /\ (again => r.attempts < MaxDeliveryAttempts) /\ (~again => wait = 0)
  OBVIOUS
<1>2. wait \in Nat
  <2>1. CASE again
    BY <2>1, ReminderLimits DEF ReminderFits, Reminder
  <2>2. CASE ~again
    BY <2>2
  <2> QED BY <2>1, <2>2
<1>3. Failed(r, r.attempts, transient)
        = [r EXCEPT !.status = "failed", !.retry = again, !.wait = wait]
  BY DEF Failed
<1> HIDE DEF again, wait
<1> QED BY <1>1, <1>2, <1>3, ReminderLimits DEF ReminderFits, Reminder

Aged(r, wait, age) == [r EXCEPT !.wait = wait, !.age = age]

\* Time does.
LEMMA AgedFits ==
    ASSUME NEW r, ReminderFits(r), NEW wait \in Nat, NEW age \in Nat, r.wait = 0 => wait = 0
    PROVE  ReminderFits(Aged(r, wait, age))
BY ReminderLimits DEF Aged, ReminderFits, Reminder

-----------------------------------------------------------------------------
(* How a step may change a reminder, and a cycle.                          *)

ReminderAges(n) ==
    \E wait, age \in Nat :
        /\ reminder[n].wait = 0 => wait = 0
        /\ ~(reminder[n].status = "processing" \/ reminder[n].retry) => age = reminder[n].age
        /\ reminder'[n] = Aged(reminder[n], wait, age)
ReminderScans(n) ==
    \E found, mailable : reminder'[n] = Exhausted(AfterScheduling(n, found, mailable))
ReminderStarts(n) == ReminderClaimable(reminder[n]) /\ reminder'[n] = Claimed(reminder[n])
ReminderEnds(n) ==
    /\ reminder[n].status = "processing"
    /\ \/ reminder'[n] = Sent(reminder[n])
       \/ \E transient \in BOOLEAN :
             reminder'[n] = Failed(reminder[n], reminder[n].attempts, transient)

ReminderStep(n) ==
    \/ reminder'[n] = reminder[n] \/ ReminderAges(n) \/ ReminderScans(n)
    \/ ReminderStarts(n) \/ ReminderEnds(n)

\* A cycle becomes busy only by a claim; otherwise it keeps its job and
\* attempt or drops them.
CycleGoesOn(w) ==
    CycleBusy(w)' => /\ CycleBusy(w) /\ cycle'[w].job = cycle[w].job
                     /\ cycle'[w].attempt = cycle[w].attempt
CycleTakes(w) == \E n \in Notices :
    /\ ReminderClaimable(reminder[n]) /\ reminder'[n] = Claimed(reminder[n])
    /\ cycle'[w].pc = "claimed" /\ cycle'[w].job = n
    /\ cycle'[w].attempt = reminder[n].attempts + 1
    /\ \A v \in Cycles \ {w} : cycle'[v] = cycle[v]

Workplaces == [pc : {"idle", "batch", "claimed", "sending"},
               todo : SUBSET Notices, job : Notices \cup {NoNotice}, attempt : Nat]

RemindersNamed == \A w \in Cycles : IF CycleBusy(w) THEN cycle[w].job \in Notices
                                                    ELSE cycle[w].job = NoNotice

CyclesFit == /\ cycle \in [Cycles -> Workplaces]
             /\ mails \in [Notices -> Nat]
             /\ reminder \in [Notices -> Reminder] /\ \A n \in Notices : ReminderFits(reminder[n])
             /\ RemindersNamed

\* Going on with the batch, or leaving, ends the work on a reminder.
LEMMA CycleRests ==
    ASSUME CyclesFit, NEW w \in Cycles, NEW todo \in SUBSET Notices,
           ProceedWith(w, todo) \/ Leave(w)
    PROVE  /\ cycle' \in [Cycles -> Workplaces] /\ RemindersNamed'
           /\ ~CycleBusy(w)' /\ \A v \in Cycles \ {w} : cycle'[v] = cycle[v]
<1>1. PICK rest \in Workplaces :
         /\ rest.pc \in {"idle", "batch"} /\ rest.job = NoNotice
         /\ cycle' = [cycle EXCEPT ![w] = rest]
  <2>1. IdleCycle \in Workplaces /\ IdleCycle.pc = "idle" /\ IdleCycle.job = NoNotice
    BY DEF IdleCycle, Workplaces
  <2> DEFINE next == [IdleCycle EXCEPT !.pc = "batch", !.todo = todo]
  <2>2. next \in Workplaces /\ next.pc = "batch" /\ next.job = NoNotice
    BY DEF IdleCycle, Workplaces
  <2>3. cycle' = [cycle EXCEPT ![w] = IdleCycle] \/ cycle' = [cycle EXCEPT ![w] = next]
    BY DEF ProceedWith, Leave
  <2> HIDE DEF next
  <2> QED BY <2>1, <2>2, <2>3
<1>2. cycle' \in [Cycles -> Workplaces] /\ cycle'[w] = rest
      /\ \A v \in Cycles \ {w} : cycle'[v] = cycle[v]
  BY <1>1 DEF CyclesFit
<1> QED BY <1>1, <1>2 DEF CyclesFit, RemindersNamed, CycleBusy

\* Recording an outcome changes the reminder only under its claim, and ends
\* the work on it.
LEMMA RecordSteps ==
    ASSUME CyclesFit, NEW w \in Cycles, CycleBusy(w), NEW outcome, Record(w, outcome)
    PROVE  /\ cycle' \in [Cycles -> Workplaces] /\ RemindersNamed' /\ mails' = mails
           /\ ~CycleBusy(w)' /\ \A v \in Cycles \ {w} : cycle'[v] = cycle[v]
           /\ \/ reminder' = reminder
              \/ HoldsReminder(w) /\ reminder' = [reminder EXCEPT ![cycle[w].job] = outcome]
<1>1. cycle[w].todo \in SUBSET Notices
  BY DEF CyclesFit, Workplaces
<1>2. ProceedWith(w, cycle[w].todo) \/ Leave(w)
  BY DEF Record
<1> QED BY <1>1, <1>2, CycleRests DEF Record

\* Each step is a row step for every reminder, and one in-flight cycle at most
\* changes: it takes a reminder, submits its mail, or rests.
Rests(w)   == ~CycleBusy(w)' /\ \A v \in Cycles \ {w} : cycle'[v] = cycle[v]
Submits(w) == /\ cycle[w].pc = "claimed" /\ cycle'[w].pc = "sending"
              /\ cycle'[w].job = cycle[w].job /\ cycle'[w].attempt = cycle[w].attempt
              /\ \A v \in Cycles \ {w} : cycle'[v] = cycle[v]
              /\ mails' = [mails EXCEPT ![cycle[w].job] = @ + 1]
CycleStep ==
    \/ cycle' = cycle /\ mails' = mails
    \/ \E w \in Cycles : (Rests(w) \/ CycleTakes(w)) /\ mails' = mails
    \/ \E w \in Cycles : Submits(w) /\ reminder' = reminder

IsTable(f) == f = [n \in Notices |-> f[n]]

Shape == /\ cycle' \in [Cycles -> Workplaces] /\ RemindersNamed'
         /\ mails' \in [Notices -> Nat] /\ IsTable(reminder')
         /\ \A n \in Notices : ReminderStep(n)
         /\ CycleStep

\* Every step has that shape.
LEMMA StepShape == ASSUME CyclesFit, [ReminderNext]_reminderVars PROVE Shape
<1> USE DEF CyclesFit, IsTable
<1>1. ASSUME NEW w \in Cycles, NEW found, NEW mailable, StartCycle(w, found, mailable)
      PROVE  Shape
  <2> DEFINE todo == {n \in Notices : Due(Exhausted(AfterScheduling(n, found, mailable)))}
  <2>1. ProceedWith(w, todo) /\ mails' = mails
    BY <1>1 DEF StartCycle
  <2>2. IsTable(reminder') /\ \A n \in Notices : ReminderScans(n)
    BY <1>1 DEF StartCycle, ReminderScans
  <2>3. todo \in SUBSET Notices
    OBVIOUS
  <2> HIDE DEF todo
  <2> QED BY <2>1, <2>2, <2>3, CycleRests DEF Shape, ReminderStep, CycleStep, Rests
<1>2. ASSUME NEW w \in Cycles, NEW n \in Notices, ClaimReminder(w, n) PROVE Shape
  <2>1. reminder[n].attempts + 1 \in Nat /\ cycle[w].todo \ {n} \in SUBSET Notices
    BY DEF Reminder, Workplaces
  <2>2. cycle' \in [Cycles -> Workplaces] /\ RemindersNamed'
    BY <1>2, <2>1 DEF ClaimReminder, Workplaces, RemindersNamed, CycleBusy
  <2>3. CycleTakes(w) /\ mails' = mails
    BY <1>2, <2>1 DEF ClaimReminder, CycleTakes, Workplaces
  <2>4. IsTable(reminder') /\ \A m \in Notices : reminder'[m] = reminder[m] \/ ReminderStarts(m)
    BY <1>2 DEF ClaimReminder, ReminderStarts
  <2> QED BY <2>2, <2>3, <2>4 DEF Shape, ReminderStep, CycleStep
<1>3. ASSUME NEW w \in Cycles, NEW n \in Notices, SkipReminder(w, n) PROVE Shape
  <2>1. cycle[w].todo \ {n} \in SUBSET Notices
    BY DEF Workplaces
  <2>2. ProceedWith(w, cycle[w].todo \ {n}) /\ reminder' = reminder /\ mails' = mails
    BY <1>3 DEF SkipReminder
  <2> QED BY <2>1, <2>2, CycleRests DEF Shape, ReminderStep, CycleStep, Rests
<1>4. ASSUME NEW w \in Cycles, Submit(w) PROVE Shape
  <2>1. cycle[w].job \in Notices /\ cycle[w].pc = "claimed"
    BY <1>4 DEF Submit, RemindersNamed, CycleBusy
  <2>2. cycle' \in [Cycles -> Workplaces] /\ RemindersNamed' /\ mails' \in [Notices -> Nat]
    BY <1>4, <2>1 DEF Submit, Workplaces, RemindersNamed, CycleBusy
  <2>3. Submits(w) /\ reminder' = reminder
    BY <1>4, <2>1 DEF Submit, Submits, Workplaces
  <2> QED BY <2>2, <2>3 DEF Shape, ReminderStep, CycleStep
<1>5. ASSUME NEW w \in Cycles, CycleBusy(w), NEW outcome, Record(w, outcome),
             \/ outcome = Sent(reminder[cycle[w].job])
             \/ \E transient \in BOOLEAN :
                   outcome = Failed(reminder[cycle[w].job], cycle[w].attempt, transient)
      PROVE  Shape
  <2> DEFINE n == cycle[w].job
  <2>1. n \in Notices
    BY <1>5 DEF RemindersNamed
  <2>2. IsTable(reminder') /\ \A m \in Notices : reminder'[m] = reminder[m] \/ ReminderEnds(m)
    <3>1. CASE reminder' = reminder
      BY <3>1
    <3>2. CASE HoldsReminder(w) /\ reminder' = [reminder EXCEPT ![n] = outcome]
      BY <1>5, <2>1, <3>2 DEF HoldsReminder, ReminderEnds
    <3> QED BY <1>5, <3>1, <3>2, RecordSteps
  <2> QED BY <1>5, <2>2, RecordSteps DEF Shape, ReminderStep, CycleStep, Rests
<1>6. ASSUME NEW w \in Cycles, Show(w) \/ Accept(w) PROVE Shape
  BY <1>5, <1>6 DEF Show, Accept, CycleBusy
<1>7. ASSUME NEW w \in Cycles, NEW transient \in BOOLEAN, Refuse(w, transient) PROVE Shape
  BY <1>5, <1>7 DEF Refuse, CycleBusy
<1>8. ASSUME NEW w \in Cycles, TimeOut(w) \/ CycleCrash(w) PROVE Shape
  <2>1. Leave(w) /\ reminder' = reminder /\ mails' = mails
    BY <1>8 DEF TimeOut, CycleCrash
  <2>2. {} \in SUBSET Notices
    OBVIOUS
  <2> QED BY <2>1, <2>2, CycleRests DEF Shape, ReminderStep, CycleStep, Rests
<1>9. CASE ReminderTick
  <2> DEFINE wait(n) == IF reminder[n].wait > 0 THEN reminder[n].wait - 1 ELSE 0
             age(n)  == IF (reminder[n].status = "processing" \/ reminder[n].retry)
                           /\ reminder[n].age < Horizon
                        THEN reminder[n].age + 1 ELSE reminder[n].age
  <2>1. \A n \in Notices :
          /\ wait(n) \in Nat /\ age(n) \in Nat /\ (reminder[n].wait = 0 => wait(n) = 0)
          /\ ~(reminder[n].status = "processing" \/ reminder[n].retry) => age(n) = reminder[n].age
    BY DEF Reminder
  <2>2. reminder' = [n \in Notices |-> [reminder[n] EXCEPT !.wait = wait(n), !.age = age(n)]]
    BY <1>9 DEF ReminderTick
  <2> HIDE DEF wait, age
  <2>3. IsTable(reminder') /\ \A n \in Notices : ReminderAges(n)
    BY <2>1, <2>2 DEF ReminderAges, Aged
  <2>4. cycle' = cycle /\ mails' = mails
    BY <1>9 DEF ReminderTick
  <2> QED BY <2>3, <2>4 DEF Shape, ReminderStep, CycleStep, RemindersNamed, CycleBusy
<1>10. CASE UNCHANGED reminderVars
  BY <1>10 DEF reminderVars, Shape, ReminderStep, CycleStep, RemindersNamed, CycleBusy
<1> QED
  BY <1>1, <1>2, <1>3, <1>4, <1>6, <1>7, <1>8, <1>9, <1>10
     DEF ReminderNext, Steady, Cycle, Start, TakeReminder, AttemptMail

\* Rows stay fit.
LEMMA CyclesFitStep == CyclesFit /\ [ReminderNext]_reminderVars => CyclesFit'
<1> SUFFICES ASSUME CyclesFit, [ReminderNext]_reminderVars PROVE CyclesFit'
  OBVIOUS
<1>1. Shape
  BY StepShape
<1>2. \A n \in Notices : ReminderFits(reminder'[n])
  <2> SUFFICES ASSUME NEW n \in Notices PROVE ReminderFits(reminder'[n])
    OBVIOUS
  <2>1. ReminderFits(reminder[n])
    BY DEF CyclesFit
  <2>2. CASE ReminderAges(n)
    <3>1. PICK wait, age \in Nat :
             /\ reminder[n].wait = 0 => wait = 0
             /\ reminder'[n] = Aged(reminder[n], wait, age)
      BY <2>2 DEF ReminderAges
    <3> QED BY <2>1, <3>1, AgedFits
  <2>3. CASE ReminderScans(n)
    BY <2>1, <2>3, SchedulingFits, ExhaustedFits DEF ReminderScans
  <2>4. CASE ReminderStarts(n)
    BY <2>1, <2>4, ClaimedFits DEF ReminderStarts
  <2>5. CASE ReminderEnds(n)
    BY <2>1, <2>5, SentFits, FailedFits DEF ReminderEnds
  <2> QED BY <1>1, <2>1, <2>2, <2>3, <2>4, <2>5 DEF Shape, ReminderStep
<1>3. reminder' \in [Notices -> Reminder]
  <2>1. IsTable(reminder') /\ \A n \in Notices : reminder'[n] \in Reminder
    BY <1>1, <1>2 DEF Shape, ReminderFits
  <2> QED BY <2>1 DEF IsTable
<1> QED BY <1>1, <1>2, <1>3 DEF Shape, CyclesFit

\* Rows, cycles and counters keep their types.
THEOREM CyclesFitAlways == ReminderSpec => []CyclesFit
<1>1. ReminderInit => CyclesFit
  <2> SUFFICES ASSUME ReminderInit PROVE CyclesFit
    OBVIOUS
  <2>1. ReminderFits(NoReminder) /\ NoReminder \in Reminder
    BY ReminderLimits DEF NoReminder, ReminderFits, Reminder
  <2>2. IdleCycle \in Workplaces /\ IdleCycle.pc = "idle" /\ IdleCycle.job = NoNotice
    BY DEF IdleCycle, Workplaces
  <2> QED BY <2>1, <2>2 DEF ReminderInit, CyclesFit, RemindersNamed, CycleBusy
<1> QED BY <1>1, CyclesFitStep, PTL DEF ReminderSpec

\* The type invariant of the runs.
THEOREM CyclesTyped == ReminderSpec => []ReminderTypeOK
<1>1. CyclesFit => ReminderTypeOK
  BY DEF CyclesFit, ReminderTypeOK, Workplaces
<1> QED BY <1>1, CyclesFitAlways, PTL

-----------------------------------------------------------------------------
(* Claims.                                                                 *)

\* A step never lowers the attempts of a reminder.
LEMMA AttemptsGrow ==
    ASSUME CyclesFit, [ReminderNext]_reminderVars, NEW n \in Notices
    PROVE  /\ reminder[n].attempts \in Nat /\ reminder'[n].attempts \in Nat
           /\ reminder'[n].attempts >= reminder[n].attempts
<1>1. reminder[n].attempts \in Nat /\ reminder'[n].attempts \in Nat
  BY CyclesFitStep DEF CyclesFit, Reminder
<1>2. ReminderFits(reminder[n]) /\ reminder[n] \in Reminder
  BY DEF CyclesFit
<1>3. CASE reminder'[n] = reminder[n]
  BY <1>1, <1>3
<1>4. CASE ReminderAges(n)
  <2>1. PICK wait, age \in Nat : reminder'[n] = Aged(reminder[n], wait, age)
    BY <1>4 DEF ReminderAges
  <2> QED BY <1>1, <1>2, <2>1 DEF Aged, Reminder
<1>5. CASE ReminderScans(n)
  <2>1. PICK found, mailable : reminder'[n] = Exhausted(AfterScheduling(n, found, mailable))
    BY <1>5 DEF ReminderScans
  <2>2. AfterScheduling(n, found, mailable).attempts = reminder[n].attempts
    BY <1>2 DEF AfterScheduling, Scheduled, NoReminder, ReminderFits
  <2>3. AfterScheduling(n, found, mailable) \in Reminder
    BY <1>2, SchedulingFits DEF ReminderFits
  <2>4. reminder'[n].attempts = reminder[n].attempts
    BY <2>1, <2>2, <2>3 DEF Exhausted, Reminder
  <2> QED BY <1>1, <2>4
<1>6. CASE ReminderStarts(n)
  <2>1. reminder'[n].attempts = reminder[n].attempts + 1
    BY <1>2, <1>6 DEF ReminderStarts, Claimed, Reminder
  <2> QED BY <1>1, <2>1
<1>7. CASE ReminderEnds(n)
  <2>1. reminder'[n].attempts = reminder[n].attempts
    BY <1>2, <1>7 DEF ReminderEnds, Sent, Failed, Reminder
  <2> QED BY <1>1, <2>1
<1> QED BY <1>3, <1>4, <1>5, <1>6, <1>7, StepShape DEF Shape, ReminderStep

\* The cycles at work on one reminder hold different attempts, none of them
\* beyond the row's.
ClaimsFit ==
    /\ \A w \in Cycles : CycleBusy(w) => cycle[w].attempt <= reminder[cycle[w].job].attempts
    /\ \A v, w \in Cycles :
          /\ v # w /\ CycleBusy(v) /\ CycleBusy(w) /\ cycle[v].job = cycle[w].job
          => cycle[v].attempt # cycle[w].attempt

\* A cycle in a step: it goes on, or takes a reminder alone.
LEMMA CycleSteps ==
    ASSUME CyclesFit, [ReminderNext]_reminderVars
    PROVE  \/ \A w \in Cycles : CycleGoesOn(w)
           \/ \E w \in Cycles : CycleTakes(w) /\ mails' = mails
<1>1. ASSUME cycle' = cycle PROVE \A w \in Cycles : CycleGoesOn(w)
  BY <1>1 DEF CycleGoesOn, CycleBusy
<1>2. ASSUME NEW w \in Cycles, Rests(w) PROVE \A v \in Cycles : CycleGoesOn(v)
  BY <1>2 DEF Rests, CycleGoesOn, CycleBusy
<1>3. ASSUME NEW w \in Cycles, Submits(w) PROVE \A v \in Cycles : CycleGoesOn(v)
  BY <1>3 DEF Submits, CycleGoesOn, CycleBusy
<1> QED BY <1>1, <1>2, <1>3, StepShape DEF Shape, CycleStep

\* Every step keeps the claims apart.
LEMMA ClaimsStep == ASSUME CyclesFit, ClaimsFit, [ReminderNext]_reminderVars PROVE ClaimsFit'
<1>0. /\ CyclesFit' /\ \A n \in Notices : /\ reminder[n].attempts \in Nat
                                          /\ reminder'[n].attempts \in Nat
                                          /\ reminder'[n].attempts >= reminder[n].attempts
      /\ \A w \in Cycles : /\ cycle[w].attempt \in Nat /\ cycle'[w].attempt \in Nat
                           /\ CycleBusy(w) => cycle[w].job \in Notices
                           /\ CycleBusy(w)' => cycle'[w].job \in Notices
  BY CyclesFitStep, AttemptsGrow DEF CyclesFit, Workplaces, RemindersNamed
<1>1. CASE \A w \in Cycles : CycleGoesOn(w)
  <2>1. ASSUME NEW w \in Cycles, CycleBusy(w)'
        PROVE  cycle'[w].attempt <= reminder'[cycle'[w].job].attempts
    <3>1. /\ CycleBusy(w) /\ cycle'[w].job = cycle[w].job
          /\ cycle'[w].attempt = cycle[w].attempt
      BY <1>1, <2>1 DEF CycleGoesOn
    <3>2. cycle[w].attempt <= reminder[cycle[w].job].attempts /\ cycle[w].job \in Notices
      BY <1>0, <3>1 DEF ClaimsFit
    <3> QED BY <1>0, <3>1, <3>2
  <2>2. ASSUME NEW v \in Cycles, NEW w \in Cycles, v # w, CycleBusy(v)', CycleBusy(w)',
               cycle'[v].job = cycle'[w].job
        PROVE  cycle'[v].attempt # cycle'[w].attempt
    BY <1>1, <2>2 DEF CycleGoesOn, ClaimsFit
  <2> QED BY <2>1, <2>2 DEF ClaimsFit, CycleBusy
<1>2. ASSUME NEW t \in Cycles, CycleTakes(t) PROVE ClaimsFit'
  <2>1. PICK n \in Notices :
          /\ reminder'[n] = Claimed(reminder[n]) /\ cycle'[t].pc = "claimed" /\ cycle'[t].job = n
          /\ cycle'[t].attempt = reminder[n].attempts + 1
          /\ \A v \in Cycles \ {t} : cycle'[v] = cycle[v]
    BY <1>2 DEF CycleTakes
  <2>2. reminder'[n].attempts = reminder[n].attempts + 1
    BY <2>1 DEF CyclesFit, Claimed, Reminder
  <2>3. ASSUME NEW w \in Cycles \ {t}, CycleBusy(w)'
        PROVE  /\ cycle'[w] = cycle[w] /\ CycleBusy(w) /\ cycle[w].job \in Notices
               /\ cycle[w].attempt <= reminder[cycle[w].job].attempts
    BY <1>0, <2>1, <2>3 DEF ClaimsFit, CycleBusy
  <2>4. ASSUME NEW w \in Cycles, CycleBusy(w)'
        PROVE  cycle'[w].attempt <= reminder'[cycle'[w].job].attempts
    <3>1. CASE w = t
      BY <1>0, <2>1, <2>2, <3>1
    <3>2. CASE w # t
      BY <1>0, <2>3, <2>4, <3>2
    <3> QED BY <3>1, <3>2
  <2>5. ASSUME NEW v \in Cycles, NEW w \in Cycles, v # w, CycleBusy(v)', CycleBusy(w)',
               cycle'[v].job = cycle'[w].job
        PROVE  cycle'[v].attempt # cycle'[w].attempt
    <3>1. CASE v = t
      <4>1. cycle[w].attempt <= reminder[n].attempts /\ cycle'[w] = cycle[w]
        BY <2>1, <2>3, <2>5, <3>1
      <4> QED BY <1>0, <2>1, <3>1, <4>1
    <3>2. CASE w = t
      <4>1. cycle[v].attempt <= reminder[n].attempts /\ cycle'[v] = cycle[v]
        BY <2>1, <2>3, <2>5, <3>2
      <4> QED BY <1>0, <2>1, <3>2, <4>1
    <3>3. CASE v # t /\ w # t
      BY <2>3, <2>5, <3>3 DEF ClaimsFit
    <3> QED BY <3>1, <3>2, <3>3
  <2> QED BY <2>4, <2>5 DEF ClaimsFit, CycleBusy
<1> QED BY <1>1, <1>2, CycleSteps

\* The claims stay apart.
THEOREM ClaimsFitAlways == ReminderSpec => []ClaimsFit
<1>1. ReminderInit => ClaimsFit
  BY DEF ReminderInit, ClaimsFit, CycleBusy, IdleCycle
<1>2. CyclesFit /\ ClaimsFit /\ [ReminderNext]_reminderVars => ClaimsFit'
  BY ClaimsStep
<1> QED BY <1>1, <1>2, CyclesFitAlways, PTL DEF ReminderSpec

\* Of the cycles at work on one reminder at most one can record an outcome.
THEOREM OneHolder == ReminderSpec => []OneRecorder
<1>1. CyclesFit /\ ClaimsFit => OneRecorder
  <2> SUFFICES ASSUME CyclesFit, ClaimsFit, NEW v \in Cycles, NEW w \in Cycles, v # w,
                      cycle[v].job # NoNotice, cycle[w].job = cycle[v].job,
                      HoldsReminder(v), HoldsReminder(w)
               PROVE  FALSE
    BY DEF OneRecorder
  <2>1. CycleBusy(v) /\ CycleBusy(w)
    BY DEF CyclesFit, RemindersNamed
  <2> QED BY <2>1 DEF ClaimsFit, HoldsReminder
<1> QED BY <1>1, CyclesFitAlways, ClaimsFitAlways, PTL

\* A settled reminder is never touched again.
THEOREM SettledStays == ReminderSpec => SettledForGood
<1>1. ASSUME CyclesFit, [ReminderNext]_reminderVars
      PROVE  [\A n \in Notices : Settled(reminder[n]) => reminder'[n] = reminder[n]]_reminderVars
  <2> SUFFICES ASSUME NEW n \in Notices, Settled(reminder[n]) PROVE reminder'[n] = reminder[n]
    OBVIOUS
  <2>1. /\ reminder[n] \in Reminder /\ ~reminder[n].retry /\ reminder[n].wait = 0
        /\ reminder[n].status \in {"sent", "failed"}
    <3>1. ReminderFits(reminder[n]) /\ reminder[n] \in Reminder
      BY <1>1 DEF CyclesFit
    <3>2. ~reminder[n].retry /\ reminder[n].status \in {"sent", "failed"}
      BY <3>1 DEF ReminderFits, Settled
    <3> QED BY <3>1, <3>2 DEF ReminderFits
  <2>2. CASE ReminderAges(n)
    <3>1. PICK wait, age \in Nat :
            /\ reminder[n].wait = 0 => wait = 0
            /\ ~(reminder[n].status = "processing" \/ reminder[n].retry) => age = reminder[n].age
            /\ reminder'[n] = Aged(reminder[n], wait, age)
      BY <2>2 DEF ReminderAges
    <3>2. wait = reminder[n].wait /\ age = reminder[n].age
      BY <2>1, <3>1
    <3> QED BY <2>1, <3>1, <3>2 DEF Aged, Reminder
  <2>3. CASE ReminderScans(n)
    BY <2>1, <2>3 DEF ReminderScans, Exhausted, AfterScheduling, ClaimStale
  <2>4. CASE ReminderStarts(n)
    BY <2>1, <2>4 DEF ReminderStarts, ReminderClaimable, ClaimStale
  <2>5. CASE ReminderEnds(n)
    BY <2>1, <2>5 DEF ReminderEnds
  <2> QED BY <2>2, <2>3, <2>4, <2>5, <1>1, StepShape DEF Shape, ReminderStep
<1> QED BY <1>1, CyclesFitAlways, PTL DEF ReminderSpec, SettledForGood

-----------------------------------------------------------------------------
(* The budget of mails.                                                    *)

Unmailed(n) == {w \in Cycles : cycle[w].pc = "claimed" /\ cycle[w].job = n}

\* Every mail, and every claim that may still become one, spent an attempt.
MailInv == \A n \in Notices : mails[n] + Cardinality(Unmailed(n)) <= reminder[n].attempts

\* The cycles holding an unsent claim of a reminder can be counted.
LEMMA UnmailedFinite ==
    ASSUME NEW n \in Notices
    PROVE  IsFiniteSet(Unmailed(n)) /\ Cardinality(Unmailed(n)) \in Nat
BY ReminderLimits, FS_Subset, FS_CardinalityType DEF Unmailed

\* Every step spends an attempt before it submits a mail.
LEMMA MailStep == ASSUME CyclesFit, MailInv, [ReminderNext]_reminderVars PROVE MailInv'
<1> SUFFICES ASSUME NEW n \in Notices
             PROVE  mails'[n] + Cardinality(Unmailed(n)') <= reminder'[n].attempts
  BY DEF MailInv
<1>0. /\ IsFiniteSet(Unmailed(n)) /\ Cardinality(Unmailed(n)) \in Nat
      /\ mails[n] \in Nat /\ mails[n] + Cardinality(Unmailed(n)) <= reminder[n].attempts
      /\ reminder[n].attempts \in Nat /\ reminder'[n].attempts \in Nat
      /\ reminder'[n].attempts >= reminder[n].attempts
  BY UnmailedFinite, AttemptsGrow DEF CyclesFit, MailInv
<1>1. ASSUME Unmailed(n)' \subseteq Unmailed(n), mails'[n] = mails[n]
      PROVE  mails'[n] + Cardinality(Unmailed(n)') <= reminder'[n].attempts
  <2>1. Cardinality(Unmailed(n)') \in Nat /\ Cardinality(Unmailed(n)') <= Cardinality(Unmailed(n))
    BY <1>0, <1>1, FS_Subset, FS_CardinalityType
  <2> QED BY <1>0, <1>1, <2>1
<1>2. CASE cycle' = cycle /\ mails' = mails
  BY <1>1, <1>2 DEF Unmailed
<1>3. ASSUME NEW w \in Cycles, Rests(w), mails' = mails
      PROVE  mails'[n] + Cardinality(Unmailed(n)') <= reminder'[n].attempts
  <2>1. Unmailed(n)' \subseteq Unmailed(n)
    BY <1>3 DEF Rests, Unmailed, CycleBusy
  <2> QED BY <1>1, <1>3, <2>1
<1>4. ASSUME NEW w \in Cycles, CycleTakes(w), mails' = mails
      PROVE  mails'[n] + Cardinality(Unmailed(n)') <= reminder'[n].attempts
  <2>1. PICK m \in Notices :
          /\ reminder'[m] = Claimed(reminder[m]) /\ cycle'[w].job = m
          /\ \A v \in Cycles \ {w} : cycle'[v] = cycle[v]
    BY <1>4 DEF CycleTakes
  <2>2. CASE m = n
    <3>1. reminder'[n].attempts = reminder[n].attempts + 1
      <4>1. reminder'[n] = Claimed(reminder[n]) /\ reminder[n] \in Reminder
        BY <2>1, <2>2 DEF CyclesFit
      <4> QED BY <4>1 DEF Claimed, Reminder
    <3>2. Unmailed(n)' \subseteq Unmailed(n) \cup {w}
      BY <2>1 DEF Unmailed
    <3>3. /\ IsFiniteSet(Unmailed(n) \cup {w})
          /\ Cardinality(Unmailed(n) \cup {w}) <= Cardinality(Unmailed(n)) + 1
          /\ Cardinality(Unmailed(n) \cup {w}) \in Nat
      <4>1. /\ IsFiniteSet(Unmailed(n) \cup {w})
            /\ Cardinality(Unmailed(n) \cup {w}) = Cardinality(Unmailed(n))
               \/ Cardinality(Unmailed(n) \cup {w}) = Cardinality(Unmailed(n)) + 1
        BY <1>0, FS_AddElement
      <4>2. Cardinality(Unmailed(n) \cup {w}) \in Nat
        BY <4>1, FS_CardinalityType
      <4> QED BY <1>0, <4>1, <4>2
    <3>4. /\ Cardinality(Unmailed(n)') \in Nat
          /\ Cardinality(Unmailed(n)') <= Cardinality(Unmailed(n) \cup {w})
      BY <3>2, <3>3, FS_Subset, FS_CardinalityType
    <3> QED BY <1>0, <1>4, <3>1, <3>3, <3>4
  <2>3. CASE m # n
    <3>1. Unmailed(n)' \subseteq Unmailed(n)
      BY <2>1, <2>3 DEF Unmailed
    <3> QED BY <1>1, <1>4, <3>1
  <2> QED BY <2>2, <2>3
<1>5. ASSUME NEW w \in Cycles, Submits(w), reminder' = reminder
      PROVE  mails'[n] + Cardinality(Unmailed(n)') <= reminder'[n].attempts
  <2>1. CASE cycle[w].job = n
    <3>1. mails'[n] = mails[n] + 1
      BY <1>5, <2>1 DEF Submits, CyclesFit
    <3>2. w \in Unmailed(n) /\ Unmailed(n)' \subseteq Unmailed(n) \ {w}
      BY <1>5, <2>1 DEF Submits, Unmailed
    <3>3. /\ IsFiniteSet(Unmailed(n) \ {w})
          /\ Cardinality(Unmailed(n) \ {w}) = Cardinality(Unmailed(n)) - 1
          /\ Cardinality(Unmailed(n) \ {w}) \in Nat
      BY <1>0, <3>2, FS_RemoveElement, FS_CardinalityType
    <3>4. /\ Cardinality(Unmailed(n)') \in Nat
          /\ Cardinality(Unmailed(n)') <= Cardinality(Unmailed(n) \ {w})
      BY <3>2, <3>3, FS_Subset, FS_CardinalityType
    <3> QED BY <1>0, <1>5, <3>1, <3>3, <3>4
  <2>2. CASE cycle[w].job # n
    <3>1. mails'[n] = mails[n] /\ Unmailed(n)' \subseteq Unmailed(n)
      BY <1>5, <2>2 DEF Submits, Unmailed, CyclesFit
    <3> QED BY <1>1, <3>1
  <2> QED BY <2>1, <2>2
<1> QED BY <1>2, <1>3, <1>4, <1>5, StepShape DEF Shape, CycleStep

\* A reminder is mailed at most once per attempt, and has at most MaxAttempts.
THEOREM MailsBounded == ReminderSpec => []MailBudget
<1>1. ReminderInit => MailInv
  <2> SUFFICES ASSUME ReminderInit, NEW n \in Notices
               PROVE  mails[n] + Cardinality(Unmailed(n)) <= reminder[n].attempts
    BY DEF MailInv
  <2>1. Unmailed(n) = {}
    BY DEF ReminderInit, Unmailed, IdleCycle
  <2>2. Cardinality(Unmailed(n)) = 0
    BY <2>1, FS_EmptySet
  <2> QED BY <2>2 DEF ReminderInit, NoReminder
<1>2. CyclesFit /\ MailInv /\ [ReminderNext]_reminderVars => MailInv'
  BY MailStep
<1>3. CyclesFit /\ MailInv => MailBudget
  <2> SUFFICES ASSUME CyclesFit, MailInv, NEW n \in Notices
               PROVE  mails[n] <= reminder[n].attempts /\ reminder[n].attempts <= MaxDeliveryAttempts
    BY DEF MailBudget
  <2>1. /\ mails[n] \in Nat /\ reminder[n].attempts \in Nat
        /\ reminder[n].attempts <= MaxDeliveryAttempts
        /\ mails[n] + Cardinality(Unmailed(n)) <= reminder[n].attempts
        /\ Cardinality(Unmailed(n)) \in Nat
    BY UnmailedFinite DEF CyclesFit, ReminderFits, Reminder, MailInv
  <2> QED BY <2>1
<1> QED BY <1>1, <1>2, <1>3, CyclesFitAlways, PTL DEF ReminderSpec
=============================================================================
