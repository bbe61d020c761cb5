--------------------------- MODULE ReminderDelivery ---------------------------
(***************************************************************************)
(* Renewal reminders.  A cycle, started by the server's poll, by a route   *)
(* or by the command line, schedules one reminder per dedupe key, gives up *)
(* the ones that ran out of attempts, and then claims the due ones one at  *)
(* a time: an in-app reminder is only recorded, an email one is submitted  *)
(* (an await) and its outcome recorded under the exact claim.  A submission*)
(* without an answer at the deadline, and an outcome whose claim was lost, *)
(* end the whole cycle.                                                    *)
(*                                                                         *)
(* Only ages and waits matter, so a row holds the time since its last      *)
(* attempt and the time until its next one, and a tick moves both.         *)
(***************************************************************************)
EXTENDS Integers, Sequences, FiniteSets

CONSTANTS
    Notices,              \* dedupe keys: a certificate and the date printed on it
    Cycles,               \* processes that run cycles
    NoNotice,
    MaxDeliveryAttempts,  \* MAX_DELIVERY_ATTEMPTS
    Lease,                \* DELIVERY_CLAIM_LEASE_MS
    Backoff,              \* RETRY_BACKOFF_MS, indexed by the attempt that failed
    Horizon               \* ages from here on are not told apart

ASSUME ReminderLimits ==
    /\ MaxDeliveryAttempts \in Nat \ {0}
    /\ Lease \in Nat \ {0}
    /\ Backoff \in Seq(Nat \ {0})
    /\ Horizon \in Nat /\ Horizon >= Lease
    /\ NoNotice \notin Notices /\ IsFiniteSet(Cycles)

VARIABLES
    reminder,   \* rows of reminders
    cycle,      \* cycles in progress
    mails       \* sendMail calls made for each reminder, over all cycles

reminderVars == <<reminder, cycle, mails>>

-----------------------------------------------------------------------------
Reminder == [status : {"absent", "pending", "processing", "sent", "failed"},
             channel : {"email", "in_app"},
             attempts : Nat,
             retry : BOOLEAN,   \* retry_eligible; next_attempt_at is set with it
             age : Nat,         \* now - last_attempt_at, up to Horizon
             wait : Nat]        \* next_attempt_at - now, 0 once due

NoReminder == [status |-> "absent", channel |-> "in_app", attempts |-> 0,
               retry |-> FALSE, age |-> 0, wait |-> 0]
IdleCycle == [pc |-> "idle", todo |-> {}, job |-> NoNotice, attempt |-> 0]

ReminderInit ==
    /\ reminder = [n \in Notices |-> NoReminder]
    /\ cycle = [w \in Cycles |-> IdleCycle]
    /\ mails = [n \in Notices |-> 0]

-----------------------------------------------------------------------------
(* Rows.                                                                   *)

Scheduled(channel) == [NoReminder EXCEPT !.status = "pending", !.channel = channel]

\* Mutant: scheduling again replaces the row of the same key.
AfterReplacing(n, found, mailable) ==
    IF n \in found THEN Scheduled(IF n \in mailable THEN "email" ELSE "in_app") ELSE reminder[n]

\* The unique key makes a second insert fail, and the failure is ignored.
AfterScheduling(n, found, mailable) ==
    IF n \in found /\ reminder[n].status = "absent"
    THEN Scheduled(IF n \in mailable THEN "email" ELSE "in_app") ELSE reminder[n]

ClaimStale(r) == r.status = "processing" /\ r.age >= Lease

\* Mutant: a claim that used up its attempts stays in process.
ExhaustedLate(r) ==
    IF ClaimStale(r) /\ r.attempts > MaxDeliveryAttempts
    THEN [r EXCEPT !.status = "failed", !.retry = FALSE, !.wait = 0] ELSE r

Exhausted(r) ==
    IF ClaimStale(r) /\ r.attempts >= MaxDeliveryAttempts
    THEN [r EXCEPT !.status = "failed", !.retry = FALSE, !.wait = 0] ELSE r

Due(r) ==
    \/ r.status = "pending"
    \/ /\ r.status = "failed" /\ r.channel = "email"
       /\ r.retry /\ r.wait = 0 /\ r.attempts < MaxDeliveryAttempts
    \/ ClaimStale(r) /\ r.attempts < MaxDeliveryAttempts

\* The claim looks at the row again; for a failed one it trusts retry alone.
ReminderClaimable(r) ==
    \/ r.status = "pending"
    \/ r.status = "failed" /\ r.retry /\ r.wait = 0
    \/ ClaimStale(r) /\ r.attempts < MaxDeliveryAttempts

Claimed(r) == [r EXCEPT !.status = "processing", !.attempts = @ + 1,
                        !.retry = FALSE, !.age = 0, !.wait = 0]

Sent(r) == [r EXCEPT !.status = "sent", !.retry = FALSE, !.wait = 0]

\* Mutant: the attempt limit is forgotten when a retry is planned.
FailedUnbounded(r, attempt, transient) ==
    LET again == transient
        next  == IF attempt \in DOMAIN Backoff THEN attempt ELSE Len(Backoff)
    IN  [r EXCEPT !.status = "failed", !.retry = again,
                  !.wait = IF again THEN Backoff[next] ELSE 0]

\* A transient failure is retried while an attempt and a backoff remain.
Failed(r, attempt, transient) ==
    LET again == transient /\ attempt < MaxDeliveryAttempts /\ attempt \in DOMAIN Backoff
    IN  [r EXCEPT !.status = "failed", !.retry = again,
                  !.wait = IF again THEN Backoff[attempt] ELSE 0]

-----------------------------------------------------------------------------
(* A cycle.                                                                *)

\* The cycle goes on with the rest of the due reminders.
ProceedWith(w, todo) ==
    cycle' = [cycle EXCEPT ![w] = IF todo = {} THEN IdleCycle
                                  ELSE [IdleCycle EXCEPT !.pc = "batch", !.todo = todo]]

Leave(w) == cycle' = [cycle EXCEPT ![w] = IdleCycle]

\* found are the notices the latest confirmed certificates call for at this
\* moment, mailable those of vendors with an address while SMTP is configured.
StartCycle(w, found, mailable) ==
    /\ cycle[w].pc = "idle"
    /\ reminder' = [n \in Notices |-> Exhausted(AfterScheduling(n, found, mailable))]
    /\ ProceedWith(w, {n \in Notices : Due(Exhausted(AfterScheduling(n, found, mailable)))})
    /\ UNCHANGED mails

ClaimReminder(w, n) ==
    /\ cycle[w].pc = "batch" /\ n \in cycle[w].todo
    /\ ReminderClaimable(reminder[n])
    /\ reminder' = [reminder EXCEPT ![n] = Claimed(@)]
    /\ cycle' = [cycle EXCEPT ![w] = [pc |-> "claimed", todo |-> cycle[w].todo \ {n},
                                      job |-> n, attempt |-> reminder[n].attempts + 1]]
    /\ UNCHANGED mails

\* Another cycle was faster.
SkipReminder(w, n) ==
    /\ cycle[w].pc = "batch" /\ n \in cycle[w].todo
    /\ ~ReminderClaimable(reminder[n])
    /\ ProceedWith(w, cycle[w].todo \ {n})
    /\ UNCHANGED <<reminder, mails>>

Submit(w) ==
    LET n == cycle[w].job IN
    /\ cycle[w].pc = "claimed" /\ reminder[n].channel = "email"
    /\ mails' = [mails EXCEPT ![n] = @ + 1]
    /\ cycle' = [cycle EXCEPT ![w].pc = "sending"]
    /\ UNCHANGED reminder

\* The compare-and-set of markReminder.  The instant of the claim is compared
\* too; it is written with the attempt number, which never repeats.
HoldsReminder(w) ==
    LET r == reminder[cycle[w].job] IN r.status = "processing" /\ r.attempts = cycle[w].attempt

\* An outcome that finds its claim gone ends the cycle with an error.
Record(w, outcome) ==
    /\ IF HoldsReminder(w)
       THEN /\ reminder' = [reminder EXCEPT ![cycle[w].job] = outcome]
            /\ ProceedWith(w, cycle[w].todo)
       ELSE reminder' = reminder /\ Leave(w)
    /\ UNCHANGED mails

\* An in-app reminder needs no submission.
Show(w) ==
    LET n == cycle[w].job IN
    /\ cycle[w].pc = "claimed" /\ reminder[n].channel = "in_app"
    /\ Record(w, Sent(reminder[n]))

Accept(w) ==
    /\ cycle[w].pc = "sending"
    /\ Record(w, Sent(reminder[cycle[w].job]))

\* The server refuses or the connection breaks, perhaps after the mail was
\* taken; without an SMTP configuration nothing is submitted at all.
Refuse(w, transient) ==
    LET n == cycle[w].job IN
    /\ \/ cycle[w].pc = "sending"
       \/ cycle[w].pc = "claimed" /\ reminder[n].channel = "email" /\ transient
    /\ Record(w, Failed(reminder[n], cycle[w].attempt, transient))

\* No answer within SMTP_SUBMISSION_DEADLINE_MS: nothing is recorded.
TimeOut(w) ==
    /\ cycle[w].pc = "sending"
    /\ Leave(w)
    /\ UNCHANGED <<reminder, mails>>

\* The process dies with whatever it holds; its successor starts idle.
CycleCrash(w) ==
    /\ cycle[w].pc # "idle"
    /\ Leave(w)
    /\ UNCHANGED <<reminder, mails>>

ReminderTick ==
    /\ reminder' = [n \in Notices |->
          [reminder[n] EXCEPT
              !.wait = IF @ > 0 THEN @ - 1 ELSE 0,
              !.age  = IF /\ reminder[n].status = "processing" \/ reminder[n].retry
                          /\ @ < Horizon
                       THEN @ + 1 ELSE @]]
    /\ UNCHANGED <<cycle, mails>>

-----------------------------------------------------------------------------
Start(w) == \E found \in SUBSET Notices : \E mailable \in SUBSET found :
                StartCycle(w, found, mailable)

TakeReminder(w) == \E n \in Notices : ClaimReminder(w, n) \/ SkipReminder(w, n)

AttemptMail(w) ==
    \/ Submit(w) \/ Show(w) \/ Accept(w) \/ TimeOut(w)
    \/ \E transient \in BOOLEAN : Refuse(w, transient)

Cycle(w) == Start(w) \/ TakeReminder(w) \/ AttemptMail(w)

Steady == (\E w \in Cycles : Cycle(w)) \/ ReminderTick

ReminderNext == Steady \/ \E w \in Cycles : CycleCrash(w)

ReminderSpec == ReminderInit /\ [][ReminderNext]_reminderVars

\* The poll starts cycle after cycle, every await has a deadline, and time
\* passes.  A process is not killed between the start of a cycle and its
\* first claim every single time.
CycleFairness ==
    /\ WF_reminderVars(ReminderTick)
    /\ \A w \in Cycles : /\ WF_reminderVars(Start(w))
                           /\ SF_reminderVars(TakeReminder(w))
                           /\ WF_reminderVars(AttemptMail(w))

LiveReminderSpec == ReminderSpec /\ CycleFairness

\* Processes that never die.
SteadyReminderSpec == ReminderInit /\ [][Steady]_reminderVars

-----------------------------------------------------------------------------
(* Properties.                                                             *)

ReminderTypeOK ==
    /\ reminder \in [Notices -> Reminder]
    /\ cycle \in [Cycles -> [pc : {"idle", "batch", "claimed", "sending"},
                             todo : SUBSET Notices, job : Notices \cup {NoNotice},
                             attempt : Nat]]
    /\ mails \in [Notices -> Nat]

\* However often a reminder is scheduled, claimed and reclaimed, it is mailed
\* at most once per attempt and has at most MaxAttempts of them, although the
\* claim of a failed reminder does not look at the attempts again.
MailBudget ==
    \A n \in Notices : /\ mails[n] <= reminder[n].attempts
                        /\ reminder[n].attempts <= MaxDeliveryAttempts

\* Of the cycles at work on one reminder, however late, at most one can still
\* record an outcome.
OneRecorder ==
    \A v, w \in Cycles :
        /\ v # w /\ cycle[v].job # NoNotice /\ cycle[w].job = cycle[v].job
        => ~(HoldsReminder(v) /\ HoldsReminder(w))

\* A reminder that was sent, or failed for good, is never touched again: no
\* later cycle schedules, claims or relabels it.
Settled(r) == r.status = "sent" \/ (r.status = "failed" /\ ~r.retry)

SettledForGood ==
    [][\A n \in Notices : Settled(reminder[n]) => reminder'[n] = reminder[n]]_reminderVars

\* Every reminder is settled in the end, although one that hangs, or whose
\* claim was lost, ends the cycle of all the others.
ReminderSettles ==
    \A n \in Notices : reminder[n].status # "absent" ~> Settled(reminder[n])

\* Without crashes, an attempt follows the one before it no sooner than its
\* backoff (the code disagrees: one that timed out is repeated as soon as its
\* lease has run out).
BackoffKept ==
    [][\A n \in Notices :
          /\ reminder[n].attempts \in DOMAIN Backoff
          /\ reminder'[n].attempts > reminder[n].attempts
          => reminder[n].age >= Backoff[reminder[n].attempts]]_reminderVars
=============================================================================
