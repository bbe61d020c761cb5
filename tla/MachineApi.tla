----------------------------- MODULE MachineApi -----------------------------
(***************************************************************************)
(* The writing half of the machine API: idempotency keys, conditional      *)
(* updates of a vendor, certificate uploads under the upload capacity, and *)
(* certificate requests under the mail limits.  Several server processes   *)
(* share one database.  A request that does not authenticate or lacks its  *)
(* scope changes nothing, so only the others are modelled.                 *)
(*                                                                         *)
(* A JSON handler has two steps.  Arrive looks the key up and checks what  *)
(* it can; the transaction follows.  Nothing else of its process runs in   *)
(* between, but other processes do.  An upload is parsed, looked up,       *)
(* stored as a file and recorded, with an await before each.               *)
(***************************************************************************)
EXTENDS Integers, FiniteSets

CONSTANTS
    Processes, Handlers, HostOf,   \* requests in flight, and the process of each
    Calls, OpOf,                   \* requests clients send, and what each asks for
    Keys, KeyOf,                   \* Idempotency-Keys, each of one service account
    AboutOf,                       \* the call whose certificate request a call cancels
    RecipientOf,                   \* whom a mailed certificate request goes to
    Scenarios,                     \* bounds which calls each handler meets
    None,
    Ttl,                           \* IDEMPOTENCY_TTL_MS
    MaximumActive,                 \* the upload capacity of a process
    Window,                        \* 24 hours, the window of the mail limits
    OrganizationLimit, RecipientLimit,
    MaxTime, MaxFaults             \* bounds of the clock and of crashes and I/O errors

Ops == {"create_vendor", "edit", "deactivate", "submit", "ask", "cancel"}
Patches == {c \in Calls : OpOf[c] \in {"edit", "deactivate"}}

ASSUME CallAssumption ==
    /\ HostOf \in [Handlers -> Processes]
    /\ KeyOf \in [Calls -> Keys]
    /\ OpOf \in [Calls -> Ops]
    /\ AboutOf \in [Calls -> Calls]
    /\ Scenarios \subseteq [Handlers -> SUBSET Calls]
    /\ None \notin Calls

ASSUME NumberAssumption ==
    /\ IsFiniteSet(Handlers)
    /\ {Ttl, MaximumActive, Window, OrganizationLimit, RecipientLimit} \subseteq Nat \ {0}
    /\ {MaxTime, MaxFaults} \subseteq Nat

VARIABLES
    now,
    vendor,           \* the vendor the calls are about, as its ETag digests it
    tag,              \* what each PATCH's client read, sent as If-Match
    row,              \* vendors, certificates and requests made through the API
    answer,           \* api_idempotency_keys
    active,           \* uploads counted by the capacity limiter of each process
    files,            \* the document store
    job,              \* the handler of each request in flight
    serves,           \* the scenario: the calls each handler meets
    faults,           \* crashes and I/O errors so far
    ever, told        \* histories: changes each call made, answers it was given

stores  == <<vendor, row, answer, files>>
history == <<ever, told>>
vars == <<now, vendor, tag, row, answer, active, files, job, serves, faults,
          ever, told>>

Phases == {"idle", "looked", "parsing", "writing", "stored", "removing", "replied"}
NoJob  == [pc |-> "idle", call |-> None, at |-> 0, file |-> 0,
           match |-> None, found |-> {}, slot |-> FALSE, closed |-> FALSE]

Init ==
    /\ now = 0
    /\ vendor = [edits |-> {}, active |-> TRUE, updatedAt |-> 0, latest |-> 0]
    /\ tag = [c \in Patches |-> None]
    /\ row = {}
    /\ answer = [k \in Keys |-> None]
    /\ active = [p \in Processes |-> 0]
    /\ files = {}
    /\ job = [h \in Handlers |-> NoJob]
    /\ serves \in Scenarios
    /\ faults = 0
    /\ ever = [c \in Calls |-> {}]
    /\ told = [c \in Calls |-> {}]

-----------------------------------------------------------------------------
(* Idempotency keys.                                                       *)

Live(k) == answer[k] # None /\ answer[k].expires > now

\* findIdempotentResponse deletes every expired key before it looks.
Purged == [k \in Keys |-> IF Live(k) THEN answer[k] ELSE None]

\* Mutant: whatever was asked with the key is answered.
ReplaysAnyRequest(c) == Live(KeyOf[c])
Replays(c)  == Live(KeyOf[c]) /\ answer[KeyOf[c]].call = c
Unknown(c)  == ~Live(KeyOf[c])

\* storeIdempotentResponse, in the transaction of the change.
Stored(c, receipt) ==
    /\ answer' = [Purged EXCEPT ![KeyOf[c]] =
                    [call |-> c, receipt |-> receipt, expires |-> now + Ttl]]
    /\ ever' = [ever EXCEPT ![c] = @ \cup {receipt}]

Tell(c, receipts) == told' = [told EXCEPT ![c] = @ \cup receipts]

-----------------------------------------------------------------------------
(* Rows.  A receipt is the number of the row a call made; an update's      *)
(* receipt is the instant and content it left behind.                      *)

NextId == Cardinality(row) + 1
NewRow(c, at, file) == [id |-> NextId, call |-> c, op |-> OpOf[c], at |-> at,
                        file |-> file, open |-> OpOf[c] = "ask"]

Closed(rs) == {[r EXCEPT !.open = FALSE] : r \in rs}

\* Mutant: the window leaves out its first instant.
MailedAfter(at) == {r \in row : r.op = "ask" /\ r.at > at - Window}

\* Certificate requests mailed in the 24 hours before an instant, limits included.
MailedSince(at)   == {r \in row : r.op = "ask" /\ r.at >= at - Window}
MailedTo(who, at) == {r \in MailedSince(at) : RecipientOf[r.call] = who}
WithinLimits(c, at) ==
    /\ Cardinality(MailedSince(at)) < OrganizationLimit
    /\ Cardinality(MailedTo(RecipientOf[c], at)) < RecipientLimit

\* Mutant: only the instant of the last update is compared.
MatchesInstant(read) == read.updatedAt = vendor.updatedAt

\* If-Match against the resource as it is in the transaction.
Matches(read) == read = vendor

\* The resource a client wants after its update: what it read, with its own edit.
Edited(c, read) == [vendor EXCEPT !.edits = read.edits \cup {c}, !.updatedAt = now,
                                  !.active = @ /\ OpOf[c] # "deactivate"]

-----------------------------------------------------------------------------
(* One process runs one thing at a time.                                   *)

Free(h) == \A g \in Handlers : HostOf[g] = HostOf[h] => job[g].pc # "looked"

Enter(h, j) == job' = [job EXCEPT ![h] = j]
Leave(h)    == Enter(h, NoJob)

\* Checks that precede the transaction; a failed one is answered at once.
Precheck(c) ==
    CASE OpOf[c] \in {"edit", "deactivate"} -> tag[c] # None     \* else 428
      [] OpOf[c] \in {"submit", "ask"}      -> vendor.active     \* else 404
      [] OTHER                              -> TRUE

\* A JSON request arrives: the first look-up.
Arrive(h, c) ==
    /\ job[h].pc = "idle" /\ Free(h) /\ OpOf[c] # "submit"
    /\ answer' = Purged
    /\ Tell(c, IF Replays(c) THEN {answer[KeyOf[c]].receipt} ELSE {})
    /\ IF Unknown(c) /\ Precheck(c)
       THEN Enter(h, [NoJob EXCEPT !.pc = "looked", !.call = c,
                                   !.at = IF OpOf[c] = "ask" THEN now ELSE 0,
                                   !.match = IF c \in Patches THEN tag[c] ELSE None])
       ELSE UNCHANGED job
    /\ UNCHANGED <<serves, now, vendor, tag, row, active, files, faults, ever>>

\* Its transaction, when an equivalent request was faster.
CommitReplay(h) ==
    LET c == job[h].call IN
    /\ job[h].pc = "looked" /\ Replays(c)
    /\ answer' = Purged
    /\ Tell(c, {answer[KeyOf[c]].receipt})
    /\ Leave(h)
    /\ UNCHANGED <<serves, now, vendor, tag, row, active, files, faults, ever>>

\* A change, its event and audit entry, and the stored response: one transaction.
Commit(h, c, receipt) ==
    /\ job[h].pc = "looked" /\ job[h].call = c /\ Unknown(c)
    /\ Stored(c, receipt)
    /\ Tell(c, {receipt})
    /\ Leave(h)
    /\ UNCHANGED <<serves, now, tag, active, files, faults>>

Looked(h, op) == job[h].pc = "looked" /\ OpOf[job[h].call] = op

CreateVendor(h) ==
    LET c == job[h].call IN
    /\ Looked(h, "create_vendor") /\ Commit(h, c, NextId)
    /\ row' = row \cup {NewRow(c, 0, 0)}
    /\ UNCHANGED vendor

\* A vendor that is no longer active loses its open requests.
PatchVendor(h) ==
    LET c == job[h].call IN
    /\ c \in Patches /\ Matches(job[h].match) /\ Commit(h, c, now)
    /\ vendor' = Edited(c, job[h].match)
    /\ row' = IF vendor'.active THEN row ELSE Closed(row)

\* createCertificateRequest reads the vendor again and counts the mailed requests.
AskCertificate(h) ==
    LET c == job[h].call IN
    /\ Looked(h, "ask") /\ vendor.active /\ WithinLimits(c, job[h].at)
    /\ Commit(h, c, NextId)
    /\ row' = row \cup {NewRow(c, job[h].at, 0)}
    /\ UNCHANGED vendor

\* A request already cancelled is answered like one cancelled now.
CancelRequest(h) ==
    LET c == job[h].call IN
    /\ Looked(h, "cancel")
    /\ \E r \in row : /\ r.call = AboutOf[c]
                      /\ \A q \in row : q.call = r.call => r.id <= q.id
                      /\ Commit(h, c, r.id)
                      /\ row' = (row \ {r}) \cup Closed({r})
    /\ UNCHANGED vendor

\* Every refusal inside the transaction rolls it back: 404, 409, 412.
Refuse(h) ==
    LET c == job[h].call IN
    /\ job[h].pc = "looked" /\ ~Replays(c)
    /\ \/ ~Unknown(c)
       \/ c \in Patches /\ ~Matches(job[h].match)
       \/ OpOf[c] = "ask" /\ ~(vendor.active /\ WithinLimits(c, job[h].at))
       \/ OpOf[c] = "cancel" /\ \A r \in row : r.call # AboutOf[c]
    /\ Leave(h)
    /\ UNCHANGED <<serves, now, stores, tag, active, faults, history>>

-----------------------------------------------------------------------------
(* Certificate uploads.                                                    *)

Slot(h, n) == active' = [active EXCEPT ![HostOf[h]] = n]
\* Mutant: each of the two events releases.
GiveAgain(h) == Slot(h, active[HostOf[h]] - 1)
Give(h)    == IF job[h].slot THEN Slot(h, active[HostOf[h]] - 1) ELSE UNCHANGED active

\* The handler has called response.json, or nobody is there to answer.
Reply(h) == IF job[h].closed THEN Leave(h)
                             ELSE Enter(h, [job[h] EXCEPT !.pc = "replied"])

\* createUploadCapacityLimiter comes before multer; a full one answers 503.
Admit(h, c) ==
    /\ job[h].pc = "idle" /\ Free(h) /\ OpOf[c] = "submit"
    /\ active[HostOf[h]] < MaximumActive
    /\ Slot(h, active[HostOf[h]] + 1)
    /\ Enter(h, [NoJob EXCEPT !.pc = "parsing", !.call = c, !.slot = TRUE])
    /\ UNCHANGED <<serves, now, stores, tag, faults, history>>

\* The form is parsed: the first look-up, the vendor, then putPdf is awaited.
Parsed(h) ==
    LET c == job[h].call IN
    /\ job[h].pc = "parsing" /\ Free(h)
    /\ answer' = Purged
    /\ Tell(c, IF Replays(c) THEN {answer[KeyOf[c]].receipt} ELSE {})
    /\ IF Unknown(c) /\ Precheck(c)
       THEN Enter(h, [job[h] EXCEPT !.pc = "writing"])
       ELSE Reply(h)
    /\ UNCHANGED <<serves, now, vendor, tag, row, active, files, faults, ever>>

\* The form or the document is refused: 400 or 413, nothing stored.
Unacceptable(h) ==
    /\ job[h].pc \in {"parsing", "writing"} /\ Free(h)
    /\ Reply(h)
    /\ UNCHANGED <<serves, now, stores, tag, active, faults, history>>

\* putPdf writes under a random key.
NewFile == CHOOSE f \in 1..(Cardinality(files) + 1) : f \notin files

PdfWritten(h) ==
    /\ job[h].pc = "writing" /\ Free(h)
    /\ files' = files \cup {NewFile}
    /\ Enter(h, [job[h] EXCEPT !.pc = "stored", !.file = NewFile])
    /\ UNCHANGED <<serves, now, vendor, tag, row, answer, active, faults, history>>

\* A write that fails half way leaves its file.
PdfHalfWritten(h) ==
    /\ job[h].pc = "writing" /\ Free(h) /\ faults < MaxFaults
    /\ files' = files \cup {NewFile}
    /\ faults' = faults + 1
    /\ Reply(h)
    /\ UNCHANGED <<serves, now, vendor, tag, row, answer, active, history>>

\* The transaction of ingestCertificate, with the second look-up at its end.
Submit(h) ==
    LET c == job[h].call IN
    /\ job[h].pc = "stored" /\ Free(h) /\ Unknown(c)
    /\ row' = row \cup {NewRow(c, job[h].at, job[h].file)}
    /\ vendor' = [vendor EXCEPT !.latest = NextId]
    /\ Stored(c, NextId)
    /\ Tell(c, IF job[h].closed THEN {} ELSE {NextId})
    /\ Reply(h)
    /\ UNCHANGED <<serves, now, tag, active, files, faults>>

\* Another request was faster, or the facts are refused: rolled back, and
\* the file is to be removed before anything is answered.
SubmitRolledBack(h) ==
    LET c == job[h].call IN
    /\ job[h].pc = "stored" /\ Free(h)
    /\ Enter(h, [job[h] EXCEPT !.pc = "removing",
                   !.found = IF Replays(c) THEN {answer[KeyOf[c]].receipt} ELSE {}])
    /\ UNCHANGED <<serves, now, stores, tag, active, faults, history>>

\* Mutant: a replayed upload keeps its file.
KeptOnReplay(h) == IF job[h].found # {} THEN files ELSE files \ {job[h].file}
Discarded(h)    == files \ {job[h].file}

Removed(h) ==
    /\ job[h].pc = "removing" /\ Free(h)
    /\ files' = Discarded(h)
    /\ Tell(job[h].call, IF job[h].closed THEN {} ELSE job[h].found)
    /\ Reply(h)
    /\ UNCHANGED <<serves, now, vendor, tag, row, answer, active, faults, ever>>

RemoveFails(h) ==
    /\ job[h].pc = "removing" /\ Free(h) /\ faults < MaxFaults
    /\ faults' = faults + 1
    /\ Reply(h)
    /\ UNCHANGED <<serves, now, stores, tag, active, history>>

\* The response's "finish" and "close" both release the slot, once.
Finish(h) ==
    /\ job[h].pc = "replied" /\ job[h].slot /\ Free(h)
    /\ Give(h)
    /\ Enter(h, [job[h] EXCEPT !.slot = FALSE])
    /\ UNCHANGED <<serves, now, stores, tag, faults, history>>

\* The connection closes, after the response or before it.  A form cut short
\* is not parsed; later the handler goes on for nobody.
Close(h) ==
    /\ job[h].pc \in Phases \ {"idle", "looked"} /\ ~job[h].closed /\ Free(h)
    /\ Give(h)
    /\ IF job[h].pc \in {"parsing", "replied"}
       THEN Leave(h)
       ELSE Enter(h, [job[h] EXCEPT !.slot = FALSE, !.closed = TRUE])
    /\ UNCHANGED <<serves, now, stores, tag, faults, history>>

-----------------------------------------------------------------------------
(* Clients, staff and the environment.                     *)

\* GET of the vendor; a client that sees its edit in place does not send it again.
ReadVendor(c) ==
    /\ c \notin vendor.edits /\ \E h \in Handlers : c \in serves[h]
    /\ tag' = [tag EXCEPT ![c] = vendor]
    /\ UNCHANGED <<serves, now, stores, active, job, faults, history>>

\* Staff make the vendor active again.
StaffReactivate ==
    /\ ~vendor.active
    /\ vendor' = [vendor EXCEPT !.active = TRUE, !.updatedAt = now]
    /\ UNCHANGED <<serves, now, tag, row, answer, active, files, job, faults, history>>

Crash(p) ==
    /\ faults < MaxFaults
    /\ faults' = faults + 1
    /\ job' = [h \in Handlers |-> IF HostOf[h] = p THEN NoJob ELSE job[h]]
    /\ active' = [active EXCEPT ![p] = 0]
    /\ UNCHANGED <<serves, now, stores, tag, history>>

Tick ==
    /\ now < MaxTime
    /\ now' = now + 1
    /\ UNCHANGED <<serves, stores, tag, active, job, faults, history>>

Handle(h) ==
    \/ \E c \in serves[h] : Arrive(h, c) \/ Admit(h, c)
    \/ CommitReplay(h) \/ Refuse(h)
    \/ CreateVendor(h) \/ PatchVendor(h) \/ AskCertificate(h) \/ CancelRequest(h)
    \/ Parsed(h) \/ Unacceptable(h) \/ PdfWritten(h) \/ PdfHalfWritten(h)
    \/ Submit(h) \/ SubmitRolledBack(h) \/ Removed(h) \/ RemoveFails(h)
    \/ Finish(h) \/ Close(h)

Next ==
    \/ \E h \in Handlers : Handle(h)
    \/ \E c \in Patches : ReadVendor(c)
    \/ StaffReactivate
    \/ \E p \in Processes : Crash(p)
    \/ Tick

Spec == Init /\ [][Next]_vars

-----------------------------------------------------------------------------
(* Properties.                                                             *)

\* The change behind an Idempotency-Key is made once while its response is
\* kept, the response is kept for its whole time, and every answer names a
\* change made for the very request that was sent, whatever crashes, retries
\* and concurrent requests do (findIdempotentResponse, storeIdempotentResponse).
Contract == INSTANCE IdempotencyContract WITH kept <- answer
ImplementsContract == Contract!Spec

\* Conditional updates: no accepted PATCH is overwritten by a client that had
\* not read it, and none is applied twice, not even when it is retried after
\* its key has expired (comment at apiV1.ts:2787).
EveryEditOnceAndKept ==
    \A c \in Patches : /\ ever[c] # {} => c \in vendor.edits
                       /\ Cardinality(ever[c]) <= 1

\* The capacity limiter counts exactly the uploads whose response is still
\* open, so it neither leaks slots nor lets more than its maximum be parsed.
CapacityExact ==
    \A p \in Processes :
        LET open(phases) == {h \in Handlers : HostOf[h] = p /\ job[h].slot
                                             /\ job[h].pc \in phases} IN
        /\ active[p] = Cardinality(open(Phases))
        /\ Cardinality({h \in Handlers : HostOf[h] = p /\ job[h].pc = "parsing"})
              <= MaximumActive

\* Every certificate has its file, shared with no other; a file without a row
\* is in the hands of an upload or was left by a crash or an I/O error.
RowFiles == {r.file : r \in row} \ {0}
FilesMatchRows ==
    /\ RowFiles \subseteq files
    /\ \A q, r \in row : q.file = r.file /\ q.file # 0 => q = r
    /\ Cardinality({f \in files \ RowFiles : \A h \in Handlers : job[h].file # f})
         <= faults * Cardinality(Handlers)

\* In no 24 hours are more requests mailed than the limits allow, though each
\* is dated before its transaction begins.
MailLimits ==
    \A r \in row : r.op = "ask" =>
        LET window == {q \in row : q.op = "ask" /\ q.at \in (r.at - Window)..r.at} IN
        /\ Cardinality(window) <= OrganizationLimit
        /\ \A q \in window : Cardinality({o \in window : RecipientOf[o.call] = RecipientOf[q.call]})
                               <= RecipientLimit
=============================================================================
