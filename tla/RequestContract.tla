--------------------------- MODULE RequestContract ---------------------------
(***************************************************************************)
(* What a tracked certificate request promises to the people who use it,   *)
(* without workers, leases, retries or clocks: it is opened once, closes   *)
(* once and for good, its invitation mail is settled at most once, and the *)
(* certificate recorded for it never changes.                              *)
(***************************************************************************)
CONSTANTS Requests, Certificates, None

VARIABLES
    phase,     \* where each request stands
    mail,      \* its invitation mail; pending means the link can still be recovered
    receipt    \* the certificate that answered it

contractVars == <<phase, mail, receipt>>

Final == {"submitted", "cancelled", "expired"}

Init ==
    /\ phase = [r \in Requests |-> "absent"]
    /\ mail = [r \in Requests |-> "none"]
    /\ receipt = [r \in Requests |-> None]

Same(r) == /\ phase'[r] = phase[r]
           /\ mail'[r] = mail[r]
           /\ receipt'[r] = receipt[r]

Open(r) ==
    /\ phase[r] = "absent" /\ phase'[r] = "open"
    /\ mail[r] = "none" /\ mail'[r] \in {"none", "pending"}
    /\ receipt'[r] = receipt[r]

\* The mail server answered, or the worker gave up on the mail.
Settle(r) ==
    /\ phase[r] = "open" /\ phase'[r] = "open"
    /\ mail[r] = "pending" /\ mail'[r] \in {"accepted", "failed"}
    /\ receipt'[r] = receipt[r]

\* Closing ends a pending mail; a settled one keeps its outcome.
Close(r) ==
    /\ phase[r] = "open" /\ phase'[r] \in Final
    /\ IF mail[r] = "pending" THEN mail'[r] \in {"void", "failed"}
                              ELSE mail'[r] = mail[r]
    /\ IF phase'[r] = "submitted" THEN receipt[r] = None /\ receipt'[r] \in Certificates
                                  ELSE receipt'[r] = receipt[r]

\* One transaction may move several requests (a vendor is deactivated, a
\* worker finds several links expired).
Next ==
    /\ DOMAIN phase' = Requests /\ DOMAIN mail' = Requests /\ DOMAIN receipt' = Requests
    /\ \A r \in Requests : Same(r) \/ Open(r) \/ Settle(r) \/ Close(r)

Spec == Init /\ [][Next]_contractVars
=============================================================================
