------------------------- MODULE IdempotencyContract -------------------------
(***************************************************************************)
(* What an Idempotency-Key promises (docs/API.md, "Stable behavior"): the  *)
(* same key and exact request have the original response for 24 hours,     *)
(* another request with that key is refused, and so the change behind a    *)
(* key is made once while its response is kept.                            *)
(***************************************************************************)
EXTENDS Integers

CONSTANTS Keys, Calls, KeyOf, None, Ttl

VARIABLES
    now,
    kept,      \* the response kept for each key
    ever,      \* receipts of the changes each call ever made
    told       \* receipts each call was answered with

contractVars == <<now, kept, ever, told>>

Live(k) == kept[k] # None /\ kept[k].expires > now

Init ==
    /\ now = 0
    /\ kept = [k \in Keys |-> None]
    /\ ever = [c \in Calls |-> {}]
    /\ told = [c \in Calls |-> {}]

\* A response is dropped only once its time is over.
Kept(k) == kept'[k] = kept[k] \/ (kept'[k] = None /\ ~Live(k))

\* One change of one call: nothing live is kept for its key, and the response
\* that is kept from now on names the change.
Change(c, receipt) ==
    /\ ~Live(KeyOf[c])
    /\ kept'[KeyOf[c]] = [call |-> c, receipt |-> receipt, expires |-> now + Ttl]
    /\ \A k \in Keys \ {KeyOf[c]} : Kept(k)
    /\ ever' = [ever EXCEPT ![c] = @ \cup {receipt}]
    /\ now' = now

\* No change: responses may be dropped, time may pass.
Quiet ==
    /\ \A k \in Keys : Kept(k)
    /\ ever' = ever
    /\ now' \in {now, now + 1}

\* A caller only ever hears of changes made for the very request it sent.
Honest == \A c \in Calls : told[c] \subseteq told'[c] /\ told'[c] \subseteq told[c] \cup ever'[c]

Next ==
    /\ DOMAIN kept' = Keys /\ DOMAIN told' = Calls
    /\ Quiet \/ \E c \in Calls : \E receipt \in ever'[c] : Change(c, receipt)
    /\ Honest

Spec == Init /\ [][Next]_contractVars
=============================================================================
