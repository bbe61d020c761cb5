--------------------------- MODULE DeliveryContract ---------------------------
(***************************************************************************)
(* What the outbox promises of each delivery, without leases, attempts or  *)
(* workers: it is decided when its event is published, it is done only if  *)
(* the receiver took it and then stays done, and one that was given up is  *)
(* due again only because somebody asked for it.                           *)
(***************************************************************************)
CONSTANTS Events, Endpoints

VARIABLES
    announced,   \* events that happened
    phase,       \* of each delivery: none, due, done or dead
    got,         \* deliveries the receiver took, perhaps more than once
    asked        \* how often each delivery was asked for again

contractVars == <<announced, phase, got, asked>>

Deliveries == Events \X Endpoints

Init ==
    /\ announced = {} /\ got = {}
    /\ phase = [d \in Deliveries |-> "none"]
    /\ asked = [d \in Deliveries |-> 0]

Same(d)     == phase'[d] = phase[d]
Announce(d) == /\ d[1] \notin announced /\ d[1] \in announced'
               /\ phase[d] = "none" /\ phase'[d] = "due"
Finish(d)   == phase[d] = "due" /\ phase'[d] = "done" /\ d \in got
GiveUp(d)   == phase[d] = "due" /\ phase'[d] = "dead"
AskAgain(d) == phase[d] \in {"due", "dead"} /\ phase'[d] = "due" /\ asked'[d] # asked[d]

\* The receiver never takes what was not announced, and nothing is untold.
Next ==
    /\ announced \subseteq announced'
    /\ got \subseteq got' /\ \A d \in got' \ got : phase[d] # "none"
    /\ DOMAIN phase' = Deliveries
    /\ \A d \in Deliveries : \/ Same(d) \/ Announce(d) \/ Finish(d)
                             \/ GiveUp(d) \/ AskAgain(d)

Spec == Init /\ [][Next]_contractVars
=============================================================================
