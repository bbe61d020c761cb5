------------------------ MODULE MCCertificateReview ------------------------
(* Small instances of CertificateReview for TLC. *)
EXTENDS CertificateReview, TLC

CONSTANTS v1, t1, t2, gl, wc, ann, bob, portal, none, e1, e2

Asked(required, minimum) == [required |-> required, minimum |-> minimum]

\* A profile that asks little and one that asks more, of both rules.
MCProfiles == {gl :> Asked(TRUE, 1) @@ wc :> Asked(FALSE, 1),
               gl :> Asked(TRUE, 2) @@ wc :> Asked(TRUE, 1)}

\* A document that satisfies both profiles, and two that satisfy the first only,
\* one of them just on the first day: of the second profile, this one fails both
\* rules, and the other fails one and leaves one unclear.
MCDocuments == {[amount |-> (gl :> 2 @@ wc :> 1), unclear |-> {}, until |-> 1],
                [amount |-> (gl :> 1 @@ wc :> 0), unclear |-> {}, until |-> 0],
                [amount |-> (gl :> 1 @@ wc :> 1), unclear |-> {wc}, until |-> 1]}

Symmetry == Permutations({ann, bob}) \cup Permutations({t1, t2}) \cup Permutations({e1, e2})
=============================================================================
