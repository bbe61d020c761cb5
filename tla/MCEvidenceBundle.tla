-------------------------- MODULE MCEvidenceBundle --------------------------
(* A bounded instance of EvidenceBundle for TLC. *)
EXTENDS EvidenceBundle, TLC

Held(coverage, level, pages) == [coverage |-> coverage, level |-> level, pages |-> pages]
Plain  == Held(2, "MENTIONED", {})
First  == Held(1, "HUMAN_VERIFIED", {1})
Last   == Held(2, "ATTACHED", {2})
Bare   == Held(1, "ATTACHED", {})

MCSubmissions ==
    {[status |-> "UNCONFIRMED", shown |-> 2, cites |-> {1, 2}, policies |-> <<Plain, First>>],
     [status |-> "UNCONFIRMED", shown |-> 0, cites |-> {}, policies |-> <<Bare>>],
     [status |-> "CONFIRMED", shown |-> 1, cites |-> {1}, policies |-> <<First>>]}

\* One corrects a level, one adds a page, one takes the evidence away.
MCCorrections == {<<First, Last>>, <<Plain>>}
=============================================================================
