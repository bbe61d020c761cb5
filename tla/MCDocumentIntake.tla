--------------------------- MODULE MCDocumentIntake ---------------------------
(* An instance of DocumentIntake for TLC: a package of two pages of which one   *)
(* is scanned, and a one-page form without anything in it.                      *)
EXTENDS DocumentIntake

CONSTANTS d1, d2, rae

Pages       == d1 :> 2 @@ d2 :> 1
ScannedPages == d1 :> 1 @@ d2 :> 0

Package ==
    [named |-> TRUE, mentioned |-> {"Additional insured"},
     policies |-> <<[cover |-> "UMBRELLA_EXCESS_LIABILITY",
                     limits |-> "EACH_OCCURRENCE" :> 550 @@ "AGGREGATE" :> 900]>>,
     endorsements |-> <<[name |-> "CG 20 10", level |-> "SCHEDULED"]>>]

Nothing == [named |-> FALSE, mentioned |-> {}, policies |-> <<>>, endorsements |-> <<>>]

ParserFinds == d1 :> Package @@ d2 :> Nothing

Amounts  == {Unreadable, <<7, 5>>}
PageList == {<<2>>, <<1, 1>>}
=============================================================================
