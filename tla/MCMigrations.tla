---------------------------- MODULE MCMigrations ----------------------------
(***************************************************************************)
(* Two servers and a check.  Sound databases: a new file, a foundation of  *)
(* version 1, one of version 2 with a half-made API schema, one of version *)
(* 3 with integration tables that lack the header column, a complete one   *)
(* without a ledger, and one whose first migration alone is recorded.      *)
(* Others: a table dropped after its migration was recorded, tables that   *)
(* are in the way of a new foundation, a finding that cites no row, before *)
(* and after the migrations were recorded, and a file of a later release.  *)
(***************************************************************************)
EXTENDS Migrations

CONSTANTS web, worker, check

MCStarters == {web, worker}
MCCheckers == {check}

NoRecords == [i \in Migrated |-> "absent"]
OneRow    == {[id |-> 1, active |-> TRUE]}
Complete  == {"base", "retry", "oidc", "requests", "history", "versions", "keys",
              "integration", "headers"}
Unrecorded(v, pieces, rows) ==
    [version |-> v, pieces |-> pieces, ledger |-> FALSE, records |-> NoRecords,
     rows |-> rows, cited |-> {}, sound |-> TRUE]
Recording(d, seen) ==
    [d EXCEPT !.ledger = TRUE,
              !.records = [i \in Migrated |-> IF i \in seen THEN "applied" ELSE "absent"]]
Damaged(d) == [d EXCEPT !.sound = FALSE]
Finished == Unrecorded(4, Complete, OneRow)

MCInstallations ==
    {Unrecorded(0, {}, {}),
     Unrecorded(1, {"base"}, OneRow),
     Unrecorded(2, {"base", "retry", "versions"}, OneRow),
     Unrecorded(3, Complete \ {"requests", "headers"}, OneRow),
     Finished,
     Recording(Unrecorded(4, {"base", "retry", "oidc", "requests"}, OneRow), {1})}
    \cup
    {Damaged(d) : d \in {
        Recording([Finished EXCEPT !.pieces = @ \ {"keys"}], {1, 2}),
        Unrecorded(0, {"base"}, {}),
        [Finished EXCEPT !.cited = {2}],
        [Unrecorded(3, {"base", "retry", "oidc"}, OneRow) EXCEPT !.cited = {2}],
        Recording([Finished EXCEPT !.cited = {2}], Migrated),
        [Finished EXCEPT !.version = 5]}}
=============================================================================
