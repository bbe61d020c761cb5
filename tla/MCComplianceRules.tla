------------------------- MODULE MCComplianceRules -------------------------
(***************************************************************************)
(* Cases for ComplianceRules: rows of a liability policy that deviate from *)
(* a sufficient one in any two respects, in pairs; beside an insufficient  *)
(* one, pairs of umbrella rows; and pairs of endorsement rows.             *)
(***************************************************************************)
EXTENDS ComplianceRules

Yes(v)   == [value |-> v, confirmed |-> TRUE]
Maybe(v) == [value |-> v, confirmed |-> FALSE]

Today == 10
Types == {"EACH_OCCURRENCE", "GENERAL_AGGREGATE", "AGGREGATE"}
NoLimits == [t \in Types |-> None]
Period(from, to) == [effective |-> from, expiration |-> to]
Whole == Period(Yes(10), Yes(15))
Periods == {Whole, Period(Yes(0), Yes(14)), Period(Yes(11), Yes(20)),
            Period(Maybe(0), Yes(20)), Period(Yes(0), None)}

Row(coverage, number, period, limits) ==
    [coverage |-> coverage,
     fields |-> [INSURER_NAME |-> Yes("text"), POLICY_NUMBER |-> number],
     effective |-> period.effective, expiration |-> period.expiration, limits |-> limits]

Liability(coverage, number, period, each) ==
    Row(coverage, number, period, [NoLimits EXCEPT !["EACH_OCCURRENCE"] = each])

Good == Liability(Yes("GENERAL"), Yes("text"), Whole, Yes(2))

Deviations(p) == Cardinality({f \in {"coverage", "fields", "expiration", "limits"} : p[f] # Good[f]})

Rows == {p \in {Liability(coverage, number, period, each) :
                  coverage \in {Yes("GENERAL"), Maybe("GENERAL")},
                  number \in {None, Yes("text")},
                  period \in Periods,
                  each \in {None, Maybe(1), Maybe(2), Yes(1), Yes(2)}} : Deviations(p) <= 2}

UmbrellaRows ==
    {Row(coverage, None, period, [NoLimits EXCEPT !["EACH_OCCURRENCE"] = each]) :
        coverage \in {Yes("UMBRELLA"), Maybe("UMBRELLA")},
        period \in Periods \ {Period(Yes(11), Yes(20))},
        each \in {None, Maybe(3), Yes(1), Yes(3), Yes(4)}}

Evidence == [form : {None, Yes("CG")},
             name : {None, Yes("INSURED"), Maybe("INSURED"), Yes(Blank)},
             level : {Yes(1), Yes(3), Maybe(3)}]

Document(reviewed, policies, endorsements) ==
    [reviewed |-> reviewed, policies |-> policies, endorsements |-> endorsements]

NoRows == [i \in {} |-> None]

Rule(minimum, stack, umbrella) == [minimum |-> minimum, stack |-> stack, umbrella |-> umbrella]
Endorsement(form, name, minimum) ==
    [form |-> form, name |-> name, minimum |-> minimum, required |-> TRUE]

Liable(days, rule, endorsements) ==
    [coverage |-> "GENERAL", required |-> TRUE, fields |-> {"INSURER_NAME", "POLICY_NUMBER"},
     days |-> days, limits |-> [t \in {"EACH_OCCURRENCE"} |-> rule], endorsements |-> endorsements]

Waived == [Liable(0, Rule(2, FALSE, None), {}) EXCEPT !.required = FALSE]
Excess == [coverage |-> "UMBRELLA", required |-> TRUE, fields |-> {}, days |-> 0,
           limits |-> [t \in {"EACH_OCCURRENCE"} |-> Rule(3, FALSE, None)], endorsements |-> {}]

Plain == Rule(2, FALSE, None)

Case(profile, document) == [profile |-> profile, document |-> document, today |-> Today]

Pairs == {pair \in Rows \X Rows : Deviations(pair[1]) + Deviations(pair[2]) \in 1..3}

PairCases ==
    {Case(profile, Document(TRUE, pair, NoRows)) :
        pair \in Pairs, profile \in {{Liable(0, Plain, {})}, {Liable(5, Plain, {})}}}

SingleCases ==
    {Case(profile, Document(reviewed, [i \in ids |-> p], rows)) :
        reviewed \in BOOLEAN, ids \in {{}, {2}}, p \in Rows \cup UmbrellaRows,
        rows \in {NoRows, <<[form |-> Yes("CG"), name |-> None, level |-> Yes(3)]>>},
        profile \in {None, {Waived}, {Liable(5, Plain, {})}, {Liable(5, Plain, {}), Excess},
                     {Waived, Liable(0, Plain, {Endorsement("CG", None, 1)})}}}

Short == Liability(Yes("GENERAL"), Yes("text"), Whole, Yes(1))

UmbrellaCases ==
    {Case(profile, Document(TRUE, <<p, q, Short>>, NoRows)) :
        p \in UmbrellaRows, q \in UmbrellaRows,
        profile \in {{Liable(5, Rule(4, TRUE, None), {})},
                     {Liable(0, Rule(3, TRUE, "AGGREGATE"), {}), Excess}}}

EndorsementCases ==
    {Case({Liable(0, Plain, {e, [e EXCEPT !.required = FALSE]})}, Document(TRUE, <<Good>>, rows)) :
        e \in {Endorsement("CG", None, 1), Endorsement("CG", "INSURED", 3),
               Endorsement(None, "INSURED", 3), Endorsement(None, Blank, 1)},
        rows \in Evidence \X Evidence}

AllCases == UNION {PairCases, SingleCases, UmbrellaCases, EndorsementCases}
=============================================================================
