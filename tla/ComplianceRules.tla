--------------------------- MODULE ComplianceRules ---------------------------
(***************************************************************************)
(* The evaluation of a certificate against the requirements of its         *)
(* vendor's type: src/shared/rules.ts, a pure function of a profile, a     *)
(* document and a date.  A behaviour takes one case and evaluates it.      *)
(*                                                                         *)
(* A fact read from a document is None or a value with a flag that tells   *)
(* whether a person confirmed it.  Dates are day numbers, amounts minor    *)
(* units, and a form code or a name is its normalised form, which is Blank *)
(* when nothing is left of it.  Of a finding only the status is kept: its  *)
(* code and texts follow from the branch that made it.                     *)
(***************************************************************************)
EXTENDS Integers, FiniteSets

CONSTANTS
    Cases,       \* what is evaluated: a profile, a document and a date
    None,        \* an absent fact, profile or setting
    Texts,       \* names, numbers and normalised codes
    Blank,       \* the text of a code or name without letters and digits
    PolicyIds,   \* policy rows, in the order of their ids
    EvidenceIds, \* endorsement rows, in the order of their ids
    Coverages, Umbrella,
    LimitTypes, AggregateLimits, Aggregate, Occurrence,
    MaxMoney     \* Number.MAX_SAFE_INTEGER

VARIABLES
    case,    \* the arguments of evaluateCompliance
    label    \* its result, None until it returns

vars == <<case, label>>

Labels == {"COMPLIANT", "NON_COMPLIANT", "REVIEW_REQUIRED", "NOT_APPLICABLE"}

-----------------------------------------------------------------------------
(* Documents and rules.                                                    *)

IsFact(fact, S) == fact # None /\ fact.confirmed \in BOOLEAN /\ fact.value \in S
IsOptional(fact, S) == fact # None => IsFact(fact, S)

Fields == {"INSURER_NAME", "POLICY_NUMBER"}
Levels == 0..4   \* NONE, MENTIONED, SCHEDULED, ATTACHED, HUMAN_VERIFIED

IsPolicy(p) ==
    /\ IsFact(p.coverage, Coverages)
    /\ IsOptional(p.effective, Int) /\ IsOptional(p.expiration, Int)
    /\ DOMAIN p.fields = Fields /\ DOMAIN p.limits = LimitTypes
    /\ \A f \in Fields : IsOptional(p.fields[f], Texts)
    /\ \A t \in LimitTypes : IsOptional(p.limits[t], 0..MaxMoney)

IsEndorsement(e) ==
    /\ IsOptional(e.form, Texts) /\ IsOptional(e.name, Texts)
    /\ IsFact(e.level, Levels)

IsDocument(d) ==
    /\ DOMAIN d = {"reviewed", "policies", "endorsements"}
    /\ d.reviewed \in BOOLEAN
    /\ DOMAIN d.policies \subseteq PolicyIds
    /\ \A i \in DOMAIN d.policies : IsPolicy(d.policies[i])
    /\ DOMAIN d.endorsements \subseteq EvidenceIds
    /\ \A i \in DOMAIN d.endorsements : IsEndorsement(d.endorsements[i])

IsLimitRule(l) == l.minimum \in 0..MaxMoney /\ l.stack \in BOOLEAN
                  /\ l.umbrella \in LimitTypes \cup {None}

IsRequirement(r) ==
    /\ r.coverage \in Coverages /\ r.required \in BOOLEAN
    /\ r.fields \subseteq Fields /\ r.days \in Nat
    /\ DOMAIN r.limits \subseteq LimitTypes
    /\ \A t \in DOMAIN r.limits : IsLimitRule(r.limits[t])
    /\ \A e \in r.endorsements : e.required \in BOOLEAN /\ e.minimum \in Levels \ {0}

ASSUME RuleAssumption ==
    /\ MaxMoney \in Nat
    /\ IsFiniteSet(LimitTypes) /\ {Aggregate, Occurrence} \subseteq LimitTypes
    /\ LimitTypes \cap ({"COVERAGE", "PERIOD"} \cup Fields) = {}
    /\ None \notin Labels
    /\ None \notin [value : Int \cup Coverages \cup Texts, confirmed : BOOLEAN]
    /\ PolicyIds \subseteq Nat /\ IsFiniteSet(PolicyIds)
    /\ EvidenceIds \subseteq Nat /\ IsFiniteSet(EvidenceIds)

ASSUME CaseAssumption ==
    \A c \in Cases :
      /\ c.today \in Int
      /\ IsDocument(c.document)
      /\ c.profile # None => \A r \in c.profile : IsRequirement(r)

-----------------------------------------------------------------------------
(* One requirement against one policy row.                                 *)

\* Mutant: a field marked as confirmed counts before the document is reviewed.
IsConfirmedAlone(d, fact) == fact # None /\ fact.confirmed

IsConfirmed(d, fact) == d.reviewed /\ fact # None /\ fact.confirmed

\* What an absent fact means: nothing yet, or that the document lacks it.
Undocumented(d) == IF d.reviewed THEN "FAIL" ELSE "UNKNOWN"

Verdict(passes) == IF passes THEN "PASS" ELSE "FAIL"

CoverageStatus(d, p) == IF IsConfirmed(d, p.coverage) THEN "PASS" ELSE "UNKNOWN"

FieldStatus(d, fact) ==
    IF fact = None THEN Undocumented(d)
    ELSE IF IsConfirmed(d, fact) THEN "PASS" ELSE "UNKNOWN"

\* Both boundaries are inclusive.
Spans(p, r, today) ==
    p.effective.value <= today /\ p.expiration.value >= today + r.days

PeriodStatus(r, d, p, today) ==
    IF p.effective = None \/ p.expiration = None THEN Undocumented(d)
    ELSE IF IsConfirmed(d, p.effective) /\ IsConfirmed(d, p.expiration)
    THEN Verdict(Spans(p, r, today)) ELSE "UNKNOWN"

DefaultUmbrellaLimitType(t) == IF t \in AggregateLimits THEN Aggregate ELSE Occurrence

UmbrellaLimitType(r, t) ==
    IF r.limits[t].umbrella = None THEN DefaultUmbrellaLimitType(t) ELSE r.limits[t].umbrella

\* The umbrella rows that show the limit to be added.
Umbrellas(d, u) ==
    {p \in {d.policies[i] : i \in DOMAIN d.policies} :
        p.coverage.value = Umbrella /\ p.limits[u] # None}

Unconfirmed(fact) == fact # None /\ ~fact.confirmed

Indeterminate(d, p, u) ==
    \/ ~d.reviewed
    \/ Unconfirmed(p.coverage) \/ Unconfirmed(p.limits[u])
    \/ Unconfirmed(p.effective) \/ Unconfirmed(p.expiration)

\* Mutant: an umbrella need not be in force.
UsableWhenever(r, d, p, u, today) ==
    IsConfirmed(d, p.coverage) /\ IsConfirmed(d, p.limits[u])

Usable(r, d, p, u, today) ==
    /\ IsConfirmed(d, p.coverage) /\ IsConfirmed(d, p.limits[u])
    /\ IsConfirmed(d, p.effective) /\ IsConfirmed(d, p.expiration)
    /\ Spans(p, r, today)

\* The largest usable umbrella is the one that is added.
StackedStatus(r, d, base, t, today) ==
    LET u == UmbrellaLimitType(r, t)
        all == Umbrellas(d, u)
        usable == {p \in all : Usable(r, d, p, u, today)}
        top == CHOOSE a \in {p.limits[u].value : p \in usable} :
                   \A p \in usable : p.limits[u].value <= a
    IN  IF usable = {}
        THEN IF \E p \in all : Indeterminate(d, p, u) THEN "UNKNOWN" ELSE "FAIL"
        ELSE IF base + top > MaxMoney THEN "UNKNOWN"
             ELSE Verdict(base + top >= r.limits[t].minimum)

LimitStatus(r, d, p, t, today) ==
    LET fact == p.limits[t] IN
    IF fact = None THEN Undocumented(d)
    ELSE IF ~IsConfirmed(d, fact) THEN "UNKNOWN"
    ELSE IF fact.value >= r.limits[t].minimum THEN "PASS"
    ELSE IF ~r.limits[t].stack THEN "FAIL"
    ELSE StackedStatus(r, d, fact.value, t, today)

\* The findings of a row: its coverage, the required fields, the period and
\* the limits, each with its status.
PolicyFindings(r, d, p, today) ==
    [k \in {"COVERAGE", "PERIOD"} \cup r.fields \cup DOMAIN r.limits |->
        IF k = "COVERAGE" THEN CoverageStatus(d, p)
        ELSE IF k = "PERIOD" THEN PeriodStatus(r, d, p, today)
        ELSE IF k \in r.fields THEN FieldStatus(d, p.fields[k])
        ELSE LimitStatus(r, d, p, k, today)]

-----------------------------------------------------------------------------
(* One requirement against the document.                                   *)

Count(findings, status) == Cardinality({k \in DOMAIN findings : findings[k] = status})

Candidates(r, d) == {i \in DOMAIN d.policies : d.policies[i].coverage.value = r.coverage}

FindingsOf(r, d, i, today) == PolicyFindings(r, d, d.policies[i], today)

\* Mutant: the row with the fewest open questions, before the one with the
\* fewest failures.
PrecedesByUnknown(r, d, today, i, j) ==
    LET fails(k) == Count(FindingsOf(r, d, k, today), "FAIL")
        unknowns(k) == Count(FindingsOf(r, d, k, today), "UNKNOWN")
    IN  \/ unknowns(i) < unknowns(j)
        \/ unknowns(i) = unknowns(j) /\ fails(i) < fails(j)
        \/ unknowns(i) = unknowns(j) /\ fails(i) = fails(j) /\ i <= j

\* Mutant: the first row by id.
PrecedesById(r, d, today, i, j) == i <= j

\* Fewer failures, then fewer open questions, then the smaller id.  A row
\* without either comes first, and one with questions only next: the two
\* tests the source makes before it counts say no more than this order.
Precedes(r, d, today, i, j) ==
    LET fails(k) == Count(FindingsOf(r, d, k, today), "FAIL")
        unknowns(k) == Count(FindingsOf(r, d, k, today), "UNKNOWN")
    IN  \/ fails(i) < fails(j)
        \/ fails(i) = fails(j) /\ unknowns(i) < unknowns(j)
        \/ fails(i) = fails(j) /\ unknowns(i) = unknowns(j) /\ i <= j

Selected(r, d, today) ==
    CHOOSE i \in Candidates(r, d) : \A j \in Candidates(r, d) : Precedes(r, d, today, i, j)

\* A rule with a form code is matched by code alone, whatever its name.
Matches(e, found) ==
    IF e.form # None THEN found.form # None /\ found.form.value = e.form
    ELSE /\ None \notin {e.name, found.name} /\ e.name # Blank
         /\ found.name.value = e.name

MatchingRows(e, d) == {i \in DOMAIN d.endorsements : Matches(e, d.endorsements[i])}

\* The strongest matching row, confirmed or not; of equal ones the first.
Best(e, d) ==
    LET level(i) == d.endorsements[i].level.value
    IN  CHOOSE i \in MatchingRows(e, d) : \A j \in MatchingRows(e, d) :
            level(i) > level(j) \/ (level(i) = level(j) /\ i <= j)

IdentityConfirmed(d, found) ==
    /\ found.form = None \/ IsConfirmed(d, found.form)
    /\ found.name = None \/ IsConfirmed(d, found.name)

EndorsementStatus(e, d) ==
    LET best == d.endorsements[Best(e, d)] IN
    IF ~e.required THEN "NOT_APPLICABLE"
    ELSE IF MatchingRows(e, d) = {} THEN Undocumented(d)
    ELSE IF IdentityConfirmed(d, best) /\ IsConfirmed(d, best.level)
    THEN Verdict(best.level.value >= e.minimum) ELSE "UNKNOWN"

\* The statuses of all findings of one requirement.  Endorsements are looked
\* at only where the coverage is on the document.
CoverageFindings(r, d, today) ==
    LET chosen == FindingsOf(r, d, Selected(r, d, today), today) IN
    IF ~r.required THEN {"NOT_APPLICABLE"}
    ELSE IF Candidates(r, d) = {} THEN {Undocumented(d)}
    ELSE {chosen[k] : k \in DOMAIN chosen} \cup {EndorsementStatus(e, d) : e \in r.endorsements}

Findings(profile, d, today) ==
    IF profile = None THEN {"UNKNOWN"}
    ELSE UNION {CoverageFindings(r, d, today) : r \in profile}

Label(statuses) ==
    IF "FAIL" \in statuses THEN "NON_COMPLIANT"
    ELSE IF "UNKNOWN" \in statuses THEN "REVIEW_REQUIRED"
    ELSE IF "PASS" \in statuses THEN "COMPLIANT" ELSE "NOT_APPLICABLE"

EvaluateCompliance(profile, d, today) == Label(Findings(profile, d, today))

-----------------------------------------------------------------------------
Init == case \in Cases /\ label = None

Evaluate ==
    /\ label = None
    /\ label' = EvaluateCompliance(case.profile, case.document, case.today)
    /\ UNCHANGED case

Next == Evaluate
Spec == Init /\ [][Next]_vars

-----------------------------------------------------------------------------
(* What the evaluation promises, without its selections and branches.      *)

Known(fact) == fact # None /\ fact.confirmed

InForce(p, r, today) == Known(p.effective) /\ Known(p.expiration) /\ Spans(p, r, today)

Enough(r, d, p, t, today) ==
    LET rule == r.limits[t]
        u == UmbrellaLimitType(r, t)
    IN  /\ Known(p.limits[t])
        /\ \/ p.limits[t].value >= rule.minimum
           \/ /\ rule.stack
              /\ \E q \in Umbrellas(d, u) :
                    /\ Known(q.coverage) /\ Known(q.limits[u]) /\ InForce(q, r, today)
                    /\ p.limits[t].value + q.limits[u].value \in rule.minimum..MaxMoney

Meets(r, d, p, today) ==
    /\ Known(p.coverage) /\ InForce(p, r, today)
    /\ \A f \in r.fields : Known(p.fields[f])
    /\ \A t \in DOMAIN r.limits : Enough(r, d, p, t, today)

Endorsed(e, d) ==
    \E i \in DOMAIN d.endorsements :
        LET found == d.endorsements[i] IN
        /\ Matches(e, found) /\ Known(found.level) /\ found.level.value >= e.minimum
        /\ found.form = None \/ Known(found.form)
        /\ found.name = None \/ Known(found.name)

Satisfied(r, d, today) ==
    /\ \E i \in Candidates(r, d) : Meets(r, d, d.policies[i], today)
    /\ \A e \in r.endorsements : e.required => Endorsed(e, d)

Required == {r \in case.profile : r.required}

Proven ==
    /\ case.document.reviewed
    /\ \A r \in Required : Satisfied(r, case.document, case.today)

CanOverflow(r, d, t) ==
    LET u == UmbrellaLimitType(r, t) IN
    /\ r.limits[t].stack
    /\ \E i \in Candidates(r, d), q \in Umbrellas(d, u) :
          /\ d.policies[i].limits[t] # None
          /\ d.policies[i].limits[t].value + q.limits[u].value > MaxMoney

Overflows ==
    \E r \in Required : \E t \in DOMAIN r.limits : CanOverflow(r, case.document, t)

\* The document once a person has confirmed all it says.
ConfirmedFact(fact) ==
    IF fact = None THEN None ELSE [value |-> fact.value, confirmed |-> TRUE]
ConfirmedPolicy(p) ==
    [coverage |-> ConfirmedFact(p.coverage),
     fields |-> [f \in DOMAIN p.fields |-> ConfirmedFact(p.fields[f])],
     effective |-> ConfirmedFact(p.effective), expiration |-> ConfirmedFact(p.expiration),
     limits |-> [t \in DOMAIN p.limits |-> ConfirmedFact(p.limits[t])]]
ConfirmedEvidence(e) ==
    [form |-> ConfirmedFact(e.form), name |-> ConfirmedFact(e.name),
     level |-> ConfirmedFact(e.level)]
Confirmed(d) ==
    [reviewed |-> TRUE,
     policies |-> [i \in DOMAIN d.policies |-> ConfirmedPolicy(d.policies[i])],
     endorsements |-> [i \in DOMAIN d.endorsements |-> ConfirmedEvidence(d.endorsements[i])]]

Stacks == \E r \in Required : \E t \in DOMAIN r.limits : r.limits[t].stack

\* The document with its policy rows under other ids.
Renumbered(d, f) ==
    [d EXCEPT !.policies = [j \in {f[i] : i \in DOMAIN d.policies} |->
                               d.policies[CHOOSE i \in DOMAIN d.policies : f[i] = j]]]
Renumberings == {f \in [PolicyIds -> PolicyIds] : \A i, j \in PolicyIds : f[i] = f[j] => i = j}

-----------------------------------------------------------------------------
(* Properties.                                                             *)

\* Before a person has reviewed the document as a whole nothing is decided,
\* whatever single facts are marked as: neither compliance nor a deficiency.
NothingUnconfirmedDecides ==
    label \in {"COMPLIANT", "NON_COMPLIANT"} => case.document.reviewed

\* A document is called compliant only if, for every required coverage, one
\* single row of confirmed facts meets every demand and every required
\* endorsement has confirmed evidence of its level.
CompliantIsProven ==
    label = "COMPLIANT" => case.profile # None /\ Required # {} /\ Proven

\* A document is called deficient only if its confirmed facts do not prove
\* it compliant, and one that is confirmed throughout is left undecided only
\* for a sum of amounts beyond the safe integers.
ReviewedIsDecided ==
    case.profile # None =>
        /\ label = "NON_COMPLIANT" => ~Proven
        /\ label = "REVIEW_REQUIRED" /\ case.document = Confirmed(case.document) => Overflows

\* Where umbrella stacking is off, as the application always leaves it, a
\* decision rests on what is already confirmed: to confirm the rest of the
\* document as it stands never changes it.
VerdictSurvivesReview ==
    label \in {"COMPLIANT", "NON_COMPLIANT"} /\ ~Stacks =>
        EvaluateCompliance(case.profile, Confirmed(case.document), case.today) = label

\* The order in which the policy rows are numbered never changes the label.
PolicyOrderIrrelevant ==
    label # None => \A f \in Renumberings :
        EvaluateCompliance(case.profile, Renumbered(case.document, f), case.today) = label
=============================================================================
