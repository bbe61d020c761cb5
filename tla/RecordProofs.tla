-------------------------- MODULE RecordProofs --------------------------
(***************************************************************************)
(* Proofs about what a stored certificate is worth: ComplianceRules, which *)
(* evaluates it, for every set of profiles, documents and dates; and       *)
(* EvidenceBundle, which keeps and exports it, for any certificates,       *)
(* staff, submissions and corrections, any length of the chain and any     *)
(* number of bundles.  The two share no state.                             *)
(***************************************************************************)
EXTENDS ComplianceRules, EvidenceBundle, FiniteSetTheorems, SequenceTheorems,
        WellFoundedInduction, TLAPS

-----------------------------------------------------------------------------
(* Least elements, for the three choices of the evaluation.                *)

\* A set of natural numbers has a least element.
LEMMA LeastNatural ==
    ASSUME NEW T \in SUBSET Nat, T # {}
    PROVE  \E x \in T : \A y \in T : x <= y
<1>1. \E x \in T : \A y \in T : <<y, x>> \notin OpToRel(<, Nat)
  BY NatLessThanWellFounded, WFMin, Zenon
<1>2. PICK x \in T : \A y \in T : <<y, x>> \notin OpToRel(<, Nat)
  BY <1>1
<1>3. ASSUME NEW y \in T PROVE x <= y
  <2>1. ~(y < x)
    <3>1. ~(<<y, x>> \in {ss \in Nat \X Nat : ss[1] < ss[2]})
      BY <1>2, Zenon DEF OpToRel
    <3> QED BY <3>1
  <2> QED BY <2>1
<1> QED BY <1>3

\* Of the members of a set one has the least value of a function.
LEMMA LeastValue ==
    ASSUME NEW S, S # {}, NEW f, \A i \in S : f[i] \in Nat
    PROVE  \E i \in S : \A j \in S : f[i] <= f[j]
<1> DEFINE T == {f[i] : i \in S}
<1>1. PICK x \in T : \A y \in T : x <= y
  BY LeastNatural
<1> QED BY <1>1

\* The same for an order by a first value, then a second, then a third.
LEMMA LeastOfThree ==
    ASSUME NEW S, S # {}, NEW f, NEW g, NEW h,
           \A i \in S : f[i] \in Nat /\ g[i] \in Nat /\ h[i] \in Nat
    PROVE  \E i \in S : \A j \in S :
              \/ f[i] < f[j]
              \/ f[i] = f[j] /\ g[i] < g[j]
              \/ f[i] = f[j] /\ g[i] = g[j] /\ h[i] <= h[j]
<1>1. PICK a \in S : \A j \in S : f[a] <= f[j]
  BY LeastValue
<1> DEFINE A == {i \in S : f[i] = f[a]}
<1>2. PICK b \in A : \A j \in A : g[b] <= g[j]
  BY LeastValue
<1> DEFINE B == {i \in A : g[i] = g[b]}
<1>3. PICK c \in B : \A j \in B : h[c] <= h[j]
  BY LeastValue
<1>4. ASSUME NEW j \in S
      PROVE  \/ f[c] < f[j]
             \/ f[c] = f[j] /\ g[c] < g[j]
             \/ f[c] = f[j] /\ g[c] = g[j] /\ h[c] <= h[j]
  BY <1>1, <1>2, <1>3
<1> QED BY <1>4

\* Of the usable umbrella rows one shows the largest limit.
LEMMA TopExists ==
    ASSUME NEW rows, rows # {}, NEW u, \A p \in rows : p.limits[u].value \in 0..MaxMoney
    PROVE  \E a \in {p.limits[u].value : p \in rows} : \A p \in rows : p.limits[u].value <= a
<1> DEFINE f == [p \in rows |-> MaxMoney - p.limits[u].value]
<1>1. \A p \in rows : f[p] \in Nat
  BY RuleAssumption
<1>2. PICK q \in rows : \A p \in rows : f[q] <= f[p]
  BY <1>1, LeastValue
<1> DEFINE a == q.limits[u].value
<1>3. ASSUME NEW p \in rows PROVE p.limits[u].value <= a
  <2>1. MaxMoney - a <= MaxMoney - p.limits[u].value
    BY <1>2
  <2> QED BY <2>1, RuleAssumption
<1> QED BY <1>3

-----------------------------------------------------------------------------
(* The three choices.                                                      *)

\* The findings of a row are finitely many, so their counts are numbers.
LEMMA FindingsFinite ==
    ASSUME NEW r, IsRequirement(r), NEW d, NEW i, NEW today, NEW status
    PROVE  IsFiniteSet({k \in DOMAIN FindingsOf(r, d, i, today) :
                          FindingsOf(r, d, i, today)[k] = status})
<1> DEFINE findings == FindingsOf(r, d, i, today)
<1>1. IsFiniteSet(Fields) /\ IsFiniteSet({"COVERAGE", "PERIOD"})
  <2>1. ASSUME NEW a, NEW b PROVE IsFiniteSet({a, b})
    <3>1. {a, b} = {a} \cup {b}
      OBVIOUS
    <3>2. IsFiniteSet({a}) /\ IsFiniteSet({b})
      BY FS_Singleton
    <3> QED BY <3>1, <3>2, FS_Union
  <2> QED BY <2>1 DEF Fields
<1>2. IsFiniteSet(r.fields) /\ IsFiniteSet(DOMAIN r.limits)
  BY <1>1, FS_Subset, RuleAssumption DEF IsRequirement
<1>3. IsFiniteSet({"COVERAGE", "PERIOD"} \cup r.fields \cup DOMAIN r.limits)
  BY <1>1, <1>2, FS_Union
<1>4. DOMAIN findings = {"COVERAGE", "PERIOD"} \cup r.fields \cup DOMAIN r.limits
  BY DEF FindingsOf, PolicyFindings
<1> HIDE DEF findings
<1>5. IsFiniteSet({k \in DOMAIN findings : findings[k] = status})
  BY <1>3, <1>4, FS_Subset
<1> QED BY <1>5 DEF findings

\* The counts are numbers.
LEMMA CountType ==
    ASSUME NEW r, IsRequirement(r), NEW d, NEW i, NEW today, NEW status
    PROVE  Count(FindingsOf(r, d, i, today), status) \in Nat
<1> DEFINE S == {k \in DOMAIN FindingsOf(r, d, i, today) :
                    FindingsOf(r, d, i, today)[k] = status}
<1>1. IsFiniteSet(S)
  BY FindingsFinite
<1> QED BY <1>1, FS_CardinalityType DEF Count

\* The row that is selected is one of the candidates and no other precedes it.
LEMMA SelectedFirst ==
    ASSUME NEW r, IsRequirement(r), NEW d, IsDocument(d), NEW today, Candidates(r, d) # {}
    PROVE  /\ Selected(r, d, today) \in Candidates(r, d)
           /\ \A j \in Candidates(r, d) : Precedes(r, d, today, Selected(r, d, today), j)
<1> DEFINE S == Candidates(r, d)
           f == [i \in S |-> Count(FindingsOf(r, d, i, today), "FAIL")]
           g == [i \in S |-> Count(FindingsOf(r, d, i, today), "UNKNOWN")]
           h == [i \in S |-> i]
<1>1. \A i \in S : f[i] \in Nat /\ g[i] \in Nat /\ h[i] \in Nat
  <2>1. \A i \in S : i \in Nat
    BY RuleAssumption DEF Candidates, IsDocument
  <2> QED BY <2>1, CountType
<1>2. \E i \in S : \A j \in S :
              \/ f[i] < f[j]
              \/ f[i] = f[j] /\ g[i] < g[j]
              \/ f[i] = f[j] /\ g[i] = g[j] /\ h[i] <= h[j]
  <2> HIDE DEF S, f, g, h
  <2> QED BY <1>1, LeastOfThree DEF S
<1>3. \E i \in S : \A j \in S : Precedes(r, d, today, i, j)
  BY <1>2 DEF Precedes
<1> QED BY <1>3 DEF Selected

\* The best endorsement row matches, and none that matches is of a higher level.
LEMMA BestFirst ==
    ASSUME NEW e, NEW d, IsDocument(d), MatchingRows(e, d) # {}
    PROVE  /\ Best(e, d) \in MatchingRows(e, d)
           /\ \A j \in MatchingRows(e, d) :
                d.endorsements[j].level.value <= d.endorsements[Best(e, d)].level.value
<1> DEFINE S == MatchingRows(e, d)
           level(i) == d.endorsements[i].level.value
           f == [i \in S |-> 4 - level(i)]
           h == [i \in S |-> i]
<1>1. \A i \in S : level(i) \in 0..4 /\ i \in Nat
  BY RuleAssumption DEF MatchingRows, IsDocument, IsEndorsement, IsFact, Levels
<1>2. \A i \in S : f[i] \in Nat /\ h[i] \in Nat
  <2> HIDE DEF S, level
  <2> QED BY <1>1
<1>3. \E i \in S : \A j \in S :
              \/ f[i] < f[j]
              \/ f[i] = f[j] /\ h[i] < h[j]
              \/ f[i] = f[j] /\ h[i] = h[j] /\ h[i] <= h[j]
  <2> HIDE DEF S, f, h
  <2> QED BY <1>2, LeastOfThree DEF S
<1>4. PICK i \in S : \A j \in S : level(i) > level(j) \/ (level(i) = level(j) /\ i <= j)
  <2> HIDE DEF S, level
  <2> QED BY <1>1, <1>3
<1>5. /\ Best(e, d) \in S
      /\ \A j \in S : level(Best(e, d)) > level(j)
                      \/ (level(Best(e, d)) = level(j) /\ Best(e, d) <= j)
  BY <1>4 DEF Best
<1> HIDE DEF level, S
<1>6. \A j \in S : level(j) <= level(Best(e, d))
  BY <1>1, <1>5
<1> QED BY <1>5, <1>6 DEF S, level

-----------------------------------------------------------------------------
(* One row.                                                                *)

\* The rows that are read as umbrellas, and what is read from them.
LEMMA UmbrellaRows ==
    ASSUME NEW r, IsRequirement(r), NEW d, IsDocument(d), NEW t \in DOMAIN r.limits
    PROVE  /\ UmbrellaLimitType(r, t) \in LimitTypes
           /\ \A q \in Umbrellas(d, UmbrellaLimitType(r, t)) :
                q.limits[UmbrellaLimitType(r, t)].value \in 0..MaxMoney
<1>1. UmbrellaLimitType(r, t) \in LimitTypes
  BY RuleAssumption
  DEF IsRequirement, IsLimitRule, UmbrellaLimitType, DefaultUmbrellaLimitType
<1>2. ASSUME NEW q \in Umbrellas(d, UmbrellaLimitType(r, t))
      PROVE  q.limits[UmbrellaLimitType(r, t)].value \in 0..MaxMoney
  BY <1>1, <1>2 DEF Umbrellas, IsDocument, IsPolicy, IsOptional, IsFact
<1> QED BY <1>1, <1>2

\* The usable umbrella rows of a document, for one limit.
UsableRows(r, d, t, today) ==
    {q \in Umbrellas(d, UmbrellaLimitType(r, t)) :
        Usable(r, d, q, UmbrellaLimitType(r, t), today)}

\* The amount that is added is that of a usable row, and the largest.
Top(r, d, t, today) ==
    LET u == UmbrellaLimitType(r, t)
    IN  CHOOSE a \in {q.limits[u].value : q \in UsableRows(r, d, t, today)} :
            \A q \in UsableRows(r, d, t, today) : q.limits[u].value <= a

\* The amount added is that of a usable row, and no usable row has a larger one.
LEMMA TopRow ==
    ASSUME NEW r, IsRequirement(r), NEW d, IsDocument(d), NEW t \in DOMAIN r.limits, NEW today,
           UsableRows(r, d, t, today) # {}
    PROVE  /\ \E q \in UsableRows(r, d, t, today) :
                Top(r, d, t, today) = q.limits[UmbrellaLimitType(r, t)].value
           /\ \A q \in UsableRows(r, d, t, today) :
                q.limits[UmbrellaLimitType(r, t)].value <= Top(r, d, t, today)
<1> DEFINE rows == UsableRows(r, d, t, today)
           u == UmbrellaLimitType(r, t)
<1>1. \A q \in rows : q.limits[u].value \in 0..MaxMoney
  BY UmbrellaRows DEF UsableRows
<1>2. \E a \in {q.limits[u].value : q \in rows} : \A q \in rows : q.limits[u].value <= a
  <2> HIDE DEF rows, u
  <2> QED BY <1>1, TopExists DEF rows
<1>3. /\ Top(r, d, t, today) \in {q.limits[u].value : q \in rows}
      /\ \A q \in rows : q.limits[u].value <= Top(r, d, t, today)
  BY <1>2 DEF Top
<1> QED BY <1>3

\* The status of a stacked limit, in these terms.
LEMMA StackedCases ==
    ASSUME NEW r, NEW d, NEW base, NEW t, NEW today
    PROVE  LET rows == UsableRows(r, d, t, today)
               total == base + Top(r, d, t, today)
               u == UmbrellaLimitType(r, t)
           IN  StackedStatus(r, d, base, t, today) =
                 IF rows = {}
                 THEN IF \E q \in Umbrellas(d, u) : Indeterminate(d, q, u)
                      THEN "UNKNOWN" ELSE "FAIL"
                 ELSE IF total > MaxMoney THEN "UNKNOWN"
                      ELSE Verdict(total >= r.limits[t].minimum)
BY DEF StackedStatus, Top, UsableRows

\* A limit passes only where the document has enough, by itself or stacked.
LEMMA LimitPass ==
    ASSUME NEW r, IsRequirement(r), NEW d, IsDocument(d), NEW p, IsPolicy(p),
           NEW t \in DOMAIN r.limits, NEW today, LimitStatus(r, d, p, t, today) = "PASS"
    PROVE  d.reviewed /\ Enough(r, d, p, t, today)
<1> DEFINE base == p.limits[t].value
           u == UmbrellaLimitType(r, t)
<1>1. IsConfirmed(d, p.limits[t])
  BY DEF LimitStatus, Undocumented
<1>2. CASE base >= r.limits[t].minimum
  BY <1>1, <1>2 DEF IsConfirmed, Enough, Known
<1>3. CASE ~(base >= r.limits[t].minimum)
  <2>1. r.limits[t].stack /\ StackedStatus(r, d, base, t, today) = "PASS"
    BY <1>1, <1>3 DEF LimitStatus, IsConfirmed
  <2>2. /\ UsableRows(r, d, t, today) # {}
        /\ base + Top(r, d, t, today) >= r.limits[t].minimum
        /\ ~(base + Top(r, d, t, today) > MaxMoney)
    BY <2>1, StackedCases DEF Verdict
  <2>3. PICK q \in UsableRows(r, d, t, today) : Top(r, d, t, today) = q.limits[u].value
    BY <2>2, TopRow
  <2>4. /\ q \in Umbrellas(d, u) /\ Known(q.coverage) /\ Known(q.limits[u])
        /\ InForce(q, r, today)
    BY <2>3 DEF UsableRows, Usable, IsConfirmed, Known, InForce
  <2>5. base + q.limits[u].value \in r.limits[t].minimum..MaxMoney
    <3>1. base \in 0..MaxMoney /\ r.limits[t].minimum \in 0..MaxMoney
      BY <1>1 DEF IsConfirmed, IsPolicy, IsOptional, IsFact, IsRequirement, IsLimitRule
    <3>2. q.limits[u].value \in 0..MaxMoney
      BY <2>4, UmbrellaRows
    <3> HIDE DEF base, u
    <3> QED BY <2>2, <2>3, <3>1, <3>2, RuleAssumption
  <2> QED BY <1>1, <2>1, <2>4, <2>5 DEF Enough, Known, IsConfirmed
<1> QED BY <1>2, <1>3

\* Enough is never called too little.
LEMMA LimitNoFail ==
    ASSUME NEW r, IsRequirement(r), NEW d, IsDocument(d), NEW p, IsPolicy(p),
           NEW t \in DOMAIN r.limits, NEW today, d.reviewed, Enough(r, d, p, t, today)
    PROVE  LimitStatus(r, d, p, t, today) # "FAIL"
<1> DEFINE base == p.limits[t].value
           u == UmbrellaLimitType(r, t)
<1>1. IsConfirmed(d, p.limits[t])
  BY DEF Enough, Known, IsConfirmed
<1>2. CASE base >= r.limits[t].minimum
  BY <1>1, <1>2 DEF LimitStatus, IsConfirmed
<1>3. CASE ~(base >= r.limits[t].minimum)
  <2>1. r.limits[t].stack /\ LimitStatus(r, d, p, t, today) = StackedStatus(r, d, base, t, today)
    BY <1>1, <1>3 DEF LimitStatus, IsConfirmed, Enough
  <2>2. PICK q \in Umbrellas(d, u) :
          /\ Known(q.coverage) /\ Known(q.limits[u]) /\ InForce(q, r, today)
          /\ base + q.limits[u].value \in r.limits[t].minimum..MaxMoney
    BY <1>3 DEF Enough
  <2>3. q \in UsableRows(r, d, t, today)
    BY <2>2 DEF UsableRows, Usable, IsConfirmed, Known, InForce
  <2>4. q.limits[u].value <= Top(r, d, t, today)
    BY <2>3, TopRow
  <2>5. PICK a \in UsableRows(r, d, t, today) : Top(r, d, t, today) = a.limits[u].value
    BY <2>3, TopRow
  <2>6. base + Top(r, d, t, today) >= r.limits[t].minimum
    <3>1. base \in 0..MaxMoney /\ r.limits[t].minimum \in 0..MaxMoney
      BY <1>1 DEF IsConfirmed, IsPolicy, IsOptional, IsFact, IsRequirement, IsLimitRule
    <3>2. q.limits[u].value \in 0..MaxMoney /\ a.limits[u].value \in 0..MaxMoney
      BY <2>2, <2>5, UmbrellaRows DEF UsableRows
    <3> HIDE DEF base, u
    <3> QED BY <2>2, <2>4, <2>5, <3>1, <3>2, RuleAssumption
  <2> QED BY <2>1, <2>3, <2>6, StackedCases DEF Verdict
<1> QED BY <1>2, <1>3

\* The findings of a row, one by one.
ListsFindings(found, r, d, p, today) ==
    /\ DOMAIN found = {"COVERAGE", "PERIOD"} \cup r.fields \cup DOMAIN r.limits
    /\ found["COVERAGE"] = CoverageStatus(d, p)
    /\ found["PERIOD"] = PeriodStatus(r, d, p, today)
    /\ \A f \in r.fields : found[f] = FieldStatus(d, p.fields[f])
    /\ \A t \in DOMAIN r.limits : found[t] = LimitStatus(r, d, p, t, today)

\* The findings of a row are its coverage, its period, its fields and its limits.
LEMMA FindingCases ==
    ASSUME NEW r, IsRequirement(r), NEW d, NEW p, NEW today
    PROVE  ListsFindings(PolicyFindings(r, d, p, today), r, d, p, today)
BY RuleAssumption DEF PolicyFindings, IsRequirement, Fields, ListsFindings

\* Every finding is passed, failed or open.
LEMMA LimitStatuses ==
    ASSUME NEW r, NEW d, NEW p, NEW t, NEW today
    PROVE  LimitStatus(r, d, p, t, today) \in {"PASS", "FAIL", "UNKNOWN"}
<1>1. \A base : StackedStatus(r, d, base, t, today) \in {"PASS", "FAIL", "UNKNOWN"}
  BY StackedCases DEF Verdict
<1> QED BY <1>1 DEF LimitStatus, Undocumented

\* Every finding of a row is passed, failed or open.
LEMMA FindingStatuses ==
    ASSUME NEW r, IsRequirement(r), NEW d, NEW p, NEW today
    PROVE  \A k \in DOMAIN PolicyFindings(r, d, p, today) :
              PolicyFindings(r, d, p, today)[k] \in {"PASS", "FAIL", "UNKNOWN"}
<1> DEFINE found == PolicyFindings(r, d, p, today)
<1>a. ListsFindings(found, r, d, p, today)
  BY FindingCases
<1> HIDE DEF found
<1>1. CoverageStatus(d, p) \in {"PASS", "FAIL", "UNKNOWN"}
  BY DEF CoverageStatus
<1>2. PeriodStatus(r, d, p, today) \in {"PASS", "FAIL", "UNKNOWN"}
  BY DEF PeriodStatus, Undocumented, Verdict
<1>3. \A fact : FieldStatus(d, fact) \in {"PASS", "FAIL", "UNKNOWN"}
  BY DEF FieldStatus, Undocumented
<1>4. \A k \in DOMAIN found : found[k] \in {"PASS", "FAIL", "UNKNOWN"}
  BY <1>a, <1>1, <1>2, <1>3, LimitStatuses DEF ListsFindings
<1> QED BY <1>4 DEF found

\* A row whose findings all pass is a reviewed one that meets the demands.
LEMMA PassingRow ==
    ASSUME NEW r, IsRequirement(r), NEW d, IsDocument(d), NEW p, IsPolicy(p), NEW today,
           \A k \in DOMAIN PolicyFindings(r, d, p, today) :
              PolicyFindings(r, d, p, today)[k] = "PASS"
    PROVE  d.reviewed /\ Meets(r, d, p, today)
<1> DEFINE found == PolicyFindings(r, d, p, today)
<1>a. ListsFindings(found, r, d, p, today)
  BY FindingCases
<1>b. \A k \in DOMAIN found : found[k] = "PASS"
  OBVIOUS
<1> HIDE DEF found
<1>1. CoverageStatus(d, p) = "PASS" /\ PeriodStatus(r, d, p, today) = "PASS"
  BY <1>a, <1>b DEF ListsFindings
<1>2. d.reviewed /\ Known(p.coverage)
  BY <1>1 DEF CoverageStatus, IsConfirmed, Known
<1>3. InForce(p, r, today)
  BY <1>1 DEF PeriodStatus, Undocumented, Verdict, InForce, IsConfirmed, Known
<1>4. ASSUME NEW f \in r.fields PROVE Known(p.fields[f])
  <2>1. FieldStatus(d, p.fields[f]) = "PASS"
    BY <1>a, <1>b DEF ListsFindings
  <2> QED BY <2>1 DEF FieldStatus, Undocumented, IsConfirmed, Known
<1>5. ASSUME NEW t \in DOMAIN r.limits PROVE Enough(r, d, p, t, today)
  <2>1. LimitStatus(r, d, p, t, today) = "PASS"
    BY <1>a, <1>b DEF ListsFindings
  <2> QED BY <2>1, LimitPass
<1> QED BY <1>2, <1>3, <1>4, <1>5 DEF Meets

\* No finding fails of a row that meets the demands.
LEMMA MeetingRow ==
    ASSUME NEW r, IsRequirement(r), NEW d, IsDocument(d), NEW p, IsPolicy(p), NEW today,
           d.reviewed, Meets(r, d, p, today),
           NEW k \in DOMAIN PolicyFindings(r, d, p, today)
    PROVE  PolicyFindings(r, d, p, today)[k] # "FAIL"
<1> DEFINE found == PolicyFindings(r, d, p, today)
<1>a. ListsFindings(found, r, d, p, today)
  BY FindingCases
<1> HIDE DEF found
<1>1. CoverageStatus(d, p) # "FAIL"
  BY DEF CoverageStatus
<1>2. PeriodStatus(r, d, p, today) # "FAIL"
  BY DEF Meets, InForce, PeriodStatus, Verdict, IsConfirmed, Known
<1>3. \A f \in r.fields : FieldStatus(d, p.fields[f]) # "FAIL"
  BY DEF Meets, FieldStatus, Known
<1>4. \A t \in DOMAIN r.limits : LimitStatus(r, d, p, t, today) # "FAIL"
  BY LimitNoFail DEF Meets
<1>5. k \in DOMAIN found => found[k] # "FAIL"
  BY <1>a, <1>1, <1>2, <1>3, <1>4 DEF ListsFindings
<1> QED BY <1>5 DEF found

\* Where one candidate has no failure, neither has the one that is selected.
LEMMA SelectionPrefersNoFailure ==
    ASSUME NEW r, IsRequirement(r), NEW d, IsDocument(d), NEW today,
           NEW i \in Candidates(r, d),
           \A k \in DOMAIN FindingsOf(r, d, i, today) : FindingsOf(r, d, i, today)[k] # "FAIL",
           NEW k \in DOMAIN FindingsOf(r, d, Selected(r, d, today), today)
    PROVE  FindingsOf(r, d, Selected(r, d, today), today)[k] # "FAIL"
<1> DEFINE s == Selected(r, d, today)
           failed(j) == {n \in DOMAIN FindingsOf(r, d, j, today) :
                            FindingsOf(r, d, j, today)[n] = "FAIL"}
           fails(j) == Count(FindingsOf(r, d, j, today), "FAIL")
<1>1. s \in Candidates(r, d) /\ Precedes(r, d, today, s, i)
  BY SelectedFirst
<1>2. fails(i) = 0
  <2>1. failed(i) = {}
    OBVIOUS
  <2> QED BY <2>1, FS_EmptySet DEF Count
<1>3. fails(s) \in Nat
  BY CountType
<1>4. fails(s) = 0
  <2>1. fails(s) < fails(i) \/ fails(s) = fails(i)
    BY <1>1, Zenon DEF Precedes
  <2> HIDE DEF fails
  <2> QED BY <1>2, <1>3, <2>1
<1>5. failed(s) = {}
  <2>1. IsFiniteSet(failed(s))
    BY <1>1, FindingsFinite
  <2> QED BY <1>4, <2>1, FS_EmptySet DEF Count
<1> QED BY <1>5

-----------------------------------------------------------------------------
(* One requirement.                                                        *)

\* An endorsement passes only on confirmed evidence of its level.
LEMMA EndorsementPass ==
    ASSUME NEW e, NEW d, IsDocument(d), e.required,
           EndorsementStatus(e, d) \notin {"FAIL", "UNKNOWN"}
    PROVE  Endorsed(e, d)
<1> DEFINE found == d.endorsements[Best(e, d)]
<1>1. MatchingRows(e, d) # {}
  BY DEF EndorsementStatus, Undocumented
<1>2. Best(e, d) \in MatchingRows(e, d)
  BY <1>1, BestFirst
<1>3. IdentityConfirmed(d, found) /\ IsConfirmed(d, found.level) /\ found.level.value >= e.minimum
  BY <1>1 DEF EndorsementStatus, Verdict
<1> QED BY <1>2, <1>3 DEF Endorsed, MatchingRows, IdentityConfirmed, IsConfirmed, Known

\* Confirmed evidence of its level is never called insufficient.
LEMMA EndorsementNoFail ==
    ASSUME NEW e, e.minimum \in Levels, NEW d, IsDocument(d), d.reviewed,
           e.required => Endorsed(e, d)
    PROVE  EndorsementStatus(e, d) # "FAIL"
<1> SUFFICES ASSUME e.required PROVE EndorsementStatus(e, d) # "FAIL"
  BY DEF EndorsementStatus
<1>1. PICK i \in MatchingRows(e, d) : d.endorsements[i].level.value >= e.minimum
  BY DEF Endorsed, MatchingRows
<1>2. /\ Best(e, d) \in MatchingRows(e, d)
      /\ d.endorsements[i].level.value <= d.endorsements[Best(e, d)].level.value
  BY <1>1, BestFirst
<1>3. \A j \in MatchingRows(e, d) : d.endorsements[j].level.value \in 0..4
  BY DEF MatchingRows, IsDocument, IsEndorsement, IsFact, Levels
<1>4. d.endorsements[Best(e, d)].level.value >= e.minimum
  BY <1>1, <1>2, <1>3 DEF Levels
<1> QED BY <1>1, <1>4 DEF EndorsementStatus, Verdict

\* The statuses of a required coverage that is on the document.
LEMMA CoverageCases ==
    ASSUME NEW r, NEW d, NEW today, r.required, Candidates(r, d) # {}
    PROVE  LET chosen == FindingsOf(r, d, Selected(r, d, today), today)
           IN  CoverageFindings(r, d, today) =
                 {chosen[k] : k \in DOMAIN chosen}
                   \cup {EndorsementStatus(e, d) : e \in r.endorsements}
BY DEF CoverageFindings

\* A requirement without a failed or open finding is satisfied.
LEMMA CoveragePass ==
    ASSUME NEW r, IsRequirement(r), r.required, NEW d, IsDocument(d), NEW today,
           CoverageFindings(r, d, today) \cap {"FAIL", "UNKNOWN"} = {}
    PROVE  d.reviewed /\ Satisfied(r, d, today)
<1> DEFINE s == Selected(r, d, today)
           chosen == FindingsOf(r, d, s, today)
<1>1. Candidates(r, d) # {}
  BY DEF CoverageFindings, Undocumented
<1>2. s \in Candidates(r, d) /\ IsPolicy(d.policies[s])
  BY <1>1, SelectedFirst DEF Candidates, IsDocument
<1>3. ASSUME NEW k \in DOMAIN chosen PROVE chosen[k] = "PASS"
  <2>1. chosen[k] \in CoverageFindings(r, d, today)
    BY <1>1, CoverageCases
  <2>2. chosen[k] \in {"PASS", "FAIL", "UNKNOWN"}
    BY FindingStatuses DEF FindingsOf
  <2> HIDE DEF chosen
  <2> QED BY <2>1, <2>2
<1>4. d.reviewed /\ Meets(r, d, d.policies[s], today)
  BY <1>2, <1>3, PassingRow DEF FindingsOf
<1>5. ASSUME NEW e \in r.endorsements, e.required PROVE Endorsed(e, d)
  <2>1. EndorsementStatus(e, d) \in CoverageFindings(r, d, today)
    BY <1>1, CoverageCases
  <2> QED BY <1>5, <2>1, EndorsementPass
<1> QED BY <1>2, <1>4, <1>5 DEF Satisfied

\* A satisfied requirement has no failed finding.
LEMMA CoverageNoFail ==
    ASSUME NEW r, IsRequirement(r), NEW d, IsDocument(d), d.reviewed, NEW today,
           r.required => Satisfied(r, d, today)
    PROVE  "FAIL" \notin CoverageFindings(r, d, today)
<1> SUFFICES ASSUME r.required PROVE "FAIL" \notin CoverageFindings(r, d, today)
  BY DEF CoverageFindings
<1> DEFINE s == Selected(r, d, today)
<1>1. PICK i \in Candidates(r, d) : Meets(r, d, d.policies[i], today)
  BY DEF Satisfied
<1>2. IsPolicy(d.policies[i])
  BY DEF Candidates, IsDocument
<1>3. \A k \in DOMAIN FindingsOf(r, d, i, today) : FindingsOf(r, d, i, today)[k] # "FAIL"
  BY <1>1, <1>2, MeetingRow DEF FindingsOf
<1>4. \A k \in DOMAIN FindingsOf(r, d, s, today) : FindingsOf(r, d, s, today)[k] # "FAIL"
  BY <1>3, SelectionPrefersNoFailure
<1>5. ASSUME NEW e \in r.endorsements PROVE EndorsementStatus(e, d) # "FAIL"
  BY EndorsementNoFail DEF Satisfied, IsRequirement
<1> QED BY <1>1, <1>4, <1>5, CoverageCases

-----------------------------------------------------------------------------
(* Documents confirmed throughout.                                         *)

\* An optional fact that is there is confirmed.
Sure(fact) == fact # None => fact.confirmed

SurePolicy(p) ==
    /\ Sure(p.coverage) /\ Sure(p.effective) /\ Sure(p.expiration)
    /\ \A f \in Fields : Sure(p.fields[f])
    /\ \A t \in LimitTypes : Sure(p.limits[t])

SureDocument(d) ==
    /\ d.reviewed
    /\ \A i \in DOMAIN d.policies : SurePolicy(d.policies[i])
    /\ \A i \in DOMAIN d.endorsements :
          LET e == d.endorsements[i] IN Sure(e.form) /\ Sure(e.name) /\ Sure(e.level)

\* To confirm a fact keeps whether it is there, its type and its value.
LEMMA ConfirmedFacts ==
    ASSUME NEW S \in SUBSET (Int \cup Coverages \cup Texts), NEW fact, IsOptional(fact, S)
    PROVE  /\ IsOptional(ConfirmedFact(fact), S) /\ Sure(ConfirmedFact(fact))
           /\ ConfirmedFact(fact) = None <=> fact = None
           /\ fact # None => ConfirmedFact(fact).value = fact.value
<1>1. fact # None => [value |-> fact.value, confirmed |-> TRUE] # None
  <2>1. fact # None => [value |-> fact.value, confirmed |-> TRUE]
                        \in [value : Int \cup Coverages \cup Texts, confirmed : BOOLEAN]
    BY DEF IsOptional, IsFact
  <2> QED BY <2>1, RuleAssumption
<1> QED BY <1>1 DEF ConfirmedFact, IsOptional, IsFact, Sure

\* What is left of a row when it is confirmed.
LEMMA ConfirmedRow ==
    ASSUME NEW p, IsPolicy(p)
    PROVE  LET c == ConfirmedPolicy(p) IN
           /\ IsPolicy(c) /\ SurePolicy(c)
           /\ c.coverage.value = p.coverage.value
           /\ c.effective = None <=> p.effective = None
           /\ p.effective # None => c.effective.value = p.effective.value
           /\ c.expiration = None <=> p.expiration = None
           /\ p.expiration # None => c.expiration.value = p.expiration.value
           /\ \A f \in Fields : c.fields[f] = None <=> p.fields[f] = None
           /\ \A t \in LimitTypes :
                 /\ c.limits[t] = None <=> p.limits[t] = None
                 /\ p.limits[t] # None => c.limits[t].value = p.limits[t].value
<1> DEFINE c == ConfirmedPolicy(p)
<1>1. /\ c.coverage = ConfirmedFact(p.coverage)
      /\ c.effective = ConfirmedFact(p.effective) /\ c.expiration = ConfirmedFact(p.expiration)
      /\ DOMAIN c.fields = DOMAIN p.fields /\ DOMAIN c.limits = DOMAIN p.limits
      /\ \A f \in DOMAIN p.fields : c.fields[f] = ConfirmedFact(p.fields[f])
      /\ \A t \in DOMAIN p.limits : c.limits[t] = ConfirmedFact(p.limits[t])
  BY DEF ConfirmedPolicy
<1> HIDE DEF c
<1>2. DOMAIN p.fields = Fields /\ DOMAIN p.limits = LimitTypes
  BY DEF IsPolicy
<1>3. /\ IsFact(c.coverage, Coverages) /\ Sure(c.coverage)
      /\ c.coverage.value = p.coverage.value
  <2>1. IsOptional(p.coverage, Coverages) /\ p.coverage # None
    BY DEF IsPolicy, IsOptional, IsFact
  <2> QED BY <1>1, <2>1, ConfirmedFacts DEF IsOptional
<1>4. /\ IsOptional(c.effective, Int) /\ Sure(c.effective)
      /\ c.effective = None <=> p.effective = None
      /\ p.effective # None => c.effective.value = p.effective.value
  BY <1>1, ConfirmedFacts DEF IsPolicy
<1>5. /\ IsOptional(c.expiration, Int) /\ Sure(c.expiration)
      /\ c.expiration = None <=> p.expiration = None
      /\ p.expiration # None => c.expiration.value = p.expiration.value
  BY <1>1, ConfirmedFacts DEF IsPolicy
<1>6. ASSUME NEW f \in Fields
      PROVE  /\ IsOptional(c.fields[f], Texts) /\ Sure(c.fields[f])
             /\ c.fields[f] = None <=> p.fields[f] = None
  <2>1. IsOptional(p.fields[f], Texts)
    BY DEF IsPolicy
  <2> QED BY <1>1, <1>2, <2>1, ConfirmedFacts
<1>7. ASSUME NEW t \in LimitTypes
      PROVE  /\ IsOptional(c.limits[t], 0..MaxMoney) /\ Sure(c.limits[t])
             /\ c.limits[t] = None <=> p.limits[t] = None
             /\ p.limits[t] # None => c.limits[t].value = p.limits[t].value
  <2>1. 0..MaxMoney \in SUBSET (Int \cup Coverages \cup Texts)
    BY RuleAssumption
  <2>2. IsOptional(p.limits[t], 0..MaxMoney)
    BY DEF IsPolicy
  <2> QED BY <1>1, <1>2, <2>1, <2>2, ConfirmedFacts
<1>8. IsPolicy(c) /\ SurePolicy(c)
  BY <1>1, <1>2, <1>3, <1>4, <1>5, <1>6, <1>7 DEF IsPolicy, SurePolicy
<1> QED BY <1>3, <1>4, <1>5, <1>6, <1>7, <1>8 DEF c

\* And of the document.
LEMMA ConfirmedDocument ==
    ASSUME NEW d, IsDocument(d)
    PROVE  LET c == Confirmed(d) IN
           /\ IsDocument(c) /\ SureDocument(c)
           /\ DOMAIN c.policies = DOMAIN d.policies
           /\ \A i \in DOMAIN d.policies : c.policies[i] = ConfirmedPolicy(d.policies[i])
           /\ \A r : Candidates(r, c) = Candidates(r, d)
           /\ \A e : MatchingRows(e, c) = MatchingRows(e, d)
           /\ \A i \in DOMAIN d.endorsements :
                 c.endorsements[i].level.value = d.endorsements[i].level.value
<1> DEFINE c == Confirmed(d)
<1>1. /\ DOMAIN c = {"reviewed", "policies", "endorsements"}
      /\ c.reviewed = TRUE
      /\ DOMAIN c.policies = DOMAIN d.policies
      /\ \A i \in DOMAIN d.policies : c.policies[i] = ConfirmedPolicy(d.policies[i])
      /\ DOMAIN c.endorsements = DOMAIN d.endorsements
      /\ \A i \in DOMAIN d.endorsements : c.endorsements[i] = ConfirmedEvidence(d.endorsements[i])
  BY DEF Confirmed
<1> HIDE DEF c
<1>2. ASSUME NEW i \in DOMAIN d.policies
      PROVE  /\ IsPolicy(c.policies[i]) /\ SurePolicy(c.policies[i])
             /\ c.policies[i].coverage.value = d.policies[i].coverage.value
  <2>1. IsPolicy(d.policies[i])
    BY DEF IsDocument
  <2> QED BY <1>1, <2>1, ConfirmedRow
<1>3. ASSUME NEW i \in DOMAIN d.endorsements
      PROVE  LET e == d.endorsements[i]
                 f == c.endorsements[i]
             IN  /\ IsEndorsement(f) /\ Sure(f.form) /\ Sure(f.name) /\ Sure(f.level)
                 /\ f.level.value = e.level.value
                 /\ f.form = None <=> e.form = None
                 /\ e.form # None => f.form.value = e.form.value
                 /\ f.name = None <=> e.name = None
                 /\ e.name # None => f.name.value = e.name.value
  <2> DEFINE e == d.endorsements[i]
             f == c.endorsements[i]
  <2>1. IsOptional(e.form, Texts) /\ IsOptional(e.name, Texts)
        /\ IsOptional(e.level, Levels) /\ e.level # None
    BY DEF IsDocument, IsEndorsement, IsOptional, IsFact
  <2>2. /\ f.form = ConfirmedFact(e.form) /\ f.name = ConfirmedFact(e.name)
        /\ f.level = ConfirmedFact(e.level)
    <3>1. f = ConfirmedEvidence(e)
      BY <1>1
    <3> QED BY <3>1 DEF ConfirmedEvidence
  <2>3. Levels \in SUBSET (Int \cup Coverages \cup Texts)
    BY DEF Levels
  <2> HIDE DEF e, f
  <2>4. /\ IsOptional(f.level, Levels) /\ Sure(f.level)
        /\ f.level # None /\ f.level.value = e.level.value
    BY <2>1, <2>2, <2>3, ConfirmedFacts
  <2>5. /\ IsOptional(f.form, Texts) /\ Sure(f.form) /\ IsOptional(f.name, Texts) /\ Sure(f.name)
        /\ f.form = None <=> e.form = None
        /\ e.form # None => f.form.value = e.form.value
        /\ f.name = None <=> e.name = None
        /\ e.name # None => f.name.value = e.name.value
    BY <2>1, <2>2, ConfirmedFacts
  <2>6. IsEndorsement(f)
    BY <2>4, <2>5 DEF IsEndorsement, IsOptional
  <2> QED BY <2>4, <2>5, <2>6 DEF e, f
<1>4. IsDocument(c)
  BY <1>1, <1>2, <1>3 DEF IsDocument
<1>5. SureDocument(c)
  BY <1>1, <1>2, <1>3 DEF SureDocument
<1>6. ASSUME NEW r PROVE Candidates(r, c) = Candidates(r, d)
  BY <1>1, <1>2 DEF Candidates
<1>7. ASSUME NEW e PROVE MatchingRows(e, c) = MatchingRows(e, d)
  <2>1. ASSUME NEW i \in DOMAIN d.endorsements
        PROVE  Matches(e, c.endorsements[i]) <=> Matches(e, d.endorsements[i])
    BY <1>3 DEF Matches
  <2> QED BY <1>1, <2>1 DEF MatchingRows
<1> QED BY <1>1, <1>3, <1>4, <1>5, <1>6, <1>7 DEF c

-----------------------------------------------------------------------------
(* What is left open, and what confirmation keeps.                         *)

\* Of a row confirmed throughout only a sum that overflows is left open.
LEMMA OpenLimit ==
    ASSUME NEW r, IsRequirement(r), NEW d, IsDocument(d), SureDocument(d), NEW today,
           NEW i \in Candidates(r, d), NEW t \in DOMAIN r.limits,
           LimitStatus(r, d, d.policies[i], t, today) = "UNKNOWN"
    PROVE  CanOverflow(r, d, t)
<1> DEFINE p == d.policies[i]
           base == p.limits[t].value
           u == UmbrellaLimitType(r, t)
<1>1. IsPolicy(p) /\ SurePolicy(p) /\ d.reviewed /\ t \in LimitTypes
  BY DEF Candidates, IsDocument, SureDocument, IsRequirement
<1>2. p.limits[t] # None /\ IsConfirmed(d, p.limits[t])
  BY <1>1 DEF LimitStatus, Undocumented, SurePolicy, Sure, IsConfirmed
<1>3. r.limits[t].stack /\ StackedStatus(r, d, base, t, today) = "UNKNOWN"
  BY <1>2 DEF LimitStatus
<1>4. ~\E q \in Umbrellas(d, u) : Indeterminate(d, q, u)
  <2> SUFFICES ASSUME NEW q \in Umbrellas(d, u) PROVE ~Indeterminate(d, q, u)
    OBVIOUS
  <2>1. SurePolicy(q) /\ u \in LimitTypes
    BY UmbrellaRows DEF Umbrellas, SureDocument
  <2> QED BY <1>1, <2>1 DEF Indeterminate, Unconfirmed, SurePolicy, Sure
<1>5. UsableRows(r, d, t, today) # {} /\ base + Top(r, d, t, today) > MaxMoney
  BY <1>3, <1>4, StackedCases DEF Verdict
<1>6. PICK q \in UsableRows(r, d, t, today) : Top(r, d, t, today) = q.limits[u].value
  BY <1>5, TopRow
<1> QED BY <1>2, <1>3, <1>5, <1>6 DEF CanOverflow, UsableRows

\* So is the whole requirement.
LEMMA CoverageDecided ==
    ASSUME NEW r, IsRequirement(r), NEW d, IsDocument(d), SureDocument(d), NEW today,
           "UNKNOWN" \in CoverageFindings(r, d, today)
    PROVE  r.required /\ \E t \in DOMAIN r.limits : CanOverflow(r, d, t)
<1> DEFINE s == Selected(r, d, today)
           p == d.policies[s]
           chosen == PolicyFindings(r, d, p, today)
<1>0. d.reviewed
  BY DEF SureDocument
<1>1. r.required /\ Candidates(r, d) # {}
  BY <1>0 DEF CoverageFindings, Undocumented
<1>2. s \in Candidates(r, d) /\ IsPolicy(p) /\ SurePolicy(p)
  BY <1>1, SelectedFirst DEF Candidates, IsDocument, SureDocument
<1>3. \A e \in r.endorsements : EndorsementStatus(e, d) # "UNKNOWN"
  <2> SUFFICES ASSUME NEW e \in r.endorsements, e.required, MatchingRows(e, d) # {}
               PROVE  EndorsementStatus(e, d) # "UNKNOWN"
    BY <1>0 DEF EndorsementStatus, Undocumented
  <2> DEFINE found == d.endorsements[Best(e, d)]
  <2>1. IsEndorsement(found) /\ Sure(found.form) /\ Sure(found.name) /\ Sure(found.level)
    BY BestFirst DEF MatchingRows, IsDocument, SureDocument
  <2>2. IdentityConfirmed(d, found) /\ IsConfirmed(d, found.level)
    BY <1>0, <2>1 DEF IdentityConfirmed, IsConfirmed, Sure, IsEndorsement, IsFact
  <2> QED BY <2>2 DEF EndorsementStatus, Verdict
<1>8. ListsFindings(chosen, r, d, p, today)
  <2> HIDE DEF p
  <2> QED BY FindingCases
<1>4. PICK k \in DOMAIN chosen : chosen[k] = "UNKNOWN"
  BY <1>1, <1>3, CoverageCases DEF FindingsOf
<1>5. CoverageStatus(d, p) # "UNKNOWN"
  BY <1>0, <1>2 DEF CoverageStatus, IsConfirmed, SurePolicy, Sure, IsPolicy, IsFact
<1>6. PeriodStatus(r, d, p, today) # "UNKNOWN"
  BY <1>0, <1>2 DEF PeriodStatus, IsConfirmed, SurePolicy, Sure, Undocumented, Verdict
<1>7. \A f \in r.fields : FieldStatus(d, p.fields[f]) # "UNKNOWN"
  BY <1>0, <1>2 DEF FieldStatus, IsConfirmed, SurePolicy, Sure, Undocumented, IsRequirement
<1> HIDE DEF chosen
<1>9. k \in DOMAIN r.limits /\ LimitStatus(r, d, p, k, today) = "UNKNOWN"
  BY <1>4, <1>5, <1>6, <1>7, <1>8 DEF ListsFindings
<1>10. CanOverflow(r, d, k)
  BY <1>2, <1>9, OpenLimit
<1> QED BY <1>1, <1>9, <1>10

\* Without stacking, a row that fails a demand still does when confirmed.
LEMMA FailingRow ==
    ASSUME NEW r, IsRequirement(r), \A t \in DOMAIN r.limits : ~r.limits[t].stack,
           NEW d, NEW c, NEW p, IsPolicy(p), NEW today
    PROVE  \A k \in DOMAIN PolicyFindings(r, d, p, today) :
              PolicyFindings(r, d, p, today)[k] = "FAIL" =>
                 d.reviewed /\ ~Meets(r, c, ConfirmedPolicy(p), today)
<1> DEFINE found == PolicyFindings(r, d, p, today)
           q == ConfirmedPolicy(p)
<1>1. ListsFindings(found, r, d, p, today)
  <2> HIDE DEF q
  <2> QED BY FindingCases
<1>3. /\ q.effective = None <=> p.effective = None
      /\ p.effective # None => q.effective.value = p.effective.value
      /\ q.expiration = None <=> p.expiration = None
      /\ p.expiration # None => q.expiration.value = p.expiration.value
      /\ \A f \in Fields : q.fields[f] = None <=> p.fields[f] = None
      /\ \A t \in LimitTypes :
            /\ q.limits[t] = None <=> p.limits[t] = None
            /\ p.limits[t] # None => q.limits[t].value = p.limits[t].value
  BY ConfirmedRow
<1> HIDE DEF found, q
<1> SUFFICES ASSUME NEW k \in DOMAIN found, found[k] = "FAIL"
             PROVE  d.reviewed /\ ~Meets(r, c, q, today)
  BY DEF found, q
<1>2. k \in DOMAIN found /\ found[k] = "FAIL"
  OBVIOUS
<1>4. CASE k = "COVERAGE"
  BY <1>1, <1>2, <1>4 DEF CoverageStatus, ListsFindings
<1>5. CASE k = "PERIOD"
  <2>1. PeriodStatus(r, d, p, today) = "FAIL"
    BY <1>1, <1>2, <1>5 DEF ListsFindings
  <2>2. CASE p.effective = None \/ p.expiration = None
    BY <2>1, <2>2, <1>3 DEF PeriodStatus, Undocumented, Meets, InForce, Known
  <2>3. CASE ~(p.effective = None \/ p.expiration = None)
    <3>1. d.reviewed /\ ~Spans(p, r, today)
      BY <2>1, <2>3 DEF PeriodStatus, IsConfirmed, Verdict
    <3>2. ~Spans(q, r, today)
      BY <1>3, <2>3, <3>1 DEF Spans
    <3> QED BY <3>1, <3>2 DEF Meets, InForce
  <2> QED BY <2>2, <2>3
<1>6. CASE k \in r.fields
  <2>1. FieldStatus(d, p.fields[k]) = "FAIL"
    BY <1>1, <1>2, <1>6 DEF ListsFindings
  <2>2. d.reviewed /\ p.fields[k] = None
    BY <2>1 DEF FieldStatus, Undocumented
  <2>3. q.fields[k] = None
    BY <1>3, <1>6, <2>2 DEF IsRequirement
  <2> QED BY <1>6, <2>2, <2>3 DEF Meets, Known
<1>7. CASE k \in DOMAIN r.limits
  <2>1. LimitStatus(r, d, p, k, today) = "FAIL"
    BY <1>1, <1>2, <1>7 DEF ListsFindings
  <2>2. k \in LimitTypes /\ ~r.limits[k].stack
    BY <1>7 DEF IsRequirement
  <2>3. d.reviewed /\ (p.limits[k] = None \/ ~(p.limits[k].value >= r.limits[k].minimum))
    BY <2>1, <2>2 DEF LimitStatus, Undocumented, IsConfirmed
  <2>4. ~Enough(r, c, q, k, today)
    BY <1>3, <2>2, <2>3 DEF Enough, Known
  <2> QED BY <1>7, <2>3, <2>4 DEF Meets
<1> QED BY <1>1, <1>2, <1>4, <1>5, <1>6, <1>7 DEF ListsFindings

\* Without stacking, a row that meets the demands still does when confirmed.
LEMMA MeetingStays ==
    ASSUME NEW r, IsRequirement(r), \A t \in DOMAIN r.limits : ~r.limits[t].stack,
           NEW d, NEW c, NEW p, IsPolicy(p), NEW today, Meets(r, d, p, today)
    PROVE  Meets(r, c, ConfirmedPolicy(p), today)
<1> DEFINE q == ConfirmedPolicy(p)
<1>1. /\ IsPolicy(q) /\ SurePolicy(q)
      /\ q.effective = None <=> p.effective = None
      /\ p.effective # None => q.effective.value = p.effective.value
      /\ q.expiration = None <=> p.expiration = None
      /\ p.expiration # None => q.expiration.value = p.expiration.value
      /\ \A f \in Fields : q.fields[f] = None <=> p.fields[f] = None
      /\ \A t \in LimitTypes :
            /\ q.limits[t] = None <=> p.limits[t] = None
            /\ p.limits[t] # None => q.limits[t].value = p.limits[t].value
  BY ConfirmedRow
<1> HIDE DEF q
<1>2. Known(q.coverage)
  BY <1>1 DEF IsPolicy, IsFact, SurePolicy, Sure, Known
<1>3. InForce(q, r, today)
  BY <1>1 DEF Meets, InForce, Known, SurePolicy, Sure, Spans
<1>4. \A f \in r.fields : Known(q.fields[f])
  BY <1>1 DEF Meets, Known, SurePolicy, Sure, IsRequirement
<1>5. \A t \in DOMAIN r.limits : Enough(r, c, q, t, today)
  BY <1>1 DEF Meets, Enough, Known, SurePolicy, Sure, IsRequirement
<1> QED BY <1>2, <1>3, <1>4, <1>5 DEF Meets, q

\* A failed finding of a requirement that does not stack is there to stay.
LEMMA FailureStays ==
    ASSUME NEW r, IsRequirement(r), \A t \in DOMAIN r.limits : ~r.limits[t].stack,
           NEW d, IsDocument(d), NEW today, "FAIL" \in CoverageFindings(r, d, today)
    PROVE  r.required /\ ~Satisfied(r, Confirmed(d), today)
<1> DEFINE c == Confirmed(d)
           s == Selected(r, d, today)
<1>1. r.required
  BY DEF CoverageFindings
<1>2. /\ IsDocument(c) /\ Candidates(r, c) = Candidates(r, d)
      /\ \A i \in DOMAIN d.policies : c.policies[i] = ConfirmedPolicy(d.policies[i])
      /\ \A e : MatchingRows(e, c) = MatchingRows(e, d)
      /\ \A i \in DOMAIN d.endorsements :
            c.endorsements[i].level.value = d.endorsements[i].level.value
  BY ConfirmedDocument
<1> HIDE DEF c
<1> SUFFICES ASSUME NEW i \in Candidates(r, d), Meets(r, c, c.policies[i], today),
                    \A e \in r.endorsements : e.required => Endorsed(e, c)
             PROVE  FALSE
  BY <1>1, <1>2 DEF Satisfied, c
<1>3. \A k \in DOMAIN FindingsOf(r, d, i, today) : FindingsOf(r, d, i, today)[k] # "FAIL"
  <2>1. i \in DOMAIN d.policies /\ IsPolicy(d.policies[i])
    BY DEF Candidates, IsDocument
  <2> QED BY <1>2, <2>1, FailingRow DEF FindingsOf
<1>4. \A k \in DOMAIN FindingsOf(r, d, s, today) : FindingsOf(r, d, s, today)[k] # "FAIL"
  BY <1>3, SelectionPrefersNoFailure
<1>5. PICK e \in r.endorsements : EndorsementStatus(e, d) = "FAIL"
  BY <1>1, <1>4, CoverageCases
<1>6. e.required /\ e.minimum \in Levels
  BY <1>5 DEF EndorsementStatus, IsRequirement
<1>7. PICK j \in MatchingRows(e, d) : d.endorsements[j].level.value >= e.minimum
  <2>1. PICK j \in DOMAIN c.endorsements :
           Matches(e, c.endorsements[j]) /\ c.endorsements[j].level.value >= e.minimum
    BY <1>6 DEF Endorsed
  <2>2. j \in MatchingRows(e, d)
    BY <1>2, <2>1 DEF MatchingRows
  <2> QED BY <1>2, <2>1, <2>2 DEF MatchingRows
<1>8. /\ Best(e, d) \in MatchingRows(e, d)
      /\ d.endorsements[j].level.value <= d.endorsements[Best(e, d)].level.value
  BY <1>7, BestFirst
<1>9. \A n \in MatchingRows(e, d) : d.endorsements[n].level.value \in 0..4
  BY DEF MatchingRows, IsDocument, IsEndorsement, IsFact, Levels
<1>10. d.endorsements[Best(e, d)].level.value >= e.minimum
  BY <1>6, <1>7, <1>8, <1>9 DEF Levels
<1>11. EndorsementStatus(e, d) # "FAIL"
  <2>1. CASE d.reviewed
    BY <1>7, <1>10, <2>1 DEF EndorsementStatus, Verdict
  <2>2. CASE ~d.reviewed
    BY <2>2 DEF EndorsementStatus, Undocumented, IsConfirmed
  <2> QED BY <2>1, <2>2 DEF IsDocument
<1> QED BY <1>5, <1>11

\* So is what satisfies it.
LEMMA SatisfactionStays ==
    ASSUME NEW r, IsRequirement(r), \A t \in DOMAIN r.limits : ~r.limits[t].stack,
           NEW d, IsDocument(d), NEW today, Satisfied(r, d, today)
    PROVE  Satisfied(r, Confirmed(d), today)
<1> DEFINE c == Confirmed(d)
<1>1. /\ IsDocument(c) /\ SureDocument(c) /\ Candidates(r, c) = Candidates(r, d)
      /\ \A i \in DOMAIN d.policies : c.policies[i] = ConfirmedPolicy(d.policies[i])
      /\ \A e : MatchingRows(e, c) = MatchingRows(e, d)
      /\ \A i \in DOMAIN d.endorsements :
            c.endorsements[i].level.value = d.endorsements[i].level.value
  BY ConfirmedDocument
<1> HIDE DEF c
<1>2. PICK i \in Candidates(r, d) : Meets(r, d, d.policies[i], today)
  BY DEF Satisfied
<1>3. Meets(r, c, c.policies[i], today)
  <2>1. i \in DOMAIN d.policies /\ IsPolicy(d.policies[i])
    BY DEF Candidates, IsDocument
  <2> QED BY <1>1, <1>2, <2>1, MeetingStays
<1>4. ASSUME NEW e \in r.endorsements, e.required PROVE Endorsed(e, c)
  <2>1. PICK j \in MatchingRows(e, d) : d.endorsements[j].level.value >= e.minimum
    BY <1>4 DEF Satisfied, Endorsed, MatchingRows
  <2>2. j \in DOMAIN c.endorsements /\ Matches(e, c.endorsements[j])
    BY <1>1, <2>1 DEF MatchingRows
  <2>3. c.endorsements[j].level.value >= e.minimum
    BY <1>1, <2>1 DEF MatchingRows
  <2> DEFINE found == c.endorsements[j]
  <2>4. IsEndorsement(found) /\ Sure(found.form) /\ Sure(found.name) /\ Sure(found.level)
    BY <1>1, <2>2 DEF IsDocument, SureDocument
  <2>5. Known(found.level) /\ (found.form = None \/ Known(found.form))
        /\ (found.name = None \/ Known(found.name))
    BY <2>4 DEF Sure, Known, IsEndorsement, IsFact
  <2> QED BY <2>2, <2>3, <2>5 DEF Endorsed
<1>5. Satisfied(r, c, today)
  BY <1>1, <1>2, <1>3, <1>4 DEF Satisfied
<1> QED BY <1>5 DEF c

-----------------------------------------------------------------------------
(* The evaluation.                                                         *)

\* The label of a case is the label of its evaluation, once there is one.
CaseEvaluated == EvaluateCompliance(case.profile, case.document, case.today)

IInv == case \in Cases /\ (label = None \/ label = CaseEvaluated)

\* One evaluation ends the case.
LEMMA Invariance == Spec => []IInv
<1>1. Init => IInv
  BY DEF Init, IInv
<1>2. IInv /\ [Next]_vars => IInv'
  BY DEF IInv, Next, Evaluate, CaseEvaluated, vars
<1> QED BY <1>1, <1>2, PTL DEF Spec

\* A case has the types of its parts.
LEMMA CaseTypes ==
    ASSUME IInv
    PROVE  /\ IsDocument(case.document)
           /\ case.profile # None => \A r \in case.profile : IsRequirement(r)
BY CaseAssumption DEF IInv

\* A label that is one of the four was given by the evaluation.
LEMMA LabelGiven ==
    ASSUME IInv, label \in Labels PROVE label = CaseEvaluated
BY RuleAssumption DEF IInv

\* An open or failed requirement keeps the label from being compliant.
LEMMA CompliantFindings ==
    ASSUME NEW profile, NEW d, NEW today, EvaluateCompliance(profile, d, today) = "COMPLIANT"
    PROVE  /\ profile # None
           /\ \E r \in profile : r.required
           /\ \A r \in profile : CoverageFindings(r, d, today) \cap {"FAIL", "UNKNOWN"} = {}
<1>1. /\ "FAIL" \notin Findings(profile, d, today)
      /\ "UNKNOWN" \notin Findings(profile, d, today)
      /\ "PASS" \in Findings(profile, d, today)
  BY DEF EvaluateCompliance, Label
<1>2. /\ profile # None
      /\ Findings(profile, d, today) = UNION {CoverageFindings(r, d, today) : r \in profile}
  BY <1>1 DEF Findings
<1>3. \E r \in profile : r.required
  BY <1>1, <1>2 DEF CoverageFindings
<1> QED BY <1>1, <1>2, <1>3

\* Before review nothing is passed and nothing failed.
LEMMA UnreviewedFindings ==
    ASSUME NEW r, IsRequirement(r), NEW d, IsDocument(d), ~d.reviewed, NEW today
    PROVE  CoverageFindings(r, d, today) \cap {"PASS", "FAIL"} = {}
<1> DEFINE s == Selected(r, d, today)
           p == d.policies[s]
           chosen == PolicyFindings(r, d, p, today)
<1> SUFFICES ASSUME r.required, Candidates(r, d) # {}
             PROVE  CoverageFindings(r, d, today) \cap {"PASS", "FAIL"} = {}
  BY DEF CoverageFindings, Undocumented
<1>1. ListsFindings(chosen, r, d, p, today)
  <2> HIDE DEF p
  <2> QED BY FindingCases
<1>2. \A e : EndorsementStatus(e, d) \notin {"PASS", "FAIL"}
  BY DEF EndorsementStatus, Undocumented, IsConfirmed
<1>3. /\ CoverageStatus(d, p) = "UNKNOWN" /\ PeriodStatus(r, d, p, today) = "UNKNOWN"
      /\ \A fact : FieldStatus(d, fact) = "UNKNOWN"
      /\ \A t : LimitStatus(r, d, p, t, today) = "UNKNOWN"
  BY DEF CoverageStatus, PeriodStatus, FieldStatus, LimitStatus, Undocumented, IsConfirmed
<1>4. CoverageFindings(r, d, today) =
        {chosen[k] : k \in DOMAIN chosen} \cup {EndorsementStatus(e, d) : e \in r.endorsements}
  BY CoverageCases DEF FindingsOf
<1> HIDE DEF chosen, p
<1>5. \A k \in DOMAIN chosen : chosen[k] = "UNKNOWN"
  BY <1>1, <1>3 DEF ListsFindings
<1> QED BY <1>2, <1>4, <1>5

-----------------------------------------------------------------------------
(* The theorems.                                                           *)

\* Nothing is decided on a document that was not reviewed as a whole.
THEOREM UnreviewedIsUndecided == Spec => []NothingUnconfirmedDecides
<1>1. IInv => NothingUnconfirmedDecides
  <2> SUFFICES ASSUME IInv, label \in {"COMPLIANT", "NON_COMPLIANT"}, ~case.document.reviewed
               PROVE  FALSE
    BY DEF NothingUnconfirmedDecides
  <2> DEFINE statuses == Findings(case.profile, case.document, case.today)
  <2>1. "PASS" \in statuses \/ "FAIL" \in statuses
    BY LabelGiven DEF Labels, CaseEvaluated, EvaluateCompliance, Label
  <2>2. PICK r \in case.profile :
          case.profile # None
          /\ CoverageFindings(r, case.document, case.today) \cap {"PASS", "FAIL"} # {}
    BY <2>1 DEF Findings
  <2> QED BY <2>2, CaseTypes, UnreviewedFindings
<1> QED BY <1>1, Invariance, PTL

\* A compliant document proves every required coverage.
THEOREM CompliantProven == Spec => []CompliantIsProven
<1>1. IInv => CompliantIsProven
  <2> SUFFICES ASSUME IInv, label = "COMPLIANT"
               PROVE  case.profile # None /\ Required # {} /\ Proven
    BY DEF CompliantIsProven
  <2>1. CaseEvaluated = "COMPLIANT"
    BY LabelGiven DEF Labels
  <2>2. /\ case.profile # None
        /\ \E r \in case.profile : r.required
        /\ \A r \in case.profile :
              CoverageFindings(r, case.document, case.today) \cap {"FAIL", "UNKNOWN"} = {}
    BY <2>1, CompliantFindings DEF CaseEvaluated
  <2>3. \A r \in Required : case.document.reviewed /\ Satisfied(r, case.document, case.today)
    BY <2>2, CaseTypes, CoveragePass DEF Required
  <2> QED BY <2>2, <2>3 DEF Required, Proven
<1> QED BY <1>1, Invariance, PTL

\* A deficient document proves too little, and one confirmed throughout is
\* left open only where an amount overflows.
THEOREM ReviewDecides == Spec => []ReviewedIsDecided
<1>1. IInv => ReviewedIsDecided
  <2> SUFFICES ASSUME IInv, case.profile # None
               PROVE  /\ label = "NON_COMPLIANT" => ~Proven
                      /\ label = "REVIEW_REQUIRED" /\ case.document = Confirmed(case.document)
                            => Overflows
    BY DEF ReviewedIsDecided
  <2> DEFINE d == case.document
  <2>1. IsDocument(d) /\ \A r \in case.profile : IsRequirement(r)
    BY CaseTypes
  <2>2. ASSUME label = "NON_COMPLIANT", Proven PROVE FALSE
    <3>1. "FAIL" \in Findings(case.profile, d, case.today)
      BY <2>2, LabelGiven DEF Labels, CaseEvaluated, EvaluateCompliance, Label
    <3>2. PICK r \in case.profile : "FAIL" \in CoverageFindings(r, d, case.today)
      BY <3>1 DEF Findings
    <3>3. d.reviewed /\ (r.required => Satisfied(r, d, case.today))
      BY <2>2 DEF Proven, Required
    <3> QED BY <2>1, <3>2, <3>3, CoverageNoFail
  <2>3. ASSUME label = "REVIEW_REQUIRED", d = Confirmed(d) PROVE Overflows
    <3>1. "UNKNOWN" \in Findings(case.profile, d, case.today)
      BY <2>3, LabelGiven DEF Labels, CaseEvaluated, EvaluateCompliance, Label
    <3>2. PICK r \in case.profile : "UNKNOWN" \in CoverageFindings(r, d, case.today)
      BY <3>1 DEF Findings
    <3>3. SureDocument(d)
      BY <2>1, <2>3, ConfirmedDocument
    <3>4. r.required /\ \E t \in DOMAIN r.limits : CanOverflow(r, d, t)
      BY <2>1, <3>2, <3>3, CoverageDecided
    <3> QED BY <3>4 DEF Overflows, Required
  <2> QED BY <2>2, <2>3
<1> QED BY <1>1, Invariance, PTL

\* Without stacking no decision is undone by confirming the rest.
THEOREM ReviewKeepsVerdict == Spec => []VerdictSurvivesReview
<1>1. IInv => VerdictSurvivesReview
  <2> DEFINE d == case.document
             c == Confirmed(d)
             after == EvaluateCompliance(case.profile, c, case.today)
             statuses == Findings(case.profile, c, case.today)
  <2> SUFFICES ASSUME IInv, label \in {"COMPLIANT", "NON_COMPLIANT"}, ~Stacks
               PROVE  after = label
    BY DEF VerdictSurvivesReview
  <2>1. label = EvaluateCompliance(case.profile, d, case.today)
    BY LabelGiven DEF Labels, CaseEvaluated
  <2>2. case.profile # None
    BY <2>1 DEF EvaluateCompliance, Findings, Label
  <2>3. IsDocument(d) /\ IsDocument(c) /\ SureDocument(c)
        /\ \A r \in case.profile : IsRequirement(r)
    BY <2>2, CaseTypes, ConfirmedDocument
  <2>4. \A r \in case.profile : r.required => \A t \in DOMAIN r.limits : ~r.limits[t].stack
    BY DEF Stacks, Required
  <2>5. statuses = UNION {CoverageFindings(r, c, case.today) : r \in case.profile}
    BY <2>2 DEF Findings
  <2>6. "UNKNOWN" \notin statuses
    <3> SUFFICES ASSUME NEW r \in case.profile, "UNKNOWN" \in CoverageFindings(r, c, case.today)
                 PROVE  FALSE
      BY <2>5
    <3>1. r.required /\ \E t \in DOMAIN r.limits : CanOverflow(r, c, t)
      BY <2>3, CoverageDecided
    <3> QED BY <2>4, <3>1 DEF CanOverflow
  <2>7. CASE label = "NON_COMPLIANT"
    <3>1. "FAIL" \in Findings(case.profile, d, case.today)
      BY <2>1, <2>7 DEF EvaluateCompliance, Label
    <3>2. PICK r \in case.profile : "FAIL" \in CoverageFindings(r, d, case.today)
      BY <2>2, <3>1 DEF Findings
    <3>3. r.required
      BY <3>2 DEF CoverageFindings
    <3>4. ~Satisfied(r, c, case.today)
      BY <2>3, <2>4, <3>2, <3>3, FailureStays
    <3>5. CoverageFindings(r, c, case.today) \cap {"FAIL", "UNKNOWN"} # {}
      BY <2>3, <3>3, <3>4, CoveragePass
    <3>6. "FAIL" \in statuses
      BY <2>5, <2>6, <3>5
    <3> QED BY <2>7, <3>6 DEF EvaluateCompliance, Label
  <2>8. CASE label = "COMPLIANT"
    <3>1. /\ \E r \in case.profile : r.required
          /\ \A r \in case.profile :
                CoverageFindings(r, d, case.today) \cap {"FAIL", "UNKNOWN"} = {}
      BY <2>1, <2>8, CompliantFindings
    <3>2. \A r \in case.profile : r.required => Satisfied(r, c, case.today)
      BY <2>3, <2>4, <3>1, CoveragePass, SatisfactionStays
    <3>3. \A r \in case.profile : "FAIL" \notin CoverageFindings(r, c, case.today)
      BY <2>3, <3>2, CoverageNoFail DEF SureDocument
    <3>4. "FAIL" \notin statuses
      BY <2>5, <3>3
    <3>5. PICK r \in case.profile : r.required
      BY <3>1
    <3>6. "PASS" \in CoverageFindings(r, c, case.today)
      <4> DEFINE p == c.policies[Selected(r, c, case.today)]
                 chosen == PolicyFindings(r, c, p, case.today)
      <4>1. Candidates(r, c) # {}
        BY <3>2, <3>5 DEF Satisfied
      <4>2. IsPolicy(p) /\ SurePolicy(p)
        BY <2>3, <4>1, SelectedFirst DEF Candidates, IsDocument, SureDocument
      <4>3. CoverageStatus(c, p) = "PASS"
        BY <2>3, <4>2
        DEF CoverageStatus, IsConfirmed, SureDocument, SurePolicy, Sure, IsPolicy, IsFact
      <4>4. ListsFindings(chosen, r, c, p, case.today)
        <5> HIDE DEF p, c
        <5> QED BY <2>3, FindingCases
      <4>5. "COVERAGE" \in DOMAIN chosen /\ chosen["COVERAGE"] = "PASS"
        <5> HIDE DEF chosen, p, c
        <5> QED BY <4>3, <4>4 DEF ListsFindings
      <4>6. {chosen[k] : k \in DOMAIN chosen} \subseteq CoverageFindings(r, c, case.today)
        BY <3>5, <4>1, CoverageCases DEF FindingsOf
      <4> HIDE DEF chosen
      <4> QED BY <4>5, <4>6
    <3>7. "PASS" \in statuses
      BY <2>5, <3>6
    <3> QED BY <2>6, <2>8, <3>4, <3>7 DEF EvaluateCompliance, Label
  <2> QED BY <2>7, <2>8
<1> QED BY <1>1, Invariance, PTL

-----------------------------------------------------------------------------
(* The numbering of the rows.                                              *)

\* Two documents with the same rows, under ids that f maps to each other.
SameRows(d, e, f) ==
    /\ e.reviewed = d.reviewed /\ e.endorsements = d.endorsements
    /\ DOMAIN e.policies = {f[i] : i \in DOMAIN d.policies}
    /\ \A i \in DOMAIN d.policies : e.policies[f[i]] = d.policies[i]

\* A document is renumbered into one with the same rows.
LEMMA RenumberedRows ==
    ASSUME NEW d, IsDocument(d), NEW f \in Renumberings
    PROVE  IsDocument(Renumbered(d, f)) /\ SameRows(d, Renumbered(d, f), f)
<1> DEFINE e == Renumbered(d, f)
           ids == {f[i] : i \in DOMAIN d.policies}
           rows == [j \in ids |-> d.policies[CHOOSE i \in DOMAIN d.policies : f[i] = j]]
<1>1. /\ DOMAIN e = DOMAIN d /\ e.policies = rows
      /\ e.reviewed = d.reviewed /\ e.endorsements = d.endorsements
  BY DEF Renumbered, IsDocument
<1>2. ASSUME NEW i \in DOMAIN d.policies PROVE rows[f[i]] = d.policies[i]
  <2>1. \A j \in DOMAIN d.policies : f[j] = f[i] => j = i
    BY DEF IsDocument, Renumberings
  <2>2. (CHOOSE j \in DOMAIN d.policies : f[j] = f[i]) = i
    BY <2>1
  <2>3. f[i] \in ids
    OBVIOUS
  <2> QED BY <2>2, <2>3
<1>3. DOMAIN rows = ids
  OBVIOUS
<1>4. ids \subseteq PolicyIds
  BY DEF IsDocument, Renumberings
<1>5. \A j \in ids : IsPolicy(rows[j])
  <2> SUFFICES ASSUME NEW i \in DOMAIN d.policies PROVE IsPolicy(rows[f[i]])
    OBVIOUS
  <2> QED BY <1>2 DEF IsDocument
<1> HIDE DEF rows, e
<1>6. IsDocument(e)
  BY <1>1, <1>3, <1>4, <1>5 DEF IsDocument
<1>7. SameRows(d, e, f)
  BY <1>1, <1>2, <1>3 DEF SameRows
<1> QED BY <1>6, <1>7 DEF e

\* The findings of a row depend on the rows of the document and on nothing
\* else of their order.
LEMMA SameFindings ==
    ASSUME NEW d, NEW e, NEW f, SameRows(d, e, f), NEW r, NEW p, NEW today
    PROVE  PolicyFindings(r, e, p, today) = PolicyFindings(r, d, p, today)
<1>1. {e.policies[j] : j \in DOMAIN e.policies} = {d.policies[i] : i \in DOMAIN d.policies}
  BY DEF SameRows
<1>2. \A u : Umbrellas(e, u) = Umbrellas(d, u)
  BY <1>1, Zenon DEF Umbrellas
<1>3. \A fact : IsConfirmed(e, fact) = IsConfirmed(d, fact)
  BY DEF SameRows, IsConfirmed
<1>4. Undocumented(e) = Undocumented(d)
  BY DEF SameRows, Undocumented
<1>5. \A q, u : Usable(r, e, q, u, today) = Usable(r, d, q, u, today)
  BY <1>3 DEF Usable
<1>6. \A q, u : Indeterminate(e, q, u) = Indeterminate(d, q, u)
  BY DEF SameRows, Indeterminate
<1>7. ASSUME NEW t PROVE UsableRows(r, e, t, today) = UsableRows(r, d, t, today)
  BY <1>2, <1>5 DEF UsableRows
<1>8. ASSUME NEW t, NEW base
      PROVE  StackedStatus(r, e, base, t, today) = StackedStatus(r, d, base, t, today)
  <2> DEFINE TopOf(rows, u) == CHOOSE a \in {q.limits[u].value : q \in rows} :
                                  \A q \in rows : q.limits[u].value <= a
  <2>1. \A x : Top(r, x, t, today) = TopOf(UsableRows(r, x, t, today), UmbrellaLimitType(r, t))
    BY Zenon DEF Top
  <2> HIDE DEF TopOf
  <2>2. Top(r, e, t, today) = Top(r, d, t, today)
    BY <1>7, <2>1
  <2> QED BY <1>2, <1>6, <1>7, <2>2, StackedCases
<1>9. ASSUME NEW t PROVE LimitStatus(r, e, p, t, today) = LimitStatus(r, d, p, t, today)
  BY <1>3, <1>4, <1>8 DEF LimitStatus
<1>10. /\ CoverageStatus(e, p) = CoverageStatus(d, p)
       /\ PeriodStatus(r, e, p, today) = PeriodStatus(r, d, p, today)
       /\ \A fact : FieldStatus(e, fact) = FieldStatus(d, fact)
  BY <1>3, <1>4 DEF CoverageStatus, PeriodStatus, FieldStatus
<1> QED BY <1>9, <1>10 DEF PolicyFindings

\* So the candidates are the same rows, with the same findings.
LEMMA SameCandidates ==
    ASSUME NEW d, NEW e, NEW f, SameRows(d, e, f), NEW r, NEW today
    PROVE  /\ Candidates(r, e) = {f[i] : i \in Candidates(r, d)}
           /\ \A i \in Candidates(r, d) :
                FindingsOf(r, e, f[i], today) = FindingsOf(r, d, i, today)
<1>1. Candidates(r, e) = {f[i] : i \in Candidates(r, d)}
  BY DEF Candidates, SameRows
<1>2. \A i \in Candidates(r, d) : FindingsOf(r, e, f[i], today) = FindingsOf(r, d, i, today)
  BY SameFindings DEF Candidates, SameRows, FindingsOf
<1> QED BY <1>1, <1>2

\* A row shows a status exactly if it counts one.
LEMMA CountsTell ==
    ASSUME NEW r, IsRequirement(r), NEW d, NEW i, NEW today, NEW status
    PROVE  (Count(FindingsOf(r, d, i, today), status) = 0)
              = (status \notin {FindingsOf(r, d, i, today)[k] :
                                  k \in DOMAIN FindingsOf(r, d, i, today)})
<1> DEFINE found == FindingsOf(r, d, i, today)
           S == {k \in DOMAIN found : found[k] = status}
<1>1. IsFiniteSet(S)
  BY FindingsFinite
<1>2. Count(found, status) = Cardinality(S)
  BY DEF Count
<1> HIDE DEF found
<1>3. (Cardinality(S) = 0) <=> (S = {})
  BY <1>1, FS_EmptySet
<1>4. (S = {}) <=> (status \notin {found[k] : k \in DOMAIN found})
  OBVIOUS
<1> QED BY <1>2, <1>3, <1>4 DEF found

\* Whichever row the order selects, it counts as many failures and as many
\* open questions.
LEMMA SameCounts ==
    ASSUME NEW d, IsDocument(d), NEW e, IsDocument(e), NEW f, SameRows(d, e, f),
           NEW r, IsRequirement(r), NEW today, Candidates(r, d) # {}
    PROVE  \A status \in {"FAIL", "UNKNOWN"} :
              Count(FindingsOf(r, e, Selected(r, e, today), today), status)
                = Count(FindingsOf(r, d, Selected(r, d, today), today), status)
<1> DEFINE fails(x, k) == Count(FindingsOf(r, x, k, today), "FAIL")
           unknowns(x, k) == Count(FindingsOf(r, x, k, today), "UNKNOWN")
           a == Selected(r, d, today)
           b == Selected(r, e, today)
<1>1. Candidates(r, e) # {}
  BY SameCandidates
<1>2. /\ a \in Candidates(r, d)
      /\ \A j \in Candidates(r, d) : Precedes(r, d, today, a, j)
  BY SelectedFirst
<1>3. /\ b \in Candidates(r, e)
      /\ \A j \in Candidates(r, e) : Precedes(r, e, today, b, j)
  BY <1>1, SelectedFirst
<1>4. PICK c \in Candidates(r, d) : b = f[c]
  BY <1>3, SameCandidates
<1>5. /\ fails(e, f[a]) = fails(d, a) /\ unknowns(e, f[a]) = unknowns(d, a)
      /\ fails(e, b) = fails(d, c) /\ unknowns(e, b) = unknowns(d, c)
  BY <1>2, <1>4, SameCandidates
<1>6. Precedes(r, d, today, a, c) /\ Precedes(r, e, today, b, f[a])
  BY <1>2, <1>3, SameCandidates
<1>7. /\ fails(d, a) < fails(d, c)
         \/ (fails(d, a) = fails(d, c) /\ unknowns(d, a) <= unknowns(d, c))
      /\ fails(e, b) < fails(e, f[a])
         \/ (fails(e, b) = fails(e, f[a]) /\ unknowns(e, b) <= unknowns(e, f[a]))
  <2>1. \A x, k : fails(x, k) \in Nat /\ unknowns(x, k) \in Nat
    BY CountType
  <2>2. ASSUME NEW x, NEW k, NEW l, Precedes(r, x, today, k, l)
        PROVE  fails(x, k) < fails(x, l)
               \/ (fails(x, k) = fails(x, l) /\ unknowns(x, k) <= unknowns(x, l))
    <3>1. \/ fails(x, k) < fails(x, l)
          \/ fails(x, k) = fails(x, l) /\ unknowns(x, k) < unknowns(x, l)
          \/ fails(x, k) = fails(x, l) /\ unknowns(x, k) = unknowns(x, l)
      BY <2>2 DEF Precedes
    <3> HIDE DEF fails, unknowns
    <3> QED BY <2>1, <3>1
  <2> HIDE DEF fails, unknowns, a, b
  <2> QED BY <1>6, <2>2
<1>8. /\ fails(d, a) \in Nat /\ fails(d, c) \in Nat
      /\ unknowns(d, a) \in Nat /\ unknowns(d, c) \in Nat
  BY CountType
<1>9. fails(e, b) = fails(d, a) /\ unknowns(e, b) = unknowns(d, a)
  <2> HIDE DEF fails, unknowns, a, b
  <2> QED BY <1>5, <1>7, <1>8
<1> QED BY <1>9

\* Findings of which only failures and open questions are told apart, and
\* passes where there is neither, make the same label.
Alike(S, T) ==
    /\ ("FAIL" \in S) = ("FAIL" \in T)
    /\ ("UNKNOWN" \in S) = ("UNKNOWN" \in T)
    /\ "FAIL" \notin S /\ "UNKNOWN" \notin S => ("PASS" \in S) = ("PASS" \in T)

\* One requirement makes alike findings of both numberings.
LEMMA AlikeRows ==
    ASSUME NEW d, IsDocument(d), NEW e, IsDocument(e), NEW f, SameRows(d, e, f),
           NEW r, IsRequirement(r), NEW today
    PROVE  Alike(CoverageFindings(r, d, today), CoverageFindings(r, e, today))
<1> DEFINE found(x) == FindingsOf(r, x, Selected(r, x, today), today)
           shown(x) == {found(x)[k] : k \in DOMAIN found(x)}
           others(x) == {EndorsementStatus(n, x) : n \in r.endorsements}
<1>1. Undocumented(e) = Undocumented(d)
  BY DEF SameRows, Undocumented
<1>2. (Candidates(r, d) = {}) <=> (Candidates(r, e) = {})
  BY SameCandidates
<1>3. CASE ~r.required \/ Candidates(r, d) = {}
  BY <1>1, <1>2, <1>3 DEF CoverageFindings, Alike
<1>4. CASE r.required /\ Candidates(r, d) # {}
  <2>1. /\ CoverageFindings(r, d, today) = shown(d) \cup others(d)
        /\ CoverageFindings(r, e, today) = shown(e) \cup others(e)
    BY <1>2, <1>4, CoverageCases
  <2>2. others(e) = others(d)
    <3>1. \A fact : IsConfirmed(e, fact) = IsConfirmed(d, fact)
      BY DEF SameRows, IsConfirmed
    <3>2. \A n : MatchingRows(n, e) = MatchingRows(n, d)
      BY DEF SameRows, MatchingRows
    <3>3. ASSUME NEW n PROVE Best(n, e) = Best(n, d)
      <4> DEFINE BestOf(rows, evidence) ==
                   LET level(i) == evidence[i].level.value
                   IN  CHOOSE i \in rows : \A j \in rows :
                           level(i) > level(j) \/ (level(i) = level(j) /\ i <= j)
      <4>1. \A x : Best(n, x) = BestOf(MatchingRows(n, x), x.endorsements)
        BY Zenon DEF Best
      <4> HIDE DEF BestOf
      <4> QED BY <3>2, <4>1 DEF SameRows
    <3>4. \A n : EndorsementStatus(n, e) = EndorsementStatus(n, d)
      BY <1>1, <3>1, <3>2, <3>3 DEF SameRows, EndorsementStatus, IdentityConfirmed
    <3> QED BY <3>4
  <2>3. \A status \in {"FAIL", "UNKNOWN"} : (status \in shown(e)) = (status \in shown(d))
    <3> SUFFICES ASSUME NEW status \in {"FAIL", "UNKNOWN"}
                 PROVE  (status \in shown(e)) = (status \in shown(d))
      OBVIOUS
    <3>1. Count(found(e), status) = Count(found(d), status)
      BY <1>4, SameCounts
    <3>2. /\ (Count(found(e), status) = 0) = (status \notin shown(e))
          /\ (Count(found(d), status) = 0) = (status \notin shown(d))
      BY CountsTell
    <3> HIDE DEF found, shown
    <3> QED BY <3>1, <3>2
  <2>4. ASSUME NEW x \in {d, e}, "FAIL" \notin shown(x), "UNKNOWN" \notin shown(x)
        PROVE  "PASS" \in shown(x)
    <3>1. \A k \in DOMAIN found(x) : found(x)[k] \in {"PASS", "FAIL", "UNKNOWN"}
      BY FindingStatuses DEF FindingsOf
    <3>2. "COVERAGE" \in DOMAIN found(x)
      BY DEF FindingsOf, PolicyFindings
    <3> HIDE DEF found
    <3> QED BY <2>4, <3>1, <3>2
  <2> HIDE DEF shown, others
  <2> QED BY <2>1, <2>2, <2>3, <2>4 DEF Alike
<1> QED BY <1>3, <1>4

\* Requirements with alike findings give the document the same label.
LEMMA AlikeLabels ==
    ASSUME NEW profile, NEW d, NEW e, NEW today, profile # None,
           \A r \in profile :
              Alike(CoverageFindings(r, d, today), CoverageFindings(r, e, today))
    PROVE  EvaluateCompliance(profile, e, today) = EvaluateCompliance(profile, d, today)
<1>1. /\ Findings(profile, d, today) = UNION {CoverageFindings(r, d, today) : r \in profile}
      /\ Findings(profile, e, today) = UNION {CoverageFindings(r, e, today) : r \in profile}
  BY DEF Findings
<1>2. ("FAIL" \in Findings(profile, e, today)) = ("FAIL" \in Findings(profile, d, today))
  BY <1>1 DEF Alike
<1>3. ("UNKNOWN" \in Findings(profile, e, today)) = ("UNKNOWN" \in Findings(profile, d, today))
  BY <1>1 DEF Alike
<1>4. ASSUME "FAIL" \notin Findings(profile, d, today),
             "UNKNOWN" \notin Findings(profile, d, today)
      PROVE  ("PASS" \in Findings(profile, e, today)) = ("PASS" \in Findings(profile, d, today))
  BY <1>1, <1>4 DEF Alike
<1> QED BY <1>2, <1>3, <1>4 DEF EvaluateCompliance, Label

\* The label does not depend on the order in which the rows are numbered.
THEOREM OrderIrrelevant == Spec => []PolicyOrderIrrelevant
<1>1. IInv => PolicyOrderIrrelevant
  <2> SUFFICES ASSUME IInv, label # None, NEW f \in Renumberings
               PROVE  EvaluateCompliance(case.profile, Renumbered(case.document, f), case.today)
                        = label
    BY DEF PolicyOrderIrrelevant
  <2> DEFINE d == case.document
             e == Renumbered(d, f)
  <2>1. label = EvaluateCompliance(case.profile, d, case.today)
    BY DEF IInv, CaseEvaluated
  <2>2. CASE case.profile = None
    BY <2>1, <2>2 DEF EvaluateCompliance, Findings
  <2>3. CASE case.profile # None
    <3>1. IsDocument(d) /\ \A r \in case.profile : IsRequirement(r)
      BY <2>3, CaseTypes
    <3>2. IsDocument(e) /\ SameRows(d, e, f)
      BY <3>1, RenumberedRows
    <3> HIDE DEF d, e
    <3>3. \A r \in case.profile :
            Alike(CoverageFindings(r, d, case.today), CoverageFindings(r, e, case.today))
      BY <3>1, <3>2, AlikeRows
    <3> QED BY <2>1, <2>3, <3>3, AlikeLabels DEF d, e
  <2> QED BY <2>2, <2>3
<1> QED BY <1>1, Invariance, PTL

-----------------------------------------------------------------------------
(* Sequences that only grow.                                               *)

IsHistory(h) == h \in Seq({h[n] : n \in DOMAIN h})

\* What an append leaves and adds.
LEMMA AppendHistory ==
    ASSUME NEW h, IsHistory(h), NEW e
    PROVE  /\ IsHistory(Append(h, e))
           /\ Len(h) \in Nat /\ DOMAIN h = 1..Len(h)
           /\ Len(Append(h, e)) = Len(h) + 1 /\ DOMAIN Append(h, e) = 1..(Len(h) + 1)
           /\ \A n \in 1..Len(h) : Append(h, e)[n] = h[n]
           /\ Append(h, e)[Len(h) + 1] = e
<1> DEFINE S == {h[n] : n \in DOMAIN h} \cup {e}
           g == Append(h, e)
<1>1. h \in Seq(S) /\ e \in S
  BY SeqMonotonic DEF IsHistory
<1>2. /\ g \in Seq(S) /\ Len(g) = Len(h) + 1
      /\ \A n \in 1..Len(h) : g[n] = h[n]
      /\ g[Len(h) + 1] = e
  BY <1>1, AppendProperties
<1>3. Len(h) \in Nat /\ DOMAIN h = 1..Len(h) /\ DOMAIN g = 1..Len(g)
  BY <1>1, <1>2, LenProperties
<1>4. g \in Seq({g[n] : n \in DOMAIN g})
  <2>1. g = [n \in 1..Len(g) |-> g[n]] /\ Len(g) \in Nat
    BY <1>2, <1>3, LenProperties
  <2>2. \A n \in 1..Len(g) : g[n] \in {g[k] : k \in DOMAIN g}
    BY <1>3
  <2> HIDE DEF g
  <2>3. [n \in 1..Len(g) |-> g[n]] \in Seq({g[k] : k \in DOMAIN g})
    BY <2>1, <2>2, IsASeq
  <2> QED BY <2>1, <2>3
<1> QED BY <1>2, <1>3, <1>4 DEF IsHistory

\* The beginning of a history.
LEMMA Beginning ==
    ASSUME NEW h, IsHistory(h), NEW k \in 0..Len(h)
    PROVE  /\ DOMAIN SubSeq(h, 1, k) = 1..k /\ Len(SubSeq(h, 1, k)) = k
           /\ \A n \in 1..k : SubSeq(h, 1, k)[n] = h[n]
<1> DEFINE S == {h[n] : n \in DOMAIN h}
<1>1. h \in Seq(S) /\ Len(h) \in Nat /\ k \in Nat
  BY LenProperties DEF IsHistory
<1> HIDE DEF S
<1> QED BY <1>1, SubSeqProperties

\* The events about a certificate in the beginning of a chain.
LEMMA RelatedUpTo ==
    ASSUME NEW h, IsHistory(h), NEW k \in 0..Len(h), NEW c
    PROVE  Related(SubSeq(h, 1, k), c) = {h[n] : n \in {i \in 1..k : h[i].about = c}}
<1> DEFINE s == SubSeq(h, 1, k)
<1>1. DOMAIN s = 1..k /\ \A n \in 1..k : s[n] = h[n]
  BY Beginning
<1> HIDE DEF s
<1>2. {i \in DOMAIN s : s[i].about = c} = {i \in 1..k : h[i].about = c}
  BY <1>1
<1>3. {s[n] : n \in {i \in 1..k : h[i].about = c}}
        = {h[n] : n \in {i \in 1..k : h[i].about = c}}
  BY <1>1
<1> QED BY <1>2, <1>3 DEF Related, s

-----------------------------------------------------------------------------
(* The chain.                                                              *)

Chained(h) ==
    /\ IsHistory(h)
    /\ \A n \in DOMAIN h :
          /\ h[n].sequence = n
          /\ h[n].previous = IF n = 1 THEN Genesis ELSE Hash(h[n - 1])

\* A chain is numbered from 1 without gaps.
LEMMA LengthOf ==
    ASSUME NEW h, Chained(h) PROVE Len(h) \in Nat /\ DOMAIN h = 1..Len(h)
BY LenProperties DEF Chained, IsHistory

\* The head of a chain.
LEMMA HeadOf ==
    ASSUME NEW h, IsHistory(h)
    PROVE  HeadHash(h) = IF Len(h) = 0 THEN Genesis ELSE Hash(h[Len(h)])
<1>1. h = <<>> <=> Len(h) = 0
  BY EmptySeq, LenProperties DEF IsHistory
<1> QED BY <1>1 DEF HeadHash

\* An append keeps it a chain.
LEMMA ChainGrows ==
    ASSUME NEW h, Chained(h), NEW action, NEW about
    PROVE  /\ Chained(Appended(h, action, about))
           /\ Len(Appended(h, action, about)) = Len(h) + 1
           /\ \A n \in 1..Len(h) : Appended(h, action, about)[n] = h[n]
           /\ Appended(h, action, about)[Len(h) + 1].about = about
<1> DEFINE e == [sequence |-> Len(h) + 1, action |-> action, about |-> about,
                 previous |-> HeadHash(h)]
           g == Append(h, e)
<1>1. g = Appended(h, action, about)
  BY DEF Appended
<1>2. /\ IsHistory(g) /\ Len(h) \in Nat /\ DOMAIN h = 1..Len(h)
      /\ Len(g) = Len(h) + 1 /\ DOMAIN g = 1..(Len(h) + 1)
      /\ \A n \in 1..Len(h) : g[n] = h[n]
      /\ g[Len(h) + 1] = e
  BY AppendHistory DEF Chained
<1>3. e.sequence = Len(h) + 1 /\ e.about = about /\ e.previous = HeadHash(h)
  OBVIOUS
<1>4. HeadHash(h) = IF Len(h) = 0 THEN Genesis ELSE Hash(h[Len(h)])
  BY HeadOf DEF Chained
<1> HIDE DEF e, g
<1>5. ASSUME NEW n \in DOMAIN g
      PROVE  /\ g[n].sequence = n
             /\ g[n].previous = IF n = 1 THEN Genesis ELSE Hash(g[n - 1])
  <2>1. CASE n \in 1..Len(h)
    <3>1. g[n] = h[n] /\ (n # 1 => n - 1 \in 1..Len(h) /\ g[n - 1] = h[n - 1])
      BY <2>1, <1>2
    <3> QED BY <3>1, <2>1, <1>2 DEF Chained
  <2>2. CASE n = Len(h) + 1
    <3>1. n # 1 => Len(h) \in 1..Len(h) /\ n - 1 = Len(h) /\ Len(h) # 0
      BY <2>2, <1>2
    <3>2. n = 1 => Len(h) = 0
      BY <2>2, <1>2
    <3> QED BY <3>1, <3>2, <2>2, <1>2, <1>3, <1>4
  <2> QED BY <2>1, <2>2, <1>2
<1> QED BY <1>1, <1>2, <1>3, <1>5 DEF Chained

\* A chain verifies.
LEMMA ChainVerifies ==
    ASSUME NEW h, Chained(h)
    PROVE  Verification(h) = [valid |-> TRUE, checked |-> Len(h)]
<1>1. ASSUME NEW n \in DOMAIN h PROVE Links(h, n)
  <2>1. n \in 1..Len(h) /\ Len(h) \in Nat /\ n - 1 \in 0..Len(h) /\ IsHistory(h)
    BY LengthOf DEF Chained
  <2> DEFINE s == SubSeq(h, 1, n - 1)
  <2>2. /\ DOMAIN s = 1..(n - 1) /\ Len(s) = n - 1
        /\ \A k \in 1..(n - 1) : s[k] = h[k]
    BY <2>1, Beginning
  <2>3. s = <<>> <=> n = 1
    <3>1. s = <<>> => Len(s) = 0
      BY EmptySeq
    <3>2. n = 1 => s = <<>>
      <4>1. ASSUME n = 1 PROVE s = <<>>
        <5>1. h \in Seq({h[k] : k \in DOMAIN h})
          BY <2>1 DEF IsHistory
        <5> QED BY <4>1, <5>1, SubSeqEmpty
      <4> QED BY <4>1
    <3> QED BY <3>1, <3>2, <2>1, <2>2
  <2> HIDE DEF s
  <2>4. HeadHash(s) = IF n = 1 THEN Genesis ELSE Hash(h[n - 1])
    <3>1. CASE n = 1
      BY <3>1, <2>3 DEF HeadHash
    <3>2. CASE n # 1
      <4>1. n - 1 \in 1..(n - 1) /\ s # <<>>
        BY <3>2, <2>1, <2>3
      <4> QED BY <4>1, <3>2, <2>2 DEF HeadHash
    <3> QED BY <3>1, <3>2
  <2> QED BY <2>4 DEF Links, Chained, s
<1> QED BY <1>1 DEF Verification

-----------------------------------------------------------------------------
(* What is true of every certificate.                                      *)

\* Strong evidence of what a person confirmed is on pages the PDF has, but for a
\* row that was confirmed before page counts were recorded.
Sealed(x) ==
    HumanConfirmed(x) /\ (x.count # Null \/ x.sent # Null) =>
        \A i \in DOMAIN x.policies :
            Strong(x.policies[i]) =>
                x.count # Null /\ x.policies[i].pages # {}
                    /\ x.policies[i].pages \subseteq 1..x.count

CertificateFits(x) ==
    /\ x \in Certificate
    /\ HumanConfirmed(x) => x.by \in Staff
    /\ x.at <=> x.by # Null
    /\ MachineProposal(x) = x.sent
    /\ x.status = "draft" => x.sent # Null
    /\ Sealed(x)

CertsFit ==
    /\ certs \in [Certs -> Certificate \cup {Null}]
    /\ \A c \in Certs : certs[c] # Null => CertificateFits(certs[c])
    /\ rules \in Nat

\* Policies that are read back are some of those written.
LEMMA ReadBackOf ==
    ASSUME NEW policies \in Seq(Policy), NEW q \in ReadBack(policies)
    PROVE  /\ q \in Seq(Policy) /\ DOMAIN q = DOMAIN policies
           /\ \A i \in DOMAIN q : \E j \in DOMAIN policies : q[i] = policies[j]
<1>1. q \in [DOMAIN policies -> {policies[i] : i \in DOMAIN policies}]
  BY DEF ReadBack
<1>2. DOMAIN policies = 1..Len(policies) /\ Len(policies) \in Nat
      /\ \A i \in DOMAIN policies : policies[i] \in Policy
  BY LenProperties, ElementOfSeq
<1>3. q = [i \in 1..Len(policies) |-> q[i]] /\ \A i \in 1..Len(policies) : q[i] \in Policy
  BY <1>1, <1>2
<1>4. q \in Seq(Policy)
  BY <1>2, <1>3, IsASeq
<1> QED BY <1>1, <1>4

\* Evidence within the document, read back, is sealed.
LEMMA WithinIsSealed ==
    ASSUME NEW s \in Submission, NEW count \in PageCounts \cup {Null},
           WithinSourceDocument(s, count),
           NEW q \in ReadBack(s.policies), NEW x, x.policies = q, x.count = count
    PROVE  Sealed(x)
<1>1. s.policies \in Seq(Policy)
  BY DEF Submission
<1>2. ASSUME NEW i \in DOMAIN q, Strong(q[i])
      PROVE  count # Null /\ q[i].pages # {} /\ q[i].pages \subseteq 1..count
  <2>1. PICK j \in DOMAIN s.policies : q[i] = s.policies[j]
    BY <1>1, ReadBackOf
  <2>2. count # Null
    BY <1>2, <2>1 DEF WithinSourceDocument
  <2> QED BY <1>2, <2>1, <2>2 DEF WithinSourceDocument, CorrectionParses
<1> QED BY <1>2 DEF Sealed

\* What was never decided has nothing to seal.
LEMMA UndecidedIsSealed ==
    ASSUME NEW x, ~HumanConfirmed(x) PROVE Sealed(x)
BY DEF Sealed

\* Rows of an earlier version.
LEMMA LegacyFits ==
    ASSUME NEW x \in LegacyRows PROVE CertificateFits(x)
<1> USE EvidenceAssumption
<1>1. NoSnapshot \in [version : Nat, ruleset : Nat]
  BY DEF NoSnapshot
<1>2. ASSUME NEW s \in Submission, s.status = "UNCONFIRMED", x = LegacyRow(s, "draft", Null)
      PROVE  CertificateFits(x)
  <2>1. s.policies \in Seq(Policy)
    BY DEF Submission
  <2>2. x \in Certificate
    BY <1>1, <1>2, <2>1 DEF LegacyRow, Certificate
  <2>3. x.status = "draft" /\ x.by = Null /\ ~x.at /\ x.proposal = Null
        /\ x.extraction = s /\ x.sent = s
    BY <1>2 DEF LegacyRow
  <2> QED BY <2>2, <2>3, UndecidedIsSealed DEF CertificateFits, HumanConfirmed, MachineProposal
<1>3. ASSUME NEW s \in Submission, NEW u \in Staff, x = LegacyRow(s, "confirmed", u)
      PROVE  CertificateFits(x)
  <2>1. s.policies \in Seq(Policy)
    BY DEF Submission
  <2>2. x \in Certificate
    BY <1>1, <1>3, <2>1 DEF LegacyRow, Certificate
  <2>3. x.status = "confirmed" /\ x.by = u /\ x.at /\ x.proposal = Null
        /\ x.sent = Null /\ x.count = Null
    BY <1>3 DEF LegacyRow
  <2> QED BY <2>2, <2>3 DEF CertificateFits, HumanConfirmed, MachineProposal, Sealed
<1> QED BY <1>2, <1>3 DEF LegacyRows

\* The row an upload makes.
LEMMA IngestedFits ==
    ASSUME CertsFit, NEW c \in Certs, NEW sent \in Submissions,
           NEW by \in Staff \cup {Outside}, NEW n \in PageCounts, Ingest(c, sent, by, n)
    PROVE  CertificateFits(certs'[c])
<1> USE EvidenceAssumption
<1> DEFINE s == Parsed(sent, by)
           confirmed == s.status = "CONFIRMED"
           known == confirmed /\ by # Outside
           row(stored) ==
              [sent |-> IF known THEN Null ELSE s, extraction |-> s,
               count |-> n, policies |-> stored,
               status |-> IF confirmed THEN "confirmed" ELSE "draft",
               by |-> IF known THEN by ELSE Null, at |-> known,
               proposal |-> Proposal(s), snapshot |-> Evaluated]
<1>1. s \in Submission /\ (by = Outside => s.status = "UNCONFIRMED")
  BY DEF Parsed, Submission
<1>2. PICK stored \in ReadBack(s.policies) : certs'[c] = row(stored)
  <2>1. \E stored \in ReadBack(s.policies) : certs' = [certs EXCEPT ![c] = row(stored)]
    BY DEF Ingest
  <2> QED BY <2>1 DEF CertsFit
<1>3. WithinSourceDocument(s, n)
  BY DEF Ingest
<1>4. s.status \in {"UNCONFIRMED", "CONFIRMED"} /\ s.policies \in Seq(Policy)
  BY <1>1 DEF Submission
<1> DEFINE x == row(stored)
<1>5. stored \in Seq(Policy)
  BY <1>4, ReadBackOf
<1>6. Evaluated \in [version : Nat, ruleset : Nat]
  BY DEF Evaluated, CertsFit
<1>7. Proposal(s) = IF confirmed THEN Null ELSE s
  BY <1>4 DEF Proposal
<1>8. known = confirmed
  BY <1>1
<1> HIDE DEF s
<1>9. x \in Certificate
  <2>1. CASE confirmed
    BY <1>1, <1>5, <1>6, <1>7, <1>8, <2>1 DEF Certificate
  <2>2. CASE ~confirmed
    BY <1>1, <1>5, <1>6, <1>7, <1>8, <2>2 DEF Certificate
  <2> QED BY <2>1, <2>2
<1>10. Sealed(x)
  BY <1>1, <1>3, WithinIsSealed
<1>11. /\ x.status = (IF confirmed THEN "confirmed" ELSE "draft")
       /\ x.sent = (IF confirmed THEN Null ELSE s)
       /\ x.by = (IF confirmed THEN by ELSE Null) /\ x.at = confirmed
       /\ x.proposal = (IF confirmed THEN Null ELSE s)
  BY <1>7, <1>8
<1> HIDE DEF row
<1>12. CASE confirmed
  <2>1. by \in Staff /\ x.status = "confirmed" /\ x.sent = Null /\ x.by = by /\ x.at
        /\ x.proposal = Null
    BY <1>1, <1>11, <1>12
  <2> HIDE DEF x, confirmed
  <2> QED BY <1>2, <1>9, <1>10, <2>1 DEF CertificateFits, HumanConfirmed, MachineProposal, x
<1>13. CASE ~confirmed
  BY <1>1, <1>2, <1>9, <1>10, <1>11, <1>13 DEF CertificateFits, HumanConfirmed, MachineProposal
<1> QED BY <1>12, <1>13

\* The row a confirmation makes.
LEMMA ConfirmedFits ==
    ASSUME CertsFit, NEW c \in Certs, NEW by \in Staff, NEW policies, Confirm(c, by, policies),
           policies \in Corrections \/ policies = certs[c].extraction.policies
    PROVE  /\ certs' = [certs EXCEPT ![c] = certs'[c]]
           /\ CertificateFits(certs'[c])
           /\ certs'[c].sent = certs[c].sent /\ certs'[c].count = certs[c].count
<1> USE EvidenceAssumption
<1> DEFINE x == certs[c]
           s == [x.extraction EXCEPT !.policies = policies, !.status = "CONFIRMED"]
           row(stored) ==
              [x EXCEPT !.extraction = s, !.policies = stored, !.status = "confirmed",
                        !.by = by, !.at = TRUE, !.proposal = Snapshot(x),
                        !.snapshot = Evaluated]
<1>1. CertificateFits(x) /\ x \in Certificate /\ x.status = "draft"
  BY DEF Confirm, CertsFit, CertificateFits
<1>2. PICK stored \in ReadBack(policies) : certs' = [certs EXCEPT ![c] = row(stored)]
  BY DEF Confirm
<1>3. certs'[c] = row(stored) /\ certs' = [certs EXCEPT ![c] = certs'[c]]
  BY <1>2 DEF CertsFit
<1>4. x.extraction \in Submission /\ policies \in Seq(Policy)
  BY <1>1 DEF Certificate, Submission
<1>5. s \in Submission /\ s.policies = policies
  BY <1>4 DEF Submission
<1>6. Snapshot(x) = x.sent /\ x.sent \in Submission
  BY <1>1 DEF CertificateFits, MachineProposal, HumanConfirmed, Snapshot, Certificate
<1>7. stored \in Seq(Policy)
  BY <1>4, ReadBackOf
<1>8. Evaluated \in [version : Nat, ruleset : Nat]
  BY DEF Evaluated, CertsFit
<1>9. WithinSourceDocument(s, x.count) /\ x.count \in PageCounts \cup {Null}
  BY <1>1 DEF Confirm, Certificate
<1> DEFINE y == row(stored)
<1> HIDE DEF s
<1>10. y \in Certificate
  BY <1>1, <1>5, <1>6, <1>7, <1>8 DEF Certificate
<1>11. /\ y.sent = x.sent /\ y.count = x.count /\ y.status = "confirmed" /\ y.by = by
       /\ y.at = TRUE /\ y.proposal = x.sent /\ y.policies = stored
  BY <1>1, <1>6 DEF Certificate
<1> HIDE DEF y
<1>12. Sealed(y)
  BY <1>5, <1>9, <1>11, WithinIsSealed
<1>13. CertificateFits(y)
  BY <1>6, <1>10, <1>11, <1>12 DEF CertificateFits, HumanConfirmed, MachineProposal
<1> QED BY <1>3, <1>11, <1>13 DEF y

\* The row a rejection leaves.
LEMMA RejectedFits ==
    ASSUME CertsFit, NEW c \in Certs, Reject(c)
    PROVE  /\ certs' = [certs EXCEPT ![c] = certs'[c]]
           /\ CertificateFits(certs'[c])
           /\ certs'[c].sent = certs[c].sent /\ certs'[c].count = certs[c].count
<1> DEFINE x == certs[c]
           y == [x EXCEPT !.status = "rejected"]
<1>1. CertificateFits(x) /\ x \in Certificate /\ x.status = "draft"
  BY DEF Reject, CertsFit, CertificateFits
<1>2. certs'[c] = y /\ certs' = [certs EXCEPT ![c] = certs'[c]]
  BY DEF Reject, CertsFit
<1>3. y \in Certificate
  BY <1>1 DEF Certificate
<1>4. /\ y.sent = x.sent /\ y.count = x.count /\ y.status = "rejected" /\ y.by = x.by
      /\ y.at = x.at /\ y.proposal = x.proposal /\ y.extraction = x.extraction
  BY <1>1 DEF Certificate
<1> HIDE DEF y
<1>5. CertificateFits(y)
  BY <1>1, <1>3, <1>4, UndecidedIsSealed DEF CertificateFits, HumanConfirmed, MachineProposal
<1> QED BY <1>2, <1>4, <1>5

\* What an export relies on: a certificate that is stored stays, with what arrived
\* and the pages that were counted.
Kept(c) ==
    certs[c] # Null =>
        /\ certs'[c] # Null
        /\ certs'[c].sent = certs[c].sent /\ certs'[c].count = certs[c].count

Changes(c) ==
    \/ \E sent \in Submissions, by \in Staff \cup {Outside}, n \in PageCounts :
          Ingest(c, sent, by, n)
    \/ \E by \in Staff :
          \/ Confirm(c, by, certs[c].extraction.policies)
          \/ \E policies \in Corrections : Confirm(c, by, policies)
    \/ Reject(c)

\* The remaining actions.
Others ==
    \/ Publish \/ AppendReport \/ (\E c \in Certs : StartExport(c))
    \/ VerifyChain \/ ReadHead \/ ReadEvents \/ HandOut \/ Refuse \/ WorkerReports \/ Crash

\* The steps, by whether they change a certificate.
LEMMA StepCases == ASSUME EvidenceNext PROVE (\E c \in Certs : Changes(c)) \/ Others
BY DEF EvidenceNext, Changes, Others

\* A change of a certificate.
LEMMA CertsChange ==
    ASSUME CertsFit, NEW c \in Certs, Changes(c)
    PROVE  CertsFit' /\ \A d \in Certs : Kept(d)
<1>1. /\ certs' = [certs EXCEPT ![c] = certs'[c]]
      /\ CertificateFits(certs'[c])
      /\ certs[c] # Null => /\ certs'[c].sent = certs[c].sent
                            /\ certs'[c].count = certs[c].count
  <2>1. ASSUME NEW sent \in Submissions, NEW by \in Staff \cup {Outside}, NEW n \in PageCounts,
               Ingest(c, sent, by, n)
        PROVE  certs' = [certs EXCEPT ![c] = certs'[c]] /\ certs[c] = Null
    <3>1. certs[c] = Null /\ \E v : certs' = [certs EXCEPT ![c] = v]
      BY <2>1 DEF Ingest
    <3> QED BY <3>1 DEF CertsFit
  <2> QED BY <2>1, IngestedFits, ConfirmedFits, RejectedFits DEF Changes
<1>2. certs'[c] \in Certificate /\ certs'[c] # Null
  BY <1>1, EvidenceAssumption DEF CertificateFits
<1>3. rules' = rules
  BY DEF Changes, Ingest, Confirm, Reject
<1>4. \A d \in Certs : d # c => certs'[d] = certs[d]
  BY <1>1 DEF CertsFit
<1>5. certs' \in [Certs -> Certificate \cup {Null}]
  BY <1>1, <1>2 DEF CertsFit
<1>6. ASSUME NEW d \in Certs, certs'[d] # Null PROVE CertificateFits(certs'[d])
  BY <1>1, <1>4, <1>6 DEF CertsFit
<1>7. ASSUME NEW d \in Certs PROVE Kept(d)
  BY <1>1, <1>2, <1>4 DEF Kept
<1> QED BY <1>3, <1>5, <1>6, <1>7 DEF CertsFit

\* Every step.
LEMMA CertsKept ==
    ASSUME CertsFit, [EvidenceNext]_evidenceVars PROVE CertsFit' /\ \A d \in Certs : Kept(d)
<1>1. CASE Others
  <2>1. certs' = certs
    BY <1>1 DEF Others, Publish, AppendReport, StartExport, VerifyChain, ReadHead, ReadEvents,
                HandOut, Refuse, WorkerReports, Crash
  <2>2. rules' \in Nat
    BY <1>1 DEF CertsFit, Others, Publish, AppendReport, StartExport, VerifyChain, ReadHead,
                ReadEvents, HandOut, Refuse, WorkerReports, Crash
  <2> QED BY <2>1, <2>2 DEF CertsFit, Kept
<1>2. CASE UNCHANGED evidenceVars
  BY <1>2 DEF evidenceVars, CertsFit, Kept
<1> QED BY <1>1, <1>2, StepCases, CertsChange

-----------------------------------------------------------------------------
(* What is true of every record that is exported.                          *)

\* The record of a stored certificate: the validator takes it, its proposal is the
\* one that arrived, and what it calls strong is attested.
Attested(p, x) ==
    p.confirmedFacts # Null /\ (x.count # Null \/ x.sent # Null) =>
        \A i \in DOMAIN p.confirmedFacts :
            Strong(p.confirmedFacts[i]) =>
                \E e \in p.attestations :
                    /\ e.policy = i /\ e.pages = p.confirmedFacts[i].pages
                    /\ e.pages # {} /\ e.pages \subseteq 1..x.count

RecordFits(stored, p) ==
    /\ p.certificate \in Certs /\ stored[p.certificate] # Null
    /\ RecordAgrees(p)
    /\ p.machineProposal = stored[p.certificate].sent
    /\ Attested(p, stored[p.certificate])

\* It stays one whatever becomes of the certificate.
LEMMA RecordStands ==
    ASSUME NEW p, RecordFits(certs, p), \A c \in Certs : Kept(c)
    PROVE  RecordFits(certs', p)
BY DEF RecordFits, Attested, Kept

\* The payload of an export is one.
LEMMA PayloadFits ==
    ASSUME NEW c \in Certs, certs[c] # Null, CertificateFits(certs[c])
    PROVE  RecordFits(certs, Payload(c, certs[c]))
<1> USE EvidenceAssumption
<1> DEFINE x == certs[c]
           p == Payload(c, x)
<1>1. /\ p.certificate = c /\ p.status = x.status /\ p.reviewedBy = x.by
      /\ p.reviewedAt = x.at /\ p.requirementVersion = x.snapshot.version
      /\ p.machineProposal = MachineProposal(x)
      /\ p.confirmedFacts = (IF HumanConfirmed(x) THEN x.policies ELSE Null)
      /\ p.citations = CitationViews(x) /\ p.attestations = Attestations(x)
      /\ p.requirementSnapshot = RequirementSnapshot(x)
  BY DEF Payload
<1> HIDE DEF p
<1>2. x.policies # Null
  BY DEF CertificateFits, Certificate
<1>3. HumanConfirmed(x) <=> x.status \in {"confirmed", "superseded"}
  BY DEF HumanConfirmed
<1>4. ReviewAgrees(p)
  BY <1>1, <1>2, <1>3 DEF ReviewAgrees, CertificateFits
<1>5. HumanConfirmed(x) => Reviewed(p)
  BY <1>1, <1>3 DEF Reviewed, CertificateFits
<1>6. CitationsAgree(p)
  <2>1. ASSUME NEW e \in CitationViews(x), e.attested PROVE HumanConfirmed(x)
    <3>1. PICK n \in x.extraction.cites :
             e = [page |-> n, attested |-> HumanConfirmed(x) /\ x.count # Null /\ n <= x.count]
      BY DEF CitationViews
    <3>2. e.attested = (HumanConfirmed(x) /\ x.count # Null /\ n <= x.count)
      BY <3>1
    <3> QED BY <2>1, <3>2
  <2> QED BY <1>1, <1>5, <2>1 DEF CitationsAgree
<1>7. AttestationsAgree(p)
  <2>1. ASSUME NEW e \in Attestations(x)
        PROVE  /\ HumanConfirmed(x) /\ e.by = x.by /\ e.at = x.at
               /\ e.policy \in DOMAIN x.policies
               /\ e.level = x.policies[e.policy].level /\ e.pages = x.policies[e.policy].pages
    BY DEF Attestations, Attestable
  <2>2. ASSUME NEW e \in p.attestations
        PROVE  /\ Reviewed(p) /\ e.by = p.reviewedBy /\ e.at = p.reviewedAt
               /\ p.confirmedFacts = x.policies /\ e.policy \in DOMAIN x.policies
               /\ x.policies[e.policy].level = e.level /\ x.policies[e.policy].pages = e.pages
    BY <1>1, <1>5, <2>1
  <2> QED BY <2>2 DEF AttestationsAgree
<1>8. RulesAgree(p)
  BY <1>1 DEF RulesAgree, RequirementSnapshot
<1>9. ASSUME HumanConfirmed(x), x.count # Null \/ x.sent # Null,
             NEW i \in DOMAIN x.policies, Strong(x.policies[i])
      PROVE  \E e \in Attestations(x) :
                /\ e.policy = i /\ e.pages = x.policies[i].pages
                /\ e.pages # {} /\ e.pages \subseteq 1..x.count
  <2>1. /\ x.count # Null /\ x.policies[i].pages # {}
        /\ x.policies[i].pages \subseteq 1..x.count
    BY <1>9 DEF CertificateFits, Sealed
  <2>2. Attestable(x, i)
    BY <1>9, <2>1 DEF Attestable
  <2> DEFINE e == [policy |-> i, level |-> x.policies[i].level, pages |-> x.policies[i].pages,
                   by |-> x.by, at |-> x.at]
  <2>3. e \in Attestations(x)
    BY <2>2 DEF Attestations
  <2> QED BY <2>1, <2>3
<1>10. x.sent = MachineProposal(x)
  BY DEF CertificateFits
<1>11. Attested(p, x)
  <2>1. p.confirmedFacts # Null => HumanConfirmed(x) /\ p.confirmedFacts = x.policies
    BY <1>1
  <2> HIDE DEF x
  <2> QED BY <1>1, <1>9, <2>1 DEF Attested
<1> QED BY <1>1, <1>4, <1>6, <1>7, <1>8, <1>10, <1>11 DEF RecordFits, RecordAgrees, p

-----------------------------------------------------------------------------
(* What is true of every checkpoint.                                       *)

Verified(h, v) == v.valid = TRUE /\ v.checked \in 0..Len(h)

\* A head that was read stays in its place.
HeadFits(h, head) ==
    /\ head.sequence \in 0..Len(h)
    /\ IF head.sequence = 0 THEN head = NoHead
       ELSE head # NoHead /\ head.hash = Hash(h[head.sequence])

\* The events of a checkpoint are those about the certificate up to its head.
EventsFit(h, a, c) == a.events = Related(SubSeq(h, 1, a.head.sequence), c)

CheckpointFits(h, a, c) == Verified(h, a.verification) /\ HeadFits(h, a.head) /\ EventsFit(h, a, c)

\* How a step may change the chain.
Longer(h, g) ==
    /\ Chained(h) /\ Chained(g) /\ Len(h) <= Len(g)
    /\ \A n \in 1..Len(h) : g[n] = h[n]

\* An append makes a longer chain.
LEMMA AppendedIsLonger ==
    ASSUME NEW h, Chained(h), NEW action, NEW about PROVE Longer(h, Appended(h, action, about))
BY ChainGrows, LengthOf DEF Longer

\* A chain that stays is as long as it was.
LEMMA SameIsLonger == ASSUME NEW h, Chained(h) PROVE Longer(h, h)
BY LengthOf DEF Longer

\* What a checkpoint says stays true of it.
LEMMA VerifiedStands ==
    ASSUME NEW h, NEW g, Longer(h, g), NEW v, Verified(h, v) PROVE Verified(g, v)
BY LengthOf DEF Longer, Verified

\* A head stays in its place in a longer chain.
LEMMA HeadStands ==
    ASSUME NEW h, NEW g, Longer(h, g), NEW head, HeadFits(h, head) PROVE HeadFits(g, head)
<1>1. Len(h) \in Nat /\ Len(g) \in Nat /\ Len(h) <= Len(g)
  BY LengthOf DEF Longer
<1>2. head.sequence # 0 => head.sequence \in 1..Len(h)
  BY <1>1 DEF HeadFits
<1> QED BY <1>1, <1>2 DEF HeadFits, Longer

\* The events up to a head stay the same in a longer chain.
LEMMA EventsStand ==
    ASSUME NEW h, NEW g, Longer(h, g), NEW a, NEW c, HeadFits(h, a.head), EventsFit(h, a, c)
    PROVE  EventsFit(g, a, c)
<1> DEFINE k == a.head.sequence
<1>1. IsHistory(h) /\ IsHistory(g) /\ Len(h) \in Nat /\ Len(g) \in Nat /\ Len(h) <= Len(g)
  BY LengthOf DEF Longer, Chained
<1>2. k \in 0..Len(h) /\ k \in 0..Len(g)
  BY <1>1 DEF HeadFits
<1>3. \A i \in 1..k : g[i] = h[i]
  BY <1>1, <1>2 DEF Longer
<1> HIDE DEF k
<1>4. {i \in 1..k : h[i].about = c} = {i \in 1..k : g[i].about = c}
  BY <1>3
<1>5. {h[n] : n \in {i \in 1..k : h[i].about = c}} = {g[n] : n \in {i \in 1..k : h[i].about = c}}
  BY <1>3
<1>6. Related(SubSeq(h, 1, k), c) = Related(SubSeq(g, 1, k), c)
  <2>1. Related(SubSeq(h, 1, k), c) = {h[n] : n \in {i \in 1..k : h[i].about = c}}
    BY <1>1, <1>2, RelatedUpTo
  <2>2. Related(SubSeq(g, 1, k), c) = {g[n] : n \in {i \in 1..k : g[i].about = c}}
    BY <1>1, <1>2, RelatedUpTo
  <2> QED BY <1>4, <1>5, <2>1, <2>2
<1> QED BY <1>6 DEF EventsFit, k

\* So all a checkpoint says stays true.
LEMMA CheckpointStands ==
    ASSUME NEW h, NEW g, Longer(h, g), NEW a, NEW c, CheckpointFits(h, a, c)
    PROVE  CheckpointFits(g, a, c)
BY VerifiedStands, HeadStands, EventsStand DEF CheckpointFits

\* The head as it is read.
LEMMA HeadRowFits ==
    ASSUME NEW h, Chained(h) PROVE HeadFits(h, HeadRow(h)) /\ HeadRow(h).sequence = Len(h)
<1>1. Len(h) \in Nat /\ DOMAIN h = 1..Len(h) /\ (h = <<>> <=> Len(h) = 0)
  BY LengthOf, EmptySeq DEF Chained, IsHistory
<1>2. CASE h = <<>>
  BY <1>1, <1>2 DEF HeadRow, HeadFits, NoHead
<1>3. CASE h # <<>>
  <2>1. Len(h) \in DOMAIN h /\ h[Len(h)].sequence = Len(h) /\ Len(h) # 0
    BY <1>1, <1>3 DEF Chained
  <2>2. HeadRow(h) = [sequence |-> Len(h), hash |-> Hash(h[Len(h)])]
    BY <1>3, <2>1 DEF HeadRow, HeadHash
  <2> QED BY <1>1, <2>1, <2>2 DEF HeadFits, NoHead
<1> QED BY <1>2, <1>3

\* A checkpoint is one the validator takes if no event came between the verification
\* and the reading of the head.
LEMMA CheckpointAgrees ==
    ASSUME NEW h, Chained(h), NEW a, NEW c, CheckpointFits(h, a, c)
    PROVE  AuditAgrees(a) <=> a.verification.checked = a.head.sequence
<1> DEFINE k == a.head.sequence
<1>1. Len(h) \in Nat /\ DOMAIN h = 1..Len(h) /\ IsHistory(h) /\ k \in 0..Len(h)
  BY LengthOf DEF Chained, CheckpointFits, HeadFits
<1>2. a.events = {h[n] : n \in {i \in 1..k : h[i].about = c}}
  BY <1>1, RelatedUpTo DEF CheckpointFits, EventsFit
<1>3. \A n \in 1..k : h[n].sequence = n
  BY <1>1 DEF Chained
<1> HIDE DEF k
<1>4. \A e, f \in a.events : e.sequence > 0 /\ (e.sequence = f.sequence => e = f)
  BY <1>1, <1>2, <1>3
<1>5. a.head.sequence = 0 <=> a.head = NoHead
  BY DEF CheckpointFits, HeadFits, NoHead
<1> QED BY <1>4, <1>5 DEF AuditAgrees, CheckpointFits, Verified, HeadFits

-----------------------------------------------------------------------------
(* The export under way, the bundles handed out, and the invariant.        *)

\* After the verification.
AtHead(h, j) ==
    /\ j = [step |-> "head", payload |-> j.payload, verification |-> j.verification,
            overtaken |-> j.overtaken]
    /\ j.overtaken \in BOOLEAN /\ Verified(h, j.verification)
    /\ ~j.overtaken => j.verification.checked = Len(h)

\* After the reading of the head: what came later is not about a certificate.
AtEvents(h, j) ==
    /\ j.overtaken \in BOOLEAN /\ Verified(h, j.verification) /\ HeadFits(h, j.head)
    /\ ~j.overtaken => j.verification.checked = j.head.sequence
    /\ \A n \in DOMAIN h : n > j.head.sequence => h[n].about \notin Certs

AtJudge(h, j) ==
    /\ j.overtaken \in BOOLEAN /\ CheckpointFits(h, j.audit, j.payload.certificate)
    /\ ~j.overtaken => j.audit.verification.checked = j.audit.head.sequence

JobFits(h, stored, j) ==
    j # Null =>
        /\ j.step \in {"report", "verify", "head", "events", "judge"}
        /\ j.step # "report" => RecordFits(stored, j.payload)
        /\ j.step = "head" => AtHead(h, j)
        /\ j.step = "events" => AtEvents(h, j)
        /\ j.step = "judge" => AtJudge(h, j)

BundleFits(h, stored, b) ==
    RecordFits(stored, b.record) /\ CheckpointFits(h, b.audit, b.record.certificate)

BundlesFit(h, stored, handed) ==
    IsHistory(handed) /\ \A n \in DOMAIN handed : BundleFits(h, stored, handed[n])

RecordInv ==
    /\ CertsFit /\ Chained(chain)
    /\ JobFits(chain, certs, job)
    /\ BundlesFit(chain, certs, bundles)

-----------------------------------------------------------------------------
(* The steps.                                                              *)

\* The chain only grows, and behind the back of an export only by events of the worker.
LEMMA ChainStep ==
    ASSUME Chained(chain), [EvidenceNext]_evidenceVars
    PROVE  /\ Longer(chain, chain')
           /\ job # Null /\ job.step # "report" =>
                 \/ chain' = chain
                 \/ /\ Len(chain') = Len(chain) + 1
                    /\ chain'[Len(chain) + 1].about = "request"
                    /\ WorkerReports
<1>1. ASSUME NEW action, NEW about, chain' = Appended(chain, action, about)
      PROVE  /\ Longer(chain, chain') /\ Len(chain') = Len(chain) + 1
             /\ chain'[Len(chain) + 1].about = about
  BY <1>1, AppendedIsLonger, ChainGrows
<1>2. chain' = chain => Longer(chain, chain')
  BY SameIsLonger
<1>3. CASE \E c \in Certs : Changes(c)
  <2>1. chain' = chain \/ \E c \in Certs : chain' = Appended(chain, "certificate.uploaded", c)
    <3>1. ASSUME NEW c, NEW sent, NEW by, NEW n, Ingest(c, sent, by, n)
          PROVE  chain' = chain \/ chain' = Appended(chain, "certificate.uploaded", c)
      BY <3>1 DEF Ingest
    <3>2. ASSUME NEW c, NEW by, NEW policies, Confirm(c, by, policies) PROVE chain' = chain
      BY <3>2 DEF Confirm
    <3>3. ASSUME NEW c, Reject(c) PROVE chain' = chain
      BY <3>3 DEF Reject
    <3> QED BY <1>3, <3>1, <3>2, <3>3 DEF Changes
  <2>2. job = Null
    <3>1. ASSUME NEW c, NEW sent, NEW by, NEW n, Ingest(c, sent, by, n) PROVE job = Null
      BY <3>1 DEF Ingest, Idle
    <3>2. ASSUME NEW c, NEW by, NEW policies, Confirm(c, by, policies) PROVE job = Null
      BY <3>2 DEF Confirm, Idle
    <3> QED BY <1>3, <3>1, <3>2 DEF Changes, Reject, Idle
  <2> QED BY <1>1, <1>2, <2>1, <2>2
<1>4. CASE AppendReport
  BY <1>1, <1>4 DEF AppendReport
<1>5. CASE WorkerReports
  BY <1>1, <1>5 DEF WorkerReports
<1>6. CASE UNCHANGED evidenceVars
  BY <1>2, <1>6 DEF evidenceVars
<1>7. CASE Others /\ ~AppendReport /\ ~WorkerReports
  <2>1. chain' = chain
    BY <1>7 DEF Others, Publish, StartExport, VerifyChain, ReadHead, ReadEvents, HandOut,
                Refuse, Crash
  <2> QED BY <1>2, <2>1
<1> QED BY <1>3, <1>4, <1>5, <1>6, <1>7, StepCases

\* A job that only waits while the chain grows.
LEMMA JobWaits ==
    ASSUME RecordInv, [EvidenceNext]_evidenceVars, job' = job \/ WorkerReports
    PROVE  JobFits(chain', certs', job')
<1> USE EvidenceAssumption
<1>1. /\ CertsFit' /\ \A c \in Certs : Kept(c)
      /\ Longer(chain, chain') /\ Chained(chain)
  BY CertsKept, ChainStep DEF RecordInv
<1>2. SUFFICES ASSUME job' # Null PROVE JobFits(chain', certs', job')
  BY DEF JobFits
<1>3. CASE job = Null
  BY <1>2, <1>3 DEF WorkerReports
<1>4. CASE job # Null
  <2>1. JobFits(chain, certs, job)
    BY DEF RecordInv
  <2>2. \/ job' = job
        \/ job.step = "head" /\ WorkerReports /\ job' = [job EXCEPT !.overtaken = TRUE]
    BY <1>4 DEF WorkerReports
  <2>3. /\ job'.step = job.step /\ job'.payload = job.payload
        /\ job.step = "head" => /\ AtHead(chain, job)
                                /\ job'.verification = job.verification
                                /\ job' = job \/ job'.overtaken = TRUE
                                /\ job' = [step |-> "head", payload |-> job'.payload,
                                           verification |-> job'.verification,
                                           overtaken |-> job'.overtaken]
        /\ job.step # "head" => job' = job
    <3>1. CASE job' = job
      BY <1>4, <2>1, <3>1 DEF JobFits, AtHead
    <3>2. CASE job.step = "head" /\ job' = [job EXCEPT !.overtaken = TRUE]
      <4>1. AtHead(chain, job)
        BY <1>4, <2>1, <3>2 DEF JobFits
      <4>2. job = [step |-> "head", payload |-> job.payload,
                   verification |-> job.verification, overtaken |-> job.overtaken]
        BY <4>1 DEF AtHead
      <4>3. job' = [step |-> "head", payload |-> job.payload,
                    verification |-> job.verification, overtaken |-> TRUE]
        BY <3>2, <4>2
      <4> QED BY <3>2, <4>1, <4>3
    <3> QED BY <2>2, <3>1, <3>2
  <2>4. job.step # "report" => RecordFits(certs', job'.payload)
    BY <1>1, <1>4, <2>1, <2>3, RecordStands DEF JobFits
  <2>5. CASE job.step = "head"
    <3>1. Verified(chain', job'.verification)
      BY <1>1, <2>3, <2>5, VerifiedStands DEF AtHead
    <3>2. ~job'.overtaken => job' = job /\ chain' = chain
      BY <1>4, <2>2, <2>3, <2>5, ChainStep DEF RecordInv, WorkerReports
    <3>3. job'.overtaken \in BOOLEAN
      BY <2>3, <2>5 DEF AtHead
    <3> QED BY <2>3, <2>4, <2>5, <3>1, <3>2, <3>3 DEF JobFits, AtHead
  <2>6. CASE job.step = "events"
    <3>1. /\ job' = job /\ AtEvents(chain, job)
      BY <1>4, <2>1, <2>3, <2>6 DEF JobFits
    <3>2. Verified(chain', job.verification) /\ HeadFits(chain', job.head)
      BY <1>1, <3>1, VerifiedStands, HeadStands DEF AtEvents
    <3>3. \A n \in DOMAIN chain' : n > job.head.sequence => chain'[n].about \notin Certs
      <4>1. /\ DOMAIN chain = 1..Len(chain) /\ Len(chain) \in Nat
            /\ DOMAIN chain' = 1..Len(chain') /\ Len(chain') \in Nat
        BY <1>1, LengthOf DEF Longer
      <4>2. CASE chain' = chain
        BY <3>1, <4>2 DEF AtEvents
      <4>3. CASE Len(chain') = Len(chain) + 1 /\ chain'[Len(chain) + 1].about = "request"
        <5>1. \A n \in DOMAIN chain' : n \in DOMAIN chain \/ n = Len(chain) + 1
          BY <4>1, <4>3
        <5> QED BY <1>1, <3>1, <4>1, <4>3, <5>1 DEF AtEvents, Longer
      <4> QED BY <1>4, <2>6, <4>2, <4>3, ChainStep DEF RecordInv
    <3> QED BY <2>4, <2>6, <3>1, <3>2, <3>3 DEF JobFits, AtEvents
  <2>7. CASE job.step = "judge"
    <3>1. job' = job /\ AtJudge(chain, job)
      BY <1>4, <2>1, <2>3, <2>7 DEF JobFits
    <3>2. CheckpointFits(chain', job.audit, job.payload.certificate)
      BY <1>1, <3>1, CheckpointStands DEF AtJudge
    <3> QED BY <2>4, <2>7, <3>1, <3>2 DEF JobFits, AtJudge
  <2>8. CASE job.step \in {"report", "verify"}
    BY <2>3, <2>4, <2>8 DEF JobFits
  <2> QED BY <1>4, <2>1, <2>5, <2>6, <2>7, <2>8 DEF JobFits
<1> QED BY <1>3, <1>4

\* A step that is not the job's own.
LEMMA BundlesStand ==
    ASSUME RecordInv, [EvidenceNext]_evidenceVars, bundles' = bundles
    PROVE  BundlesFit(chain', certs', bundles')
<1>1. (\A c \in Certs : Kept(c)) /\ Longer(chain, chain')
  BY CertsKept, ChainStep DEF RecordInv
<1>2. BundlesFit(chain, certs, bundles)
  BY DEF RecordInv
<1>3. ASSUME NEW n \in DOMAIN bundles PROVE BundleFits(chain', certs', bundles[n])
  <2>1. BundleFits(chain, certs, bundles[n])
    BY <1>2 DEF BundlesFit
  <2> QED BY <1>1, <2>1, RecordStands, CheckpointStands DEF BundleFits
<1> QED BY <1>2, <1>3 DEF BundlesFit

\* The job ends or has only to report.
LEMMA JobEnds ==
    ASSUME job' = Null \/ job'.step = "report" PROVE JobFits(chain', certs', job')
BY DEF JobFits

\* An export starts from a record that fits.
LEMMA StartExportKeeps ==
    ASSUME RecordInv, NEW c \in Certs, StartExport(c) PROVE JobFits(chain', certs', job')
<1>1. certs[c] # Null /\ CertificateFits(certs[c]) /\ certs' = certs
  BY DEF StartExport, RecordInv, CertsFit
<1>2. job' = [step |-> "verify", payload |-> Payload(c, certs[c])]
  BY DEF StartExport
<1>3. RecordFits(certs', job'.payload)
  BY <1>1, <1>2, PayloadFits
<1> QED BY <1>2, <1>3 DEF JobFits

\* It verifies the whole of the chain.
LEMMA VerifyChainKeeps == ASSUME RecordInv, VerifyChain PROVE JobFits(chain', certs', job')
<1>1. /\ job # Null /\ job.step = "verify" /\ certs' = certs /\ chain' = chain
      /\ job' = [step |-> "head", payload |-> job.payload, verification |-> Verification(chain),
                 overtaken |-> FALSE]
  BY DEF VerifyChain
<1>2. RecordFits(certs', job'.payload)
  BY <1>1 DEF RecordInv, JobFits
<1>3. Verification(chain) = [valid |-> TRUE, checked |-> Len(chain)] /\ Len(chain) \in Nat
  BY ChainVerifies, LengthOf DEF RecordInv
<1>4. Verified(chain', job'.verification) /\ job'.verification.checked = Len(chain')
  BY <1>1, <1>3 DEF Verified
<1>5. AtHead(chain', job')
  BY <1>1, <1>4 DEF AtHead
<1> QED BY <1>1, <1>2, <1>5 DEF JobFits

\* It reads a head no older than what it verified, the same if nobody came in between.
LEMMA ReadHeadKeeps == ASSUME RecordInv, ReadHead PROVE JobFits(chain', certs', job')
<1>1. /\ job # Null /\ job.step = "head" /\ certs' = certs /\ chain' = chain
      /\ job' = [step |-> "events", payload |-> job.payload, verification |-> job.verification,
                 overtaken |-> job.overtaken, head |-> HeadRow(chain)]
  BY DEF ReadHead
<1>2. RecordFits(certs', job'.payload) /\ AtHead(chain, job)
  BY <1>1 DEF RecordInv, JobFits
<1>3. HeadFits(chain, HeadRow(chain)) /\ HeadRow(chain).sequence = Len(chain)
      /\ DOMAIN chain = 1..Len(chain) /\ Len(chain) \in Nat
  BY HeadRowFits, LengthOf DEF RecordInv
<1>4. AtEvents(chain', job')
  BY <1>1, <1>2, <1>3 DEF AtHead, AtEvents
<1> QED BY <1>1, <1>2, <1>4 DEF JobFits

\* It reads the events up to that head, since only events of no certificate came later.
LEMMA ReadEventsKeeps == ASSUME RecordInv, ReadEvents PROVE JobFits(chain', certs', job')
<1> DEFINE c == job.payload.certificate
           k == job.head.sequence
<1>1. /\ job # Null /\ job.step = "events" /\ certs' = certs /\ chain' = chain
      /\ job'.step = "judge" /\ job'.payload = job.payload /\ job'.overtaken = job.overtaken
      /\ job'.audit.verification = job.verification /\ job'.audit.head = job.head
      /\ job'.audit.events = Related(chain, c)
  BY DEF ReadEvents
<1>2. RecordFits(certs', job'.payload) /\ AtEvents(chain, job) /\ c \in Certs
  BY <1>1 DEF RecordInv, JobFits, RecordFits
<1>3. /\ DOMAIN chain = 1..Len(chain) /\ Len(chain) \in Nat /\ IsHistory(chain)
      /\ k \in 0..Len(chain)
  BY <1>2, LengthOf DEF RecordInv, Chained, AtEvents, HeadFits
<1>4. \A n \in 1..Len(chain) : n > k => chain[n].about # c
  BY <1>2, <1>3 DEF AtEvents
<1> HIDE DEF c, k
<1>5. {i \in DOMAIN chain : chain[i].about = c} = {i \in 1..k : chain[i].about = c}
  BY <1>3, <1>4
<1>6. Related(chain, c) = Related(SubSeq(chain, 1, k), c)
  <2>1. Related(SubSeq(chain, 1, k), c) = {chain[n] : n \in {i \in 1..k : chain[i].about = c}}
    BY <1>3, RelatedUpTo
  <2> QED BY <1>5, <2>1 DEF Related
<1>7. AtJudge(chain', job')
  BY <1>1, <1>2, <1>6 DEF AtJudge, AtEvents, CheckpointFits, EventsFit, c, k
<1> QED BY <1>1, <1>2, <1>7 DEF JobFits

\* A bundle that is handed out fits.
LEMMA HandOutKeeps == ASSUME RecordInv, HandOut PROVE BundlesFit(chain', certs', bundles')
<1> DEFINE b == [record |-> job.payload, audit |-> job.audit, key |-> key]
<1>1. /\ job # Null /\ job.step = "judge" /\ certs' = certs /\ chain' = chain
      /\ bundles' = Append(bundles, b)
  BY DEF HandOut
<1>2. BundlesFit(chain, certs, bundles) /\ RecordFits(certs, job.payload) /\ AtJudge(chain, job)
  BY <1>1 DEF RecordInv, JobFits
<1>3. BundleFits(chain, certs, b)
  BY <1>2 DEF BundleFits, AtJudge
<1> HIDE DEF b
<1>4. /\ IsHistory(bundles') /\ Len(bundles) \in Nat /\ DOMAIN bundles = 1..Len(bundles)
      /\ DOMAIN bundles' = 1..(Len(bundles) + 1)
      /\ \A n \in 1..Len(bundles) : bundles'[n] = bundles[n]
      /\ bundles'[Len(bundles) + 1] = b
  BY <1>1, <1>2, AppendHistory DEF BundlesFit
<1>5. ASSUME NEW n \in DOMAIN bundles' PROVE BundleFits(chain', certs', bundles'[n])
  <2>1. n \in DOMAIN bundles \/ n = Len(bundles) + 1
    BY <1>4
  <2> QED BY <1>1, <1>2, <1>3, <1>4, <2>1 DEF BundlesFit
<1> QED BY <1>4, <1>5 DEF BundlesFit

-----------------------------------------------------------------------------
(* The theorems.                                                           *)

\* The invariant holds at first, rows of before version 0.3 included.
LEMMA InitInv == ASSUME EvidenceInit PROVE RecordInv
<1> USE EvidenceAssumption
<1>1. CertsFit
  <2>1. \A c \in Certs : certs[c] \in LegacyRows \cup {Null}
    BY DEF EvidenceInit
  <2>2. \A c \in Certs : certs[c] # Null => CertificateFits(certs[c])
    BY <2>1, LegacyFits
  <2>3. \A x \in LegacyRows : x \in Certificate
    BY LegacyFits DEF CertificateFits
  <2>4. certs \in [Certs -> Certificate \cup {Null}] /\ rules \in Nat
    BY <2>1, <2>3 DEF EvidenceInit
  <2> QED BY <2>2, <2>4 DEF CertsFit
<1>2. \A h : h = <<>> => IsHistory(h) /\ DOMAIN h = {}
  BY EmptySeq, LenProperties DEF IsHistory
<1>3. Chained(chain) /\ BundlesFit(chain, certs, bundles)
  BY <1>2 DEF EvidenceInit, Chained, BundlesFit
<1>4. JobFits(chain, certs, job)
  BY DEF EvidenceInit, JobFits
<1> QED BY <1>1, <1>3, <1>4 DEF RecordInv

\* Every step keeps the invariant.
LEMMA NextInv == ASSUME RecordInv, [EvidenceNext]_evidenceVars PROVE RecordInv'
<1>1. CertsFit' /\ Chained(chain')
  BY CertsKept, ChainStep DEF RecordInv, Longer
<1>2. CASE \E c \in Certs : Changes(c)
  <2>1. bundles' = bundles /\ (job' = Null \/ job'.step = "report")
    <3>1. ASSUME NEW c, NEW sent, NEW by, NEW n, Ingest(c, sent, by, n)
          PROVE  bundles' = bundles /\ (job' = Null \/ job'.step = "report")
      BY <3>1 DEF Ingest, Report
    <3>2. ASSUME NEW c, NEW by, NEW policies, Confirm(c, by, policies)
          PROVE  bundles' = bundles /\ job'.step = "report"
      BY <3>2 DEF Confirm, Report
    <3> QED BY <1>2, <3>1, <3>2 DEF Changes, Reject, Report
  <2> QED BY <1>1, <2>1, BundlesStand, JobEnds DEF RecordInv
<1>3. CASE Publish \/ AppendReport \/ Refuse \/ Crash
  <2>1. bundles' = bundles /\ (job' = Null \/ job'.step = "report")
    BY <1>3 DEF Publish, AppendReport, Refuse, Crash, Report
  <2> QED BY <1>1, <2>1, BundlesStand, JobEnds DEF RecordInv
<1>4. CASE HandOut
  <2>1. job'.step = "report"
    BY <1>4 DEF HandOut, Report
  <2> QED BY <1>1, <1>4, <2>1, HandOutKeeps, JobEnds DEF RecordInv
<1>5. CASE WorkerReports \/ UNCHANGED evidenceVars
  <2>1. bundles' = bundles /\ (job' = job \/ WorkerReports)
    BY <1>5 DEF WorkerReports, evidenceVars
  <2> QED BY <1>1, <2>1, BundlesStand, JobWaits DEF RecordInv
<1>6. CASE VerifyChain \/ ReadHead \/ ReadEvents \/ \E c \in Certs : StartExport(c)
  <2>1. bundles' = bundles
    BY <1>6 DEF VerifyChain, ReadHead, ReadEvents, StartExport
  <2>2. JobFits(chain', certs', job')
    BY <1>6, VerifyChainKeeps, ReadHeadKeeps, ReadEventsKeeps, StartExportKeeps
  <2> QED BY <1>1, <2>1, <2>2, BundlesStand DEF RecordInv
<1> QED BY <1>2, <1>3, <1>4, <1>5, <1>6, StepCases DEF Others

\* The invariant of the record and its export: every certificate is one of which its
\* proposal and its evidence can be told, the events are a chain, and what an export
\* has read, and every bundle, stays true of both (evidenceBundles.ts, audit.ts).
THEOREM RecordInvariance == EvidenceSpec => []RecordInv
<1>1. EvidenceInit => RecordInv
  BY InitInv
<1>2. RecordInv /\ [EvidenceNext]_evidenceVars => RecordInv'
  BY NextInv
<1> QED BY <1>1, <1>2, PTL DEF EvidenceSpec

\* For any history of any certificate the strict validator takes its record, and its
\* checkpoint unless the worker came in between (assertEvidenceBundlePayload).
THEOREM SoundRecords == EvidenceSpec => []SoundRecordsExport
<1>1. RecordInv => SoundRecordsExport
  <2>1. ASSUME RecordInv, job # Null, job.step = "judge"
        PROVE  RecordAgrees(job.payload) /\ (AuditAgrees(job.audit) \/ job.overtaken)
    <3>1. RecordFits(certs, job.payload) /\ AtJudge(chain, job) /\ Chained(chain)
      BY <2>1 DEF RecordInv, JobFits
    <3> QED BY <3>1, CheckpointAgrees DEF AtJudge, RecordFits
  <2> QED BY <2>1 DEF SoundRecordsExport
<1> QED BY <1>1, RecordInvariance, PTL

\* Strong evidence in a bundle is attested on pages the PDF has (certificateView,
\* assertEvidenceWithinSourceDocument).
THEOREM StrongAttested == EvidenceSpec => []StrongIsAttested
<1>1. RecordInv => StrongIsAttested
  <2>1. ASSUME RecordInv, NEW n \in DOMAIN bundles
        PROVE  Attested(bundles[n].record, certs[bundles[n].record.certificate])
    BY <2>1 DEF RecordInv, BundlesFit, BundleFits, RecordFits
  <2> QED BY <2>1 DEF StrongIsAttested, Attested
<1> QED BY <1>1, RecordInvariance, PTL

\* The proposal in a bundle is what arrived (buildSignedEvidenceBundle).
THEOREM OriginalProposal == EvidenceSpec => []ProposalIsOriginal
<1>1. RecordInv => ProposalIsOriginal
  BY DEF RecordInv, BundlesFit, BundleFits, RecordFits, ProposalIsOriginal
<1> QED BY <1>1, RecordInvariance, PTL

\* A checkpoint that was handed out stays true of the chain for ever, whatever the
\* worker and later requests append (auditCheckpoint, verifyAuditChain).
THEOREM StandingCheckpoints == EvidenceSpec => []CheckpointsStand
<1>1. RecordInv => CheckpointsStand
  <2>1. SUFFICES ASSUME RecordInv PROVE CheckpointsStand
    OBVIOUS
  <2>2. Verification(chain).valid /\ Chained(chain)
    BY <2>1, ChainVerifies DEF RecordInv
  <2>3. ASSUME NEW n \in DOMAIN bundles
        PROVE  LET a == bundles[n].audit IN
               /\ a.verification.valid
               /\ IF a.head = NoHead THEN a.events = {}
                  ELSE /\ a.head.sequence \in DOMAIN chain
                       /\ a.head.hash = Hash(chain[a.head.sequence])
                       /\ a.events = Related(SubSeq(chain, 1, a.head.sequence),
                                             bundles[n].record.certificate)
    <3> DEFINE a == bundles[n].audit
               c == bundles[n].record.certificate
    <3>1. Verified(chain, a.verification) /\ HeadFits(chain, a.head) /\ EventsFit(chain, a, c)
      BY <2>1 DEF RecordInv, BundlesFit, BundleFits, CheckpointFits
    <3>2. DOMAIN chain = 1..Len(chain) /\ Len(chain) \in Nat /\ IsHistory(chain)
      BY <2>2, LengthOf DEF Chained
    <3> HIDE DEF a, c
    <3>3. CASE a.head = NoHead
      <4>1. a.head.sequence = 0
        BY <3>3 DEF NoHead
      <4>2. a.events = {chain[k] : k \in {i \in 1..0 : chain[i].about = c}}
        BY <3>1, <3>2, <4>1, RelatedUpTo DEF EventsFit
      <4> QED BY <3>1, <3>3, <4>2 DEF Verified, a
    <3>4. CASE a.head # NoHead
      <4>1. a.head.sequence # 0
        BY <3>1, <3>4 DEF HeadFits
      <4> QED BY <3>1, <3>2, <3>4, <4>1 DEF Verified, HeadFits, EventsFit, a, c
    <3> QED BY <3>3, <3>4
  <2> QED BY <2>2, <2>3 DEF CheckpointsStand
<1> QED BY <1>1, RecordInvariance, PTL
=============================================================================
