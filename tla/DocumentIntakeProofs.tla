----------------------- MODULE DocumentIntakeProofs -----------------------
(***************************************************************************)
(* Proofs about DocumentIntake, for any files, parser results, endorsement *)
(* names and texts typed, any reviewers, and any bounds.                   *)
(***************************************************************************)
EXTENDS DocumentIntake, SequenceTheorems, FiniteSetTheorems, TLAPS

-----------------------------------------------------------------------------
(* Sequences and finite sets.                                              *)

IsList(s) == Len(s) \in Nat /\ DOMAIN s = 1..Len(s)

\* A sequence over a set is a list of its members.
LEMMA ListOf ==
    ASSUME NEW S, NEW s \in Seq(S)
    PROVE  IsList(s) /\ \A i \in DOMAIN s : s[i] \in S
BY LenProperties, ElementOfSeq DEF IsList

\* An entry is taken out of a sequence.
LEMMA RemoveAtKeeps ==
    ASSUME NEW S, NEW s \in Seq(S), NEW i \in DOMAIN s
    PROVE  RemoveAt(s, i) \in Seq(S) /\ Len(RemoveAt(s, i)) = Len(s) - 1
<1>1. Len(s) \in Nat /\ i \in 1..Len(s)
  BY LenProperties
<1>2. SubSeq(s, 1, i - 1) \in Seq(S) /\ Len(SubSeq(s, 1, i - 1)) = i - 1
  BY <1>1, SubSeqProperties
<1>3. SubSeq(s, i + 1, Len(s)) \in Seq(S) /\ Len(SubSeq(s, i + 1, Len(s))) = Len(s) - i
  BY <1>1, SubSeqProperties
<1>4. (i - 1) + (Len(s) - i) = Len(s) - 1
  BY <1>1
<1> DEFINE front == SubSeq(s, 1, i - 1)
           rear  == SubSeq(s, i + 1, Len(s))
<1>5. RemoveAt(s, i) = front \o rear
  BY DEF RemoveAt
<1> HIDE DEF front, rear
<1>6. front \in Seq(S) /\ rear \in Seq(S) /\ Len(front) + Len(rear) = Len(s) - 1
  BY <1>2, <1>3, <1>4 DEF front, rear
<1> QED BY <1>5, <1>6, ConcatProperties

\* An entry is changed.
LEMMA ChangeKeeps ==
    ASSUME NEW S, NEW s \in Seq(S), NEW i \in DOMAIN s, NEW x \in S
    PROVE  /\ [s EXCEPT ![i] = x] \in Seq(S)
           /\ Len([s EXCEPT ![i] = x]) = Len(s)
BY ExceptSeq, LenProperties

\* A finite set has a listing.
LEMMA ListedSet ==
    ASSUME NEW S, IsFiniteSet(S)
    PROVE  SetToSeq(S) \in Seq(S)
<1>1. Cardinality(S) \in Nat /\ \E f \in Bijection(1..Cardinality(S), S) : TRUE
  BY FS_CardinalityType DEF ExistsBijection
<1>2. PICK f \in Bijection(1..Cardinality(S), S) : TRUE
  BY <1>1
<1>3. f \in [1..Cardinality(S) -> S] /\ IsInjective(f)
  BY <1>2 DEF Bijection, Injection, IsInjective
<1>4. SetToSeq(S) \in [1..Cardinality(S) -> S]
  BY <1>3 DEF SetToSeq
<1> QED BY <1>1, <1>4, SeqDef

\* The image of a sequence as another.
LEMMA MappedList ==
    ASSUME NEW S, NEW n \in Nat, NEW f \in [1..n -> S]
    PROVE  f \in Seq(S)
BY SeqDef

\* A sequence is one over its own entries.
LEMMA ListsItsRange ==
    ASSUME NEW S, NEW s \in Seq(S) PROVE s \in Seq(Range(s))
<1>1. Len(s) \in Nat /\ DOMAIN s = 1..Len(s) /\ s \in [1..Len(s) -> S]
  BY LenProperties
<1>2. s \in [1..Len(s) -> Range(s)]
  BY <1>1 DEF Range
<1> QED BY <1>1, <1>2, SeqDef

\* The image of a finite set is finite.
LEMMA ImageFinite ==
    ASSUME NEW S, IsFiniteSet(S), NEW f, DOMAIN f = S
    PROVE  IsFiniteSet({f[x] : x \in S})
<1> DEFINE T == {f[x] : x \in S}
           g == [x \in S |-> f[x]]
<1>1. g \in Surjection(S, T)
  BY DEF Surjection
<1> HIDE DEF g
<1> QED BY <1>1, FS_Surjection

-----------------------------------------------------------------------------
(* Evidence.                                                               *)

Evidenced(e, m) == e.pages \subseteq 1..m /\ (Strong(e.level) => e.pages # {})

\* Pages that are not refused are pages of the document, and enough of them.
LEMMA AcceptedPages ==
    ASSUME NEW text \in PageText, NEW level, NEW m, ~PagesRefused(text, level, m)
    PROVE  PagesOf(text) \subseteq 1..m /\ (Strong(level) => PagesOf(text) # {})
<1>1. CASE text = Blank
  <2>1. DOMAIN text = {}
    BY <1>1 DEF Blank
  <2> QED BY <1>1, <2>1 DEF PagesRefused, PagesOf, Range
<1>2. CASE text # Blank
  <2>1. text \in Seq(Nat) /\ \A i \in DOMAIN text : text[i] \in 1..m
    BY <1>2 DEF PagesRefused, PageText
  <2>2. Len(text) \in Nat \ {0} /\ DOMAIN text = 1..Len(text)
    BY <1>2, <2>1, EmptySeq, LenProperties DEF Blank
  <2>3. 1 \in DOMAIN text
    BY <2>2
  <2> QED BY <2>1, <2>3 DEF PagesOf, Range
<1> QED BY <1>1, <1>2

-----------------------------------------------------------------------------
(* The drafts of the form.                                                 *)

EndorsementDraft == [name : STRING \cup {None}, level : EvidenceLevel, pages : PageText]
MarkDraft        == [level : EvidenceLevel, pages : PageText]
OccurrenceDraft  == [type : Range(OccurrenceTypes), text : AmountText]
AggregateDraft   == [type : Range(AggregateTypes), text : AmountText]

\* A draft that names a policy at least.
Filled(draft) == draft \in CertificateDraft /\ Len(draft.policies) > 0

\* The types of the drafts, in the names used here; a blank field is one of each kind.
LEMMA Fields ==
    /\ CertificateDraft = [from : Files, named : BOOLEAN, policies : Seq(PolicyDraft),
                           endorsements : Seq(EndorsementDraft)]
    /\ PolicyDraft = [cover : CoverageType, occurrence : OccurrenceDraft,
                      aggregate : AggregateDraft, common : [Common -> MarkDraft]]
    /\ Blank \in PageText /\ Blank \in AmountText
BY EmptySeq DEF CertificateDraft, PolicyDraft, EndorsementDraft, MarkDraft, OccurrenceDraft,
                AggregateDraft, PageText, AmountText, Blank

\* The two selects of a policy offer different types of limits.
LEMMA LimitTypes ==
    /\ Range(OccurrenceTypes) = {"EACH_OCCURRENCE", "COMBINED_SINGLE_LIMIT", "EACH_ACCIDENT",
                                 "EACH_CLAIM"}
    /\ Range(AggregateTypes) = {"GENERAL_AGGREGATE", "AGGREGATE",
                                "PRODUCTS_COMPLETED_OPERATIONS_AGGREGATE"}
    /\ Range(OccurrenceTypes) \cap Range(AggregateTypes) = {}
    /\ Range(OccurrenceTypes) \subseteq LimitType /\ Range(AggregateTypes) \subseteq LimitType
<1>1. Range(OccurrenceTypes) = {"EACH_OCCURRENCE", "COMBINED_SINGLE_LIMIT", "EACH_ACCIDENT",
                                 "EACH_CLAIM"}
  BY DEF Range, OccurrenceTypes
<1>2. Range(AggregateTypes) = {"GENERAL_AGGREGATE", "AGGREGATE",
                                "PRODUCTS_COMPLETED_OPERATIONS_AGGREGATE"}
  BY DEF Range, AggregateTypes
<1> QED BY <1>1, <1>2 DEF LimitType

\* The types of limits that come with a coverage are on offer.
LEMMA DefaultTypes ==
    ASSUME NEW cover
    PROVE  /\ DefaultOccurrenceType(cover) \in Range(OccurrenceTypes)
           /\ DefaultAggregateType(cover) \in Range(AggregateTypes)
BY LimitTypes DEF DefaultOccurrenceType, DefaultAggregateType

\* An amount is shown as a text that can be read again.
LEMMA MajorUnitsText == ASSUME NEW n \in Nat PROVE MajorUnits(n) \in AmountText
<1>1. n \div 100 \in Nat /\ n % 100 \in Nat
  OBVIOUS
<1> QED BY <1>1 DEF MajorUnits, AmountText

\* The least of the positions of a list that are wanted.
LEMMA LeastPosition ==
    ASSUME NEW S \in SUBSET (1..4), S # {}
    PROVE  Min(S) \in S
<1>1. \E x \in S : \A y \in S : x <= y
  <2>1. CASE 1 \in S
    BY <2>1
  <2>2. CASE 1 \notin S /\ 2 \in S
    BY <2>2
  <2>3. CASE 1 \notin S /\ 2 \notin S /\ 3 \in S
    BY <2>3
  <2>4. CASE 1 \notin S /\ 2 \notin S /\ 3 \notin S
    <3>1. PICK x \in S : TRUE
      OBVIOUS
    <3>2. \A y \in S : y = 4
      BY <2>4
    <3> QED BY <3>1, <3>2
  <2> QED BY <2>1, <2>2, <2>3, <2>4
<1> QED BY <1>1 DEF Min

\* The limit a select starts with.
LEMMA FirstLimitDrafted ==
    ASSUME NEW limits, NEW types, DOMAIN types \in SUBSET (1..4), NEW fallback \in Range(types),
           \A t \in DOMAIN limits : limits[t] \in Nat
    PROVE  FirstLimit(limits, types, fallback) \in [type : Range(types), text : AmountText]
<1> DEFINE found == {k \in DOMAIN types : types[k] \in DOMAIN limits}
           type  == IF found = {} THEN fallback ELSE types[Min(found)]
           text  == IF type \in DOMAIN limits THEN MajorUnits(limits[type]) ELSE Blank
<1>1. found # {} => Min(found) \in found
  BY LeastPosition
<1>2. type \in Range(types)
  BY <1>1 DEF Range
<1>3. text \in AmountText
  BY MajorUnitsText, Fields
<1> HIDE DEF type, text
<1>4. [type |-> type, text |-> text] \in [type : Range(types), text : AmountText]
  BY <1>2, <1>3
<1> QED BY <1>4 DEF FirstLimit, type, text

\* The policy of an empty form, or one that is added, is a draft.
LEMMA EmptyPolicyDrafted ==
    ASSUME NEW cover \in CoverageType PROVE EmptyPolicy(cover) \in PolicyDraft
BY Fields, LimitTypes DEF EmptyPolicy, OccurrenceDraft, AggregateDraft, MarkDraft,
                            EvidenceLevel

\* The level shown for what the parser found is a level.
LEMMA ShownLevels ==
    ASSUME NEW level \in EvidenceLevel PROVE LevelShown(level) \in EvidenceLevel
BY DEF LevelShown, EvidenceLevel

\* What an extraction is turned into.
LEMMA ExtractionDrafted ==
    ASSUME NEW d \in Files
    PROVE  Filled(DraftFromExtraction(d)) /\ DraftFromExtraction(d).from = d
<1> DEFINE found == Parsed[d]
           policy(p) ==
              [cover |-> p.cover,
               occurrence |-> FirstLimit(p.limits, OccurrenceTypes, DefaultOccurrenceType(p.cover)),
               aggregate |-> FirstLimit(p.limits, AggregateTypes, DefaultAggregateType(p.cover)),
               common |-> [n \in Common |->
                   [level |-> IF n \in found.mentioned THEN "MENTIONED" ELSE "NONE",
                    pages |-> Blank]]]
           policies == IF found.policies = <<>>
                       THEN <<EmptyPolicy("COMMERCIAL_GENERAL_LIABILITY")>>
                       ELSE [i \in DOMAIN found.policies |-> policy(found.policies[i])]
           row(e) == [name |-> e.name, level |-> LevelShown(e.level), pages |-> Blank]
           endorsements == [i \in DOMAIN found.endorsements |-> row(found.endorsements[i])]
<1>1. WellRead(found)
  BY IntakeAssumption
<1>2. ASSUME NEW i \in DOMAIN found.policies PROVE policy(found.policies[i]) \in PolicyDraft
  <2> DEFINE p == found.policies[i]
  <2>1. p.cover \in CoverageType /\ \A t \in DOMAIN p.limits : p.limits[t] \in Nat
    BY <1>1 DEF WellRead
  <2>2. FirstLimit(p.limits, OccurrenceTypes, DefaultOccurrenceType(p.cover)) \in OccurrenceDraft
    <3>1. DOMAIN OccurrenceTypes \in SUBSET (1..4)
      BY DEF OccurrenceTypes
    <3> QED BY <3>1, <2>1, DefaultTypes, FirstLimitDrafted DEF OccurrenceDraft
  <2>3. FirstLimit(p.limits, AggregateTypes, DefaultAggregateType(p.cover)) \in AggregateDraft
    <3>1. DOMAIN AggregateTypes \in SUBSET (1..4)
      BY DEF AggregateTypes
    <3> QED BY <3>1, <2>1, DefaultTypes, FirstLimitDrafted DEF AggregateDraft
  <2>4. policy(p).common \in [Common -> MarkDraft]
    BY Fields DEF MarkDraft, EvidenceLevel
  <2> HIDE DEF p
  <2>5. policy(p) \in PolicyDraft
    BY <2>1, <2>2, <2>3, <2>4, Fields
  <2> QED BY <2>5 DEF p
<1>3. policies \in Seq(PolicyDraft) /\ Len(policies) > 0
  <2>1. CASE found.policies = <<>>
    <3>1. EmptyPolicy("COMMERCIAL_GENERAL_LIABILITY") \in PolicyDraft
      BY EmptyPolicyDrafted DEF CoverageType
    <3> HIDE DEF found
    <3> QED BY <2>1, <3>1
  <2>2. CASE found.policies # <<>>
    <3> DEFINE n == Len(found.policies)
               f == [i \in DOMAIN found.policies |-> policy(found.policies[i])]
    <3>1. n \in Nat \ {0} /\ DOMAIN found.policies = 1..n
      BY <1>1, <2>2, EmptySeq, LenProperties DEF WellRead
    <3>2. f \in [1..n -> PolicyDraft]
      <4> HIDE DEF policy
      <4> QED BY <1>2, <3>1
    <3>3. policies = f
      BY <2>2
    <3> HIDE DEF f, policies
    <3>4. policies \in Seq(PolicyDraft)
      BY <3>1, <3>2, <3>3, MappedList
    <3>5. policies # <<>>
      BY <3>1, <3>2, <3>3
    <3> QED BY <3>4, <3>5, EmptySeq
  <2> QED BY <2>1, <2>2
<1>4. endorsements \in Seq(EndorsementDraft)
  <2>1. Len(found.endorsements) \in Nat /\ DOMAIN found.endorsements = 1..Len(found.endorsements)
    BY <1>1, LenProperties DEF WellRead
  <2>2. \A i \in DOMAIN found.endorsements : row(found.endorsements[i]) \in EndorsementDraft
    BY <1>1, ShownLevels, Fields DEF WellRead, EndorsementDraft
  <2>3. endorsements \in [1..Len(found.endorsements) -> EndorsementDraft]
    <3> HIDE DEF row
    <3> QED BY <2>1, <2>2
  <2> HIDE DEF endorsements
  <2> QED BY <2>1, <2>3, MappedList
<1>5. found.named \in BOOLEAN
  BY <1>1 DEF WellRead
<1>6. DraftFromExtraction(d) = [from |-> d, named |-> found.named, policies |-> policies,
                                endorsements |-> endorsements]
  BY DEF DraftFromExtraction
<1> HIDE DEF found, policies, endorsements
<1> QED BY <1>3, <1>4, <1>5, <1>6, Fields DEF Filled

-----------------------------------------------------------------------------
(* The edits of a draft.                                                   *)

\* Other policies, other endorsements.
LEMMA OtherPolicies ==
    ASSUME NEW draft, Filled(draft), NEW ps \in Seq(PolicyDraft), Len(ps) > 0
    PROVE  /\ Filled([draft EXCEPT !.policies = ps])
           /\ [draft EXCEPT !.policies = ps].from = draft.from
BY Fields DEF Filled

\* A draft with other endorsements is a draft of the same file.
LEMMA OtherEndorsements ==
    ASSUME NEW draft, Filled(draft), NEW es \in Seq(EndorsementDraft)
    PROVE  /\ Filled([draft EXCEPT !.endorsements = es])
           /\ [draft EXCEPT !.endorsements = es].from = draft.from
BY Fields DEF Filled

\* What the lists of a draft hold.
LEMMA PoliciesListed ==
    ASSUME NEW draft, Filled(draft)
    PROVE  /\ draft.policies \in Seq(PolicyDraft) /\ IsList(draft.policies)
           /\ \A i \in DOMAIN draft.policies : draft.policies[i] \in PolicyDraft
           /\ draft.endorsements \in Seq(EndorsementDraft) /\ IsList(draft.endorsements)
           /\ \A i \in DOMAIN draft.endorsements : draft.endorsements[i] \in EndorsementDraft
BY Fields, ListOf DEF Filled

\* A policy or an endorsement is replaced by another.
LEMMA OnePolicy ==
    ASSUME NEW draft, Filled(draft), NEW i \in DOMAIN draft.policies, NEW p \in PolicyDraft
    PROVE  /\ Filled([draft EXCEPT !.policies = [draft.policies EXCEPT ![i] = p]])
           /\ [draft EXCEPT !.policies = [draft.policies EXCEPT ![i] = p]].from = draft.from
<1> DEFINE ps == [draft.policies EXCEPT ![i] = p]
<1>1. ps \in Seq(PolicyDraft) /\ Len(ps) = Len(draft.policies)
  BY PoliciesListed, ChangeKeeps
<1> HIDE DEF ps
<1>2. Len(ps) > 0
  BY <1>1 DEF Filled
<1>3. /\ Filled([draft EXCEPT !.policies = ps])
      /\ [draft EXCEPT !.policies = ps].from = draft.from
  BY <1>1, <1>2, OtherPolicies
<1> QED BY <1>3 DEF ps

\* A draft with one other endorsement is a draft of the same file.
LEMMA OneEndorsement ==
    ASSUME NEW draft, Filled(draft), NEW i \in DOMAIN draft.endorsements,
           NEW e \in EndorsementDraft
    PROVE  /\ Filled([draft EXCEPT !.endorsements = [draft.endorsements EXCEPT ![i] = e]])
           /\ [draft EXCEPT !.endorsements = [draft.endorsements EXCEPT ![i] = e]].from = draft.from
<1>1. [draft.endorsements EXCEPT ![i] = e] \in Seq(EndorsementDraft)
  BY PoliciesListed, ChangeKeeps
<1> QED BY <1>1, OtherEndorsements

\* An edit of a field of a policy leaves a draft of the same file.
LEMMA PolicyFieldEdits ==
    ASSUME NEW draft, Filled(draft), NEW d \in UpdatePolicy(draft)
    PROVE  Filled(d) /\ d.from = draft.from
<1>1. PICK i \in DOMAIN draft.policies :
        \/ \E t \in AmountTexts : d = [draft EXCEPT !.policies[i].occurrence.text = t]
        \/ \E t \in AmountTexts : d = [draft EXCEPT !.policies[i].aggregate.text = t]
        \/ \E t \in Types \cap Range(OccurrenceTypes) :
              d = [draft EXCEPT !.policies[i].occurrence.type = t]
        \/ \E t \in Types \cap Range(AggregateTypes) :
              d = [draft EXCEPT !.policies[i].aggregate.type = t]
        \/ \E n \in Common, l \in Levels : d = [draft EXCEPT !.policies[i].common[n].level = l]
        \/ \E n \in Common, t \in PageTexts : d = [draft EXCEPT !.policies[i].common[n].pages = t]
  BY DEF UpdatePolicy
<1> DEFINE p == draft.policies[i]
           With(q) == [draft EXCEPT !.policies = [draft.policies EXCEPT ![i] = q]]
<1>2. /\ p \in PolicyDraft /\ p.occurrence \in OccurrenceDraft /\ p.aggregate \in AggregateDraft
      /\ p.common \in [Common -> MarkDraft]
  BY PoliciesListed, Fields
<1>3. AmountTexts \subseteq AmountText /\ PageTexts \subseteq PageText /\ Levels \subseteq EvidenceLevel
  BY IntakeAssumption
<1>4. \E q \in PolicyDraft : d = With(q)
  <2>1. CASE \E t \in AmountTexts : d = [draft EXCEPT !.policies[i].occurrence.text = t]
    <3>1. PICK t \in AmountTexts : d = [draft EXCEPT !.policies[i].occurrence.text = t]
      BY <2>1
    <3> DEFINE l == [p.occurrence EXCEPT !.text = t]
    <3>2. l \in OccurrenceDraft
      BY <1>2, <1>3 DEF OccurrenceDraft
    <3>3. d = With([p EXCEPT !.occurrence = l])
      BY <3>1
    <3> HIDE DEF l, p
    <3>4. [p EXCEPT !.occurrence = l] \in PolicyDraft
      BY <1>2, <3>2, Fields
    <3> QED BY <3>3, <3>4
  <2>2. CASE \E t \in AmountTexts : d = [draft EXCEPT !.policies[i].aggregate.text = t]
    <3>1. PICK t \in AmountTexts : d = [draft EXCEPT !.policies[i].aggregate.text = t]
      BY <2>2
    <3> DEFINE l == [p.aggregate EXCEPT !.text = t]
    <3>2. l \in AggregateDraft
      BY <1>2, <1>3 DEF AggregateDraft
    <3>3. d = With([p EXCEPT !.aggregate = l])
      BY <3>1
    <3> HIDE DEF l, p
    <3>4. [p EXCEPT !.aggregate = l] \in PolicyDraft
      BY <1>2, <3>2, Fields
    <3> QED BY <3>3, <3>4
  <2>3. CASE \E t \in Types \cap Range(OccurrenceTypes) :
                d = [draft EXCEPT !.policies[i].occurrence.type = t]
    <3>1. PICK t \in Range(OccurrenceTypes) : d = [draft EXCEPT !.policies[i].occurrence.type = t]
      BY <2>3
    <3> DEFINE l == [p.occurrence EXCEPT !.type = t]
    <3>2. l \in OccurrenceDraft
      BY <1>2 DEF OccurrenceDraft
    <3>3. d = With([p EXCEPT !.occurrence = l])
      BY <3>1
    <3> HIDE DEF l, p
    <3>4. [p EXCEPT !.occurrence = l] \in PolicyDraft
      BY <1>2, <3>2, Fields
    <3> QED BY <3>3, <3>4
  <2>4. CASE \E t \in Types \cap Range(AggregateTypes) :
                d = [draft EXCEPT !.policies[i].aggregate.type = t]
    <3>1. PICK t \in Range(AggregateTypes) : d = [draft EXCEPT !.policies[i].aggregate.type = t]
      BY <2>4
    <3> DEFINE l == [p.aggregate EXCEPT !.type = t]
    <3>2. l \in AggregateDraft
      BY <1>2 DEF AggregateDraft
    <3>3. d = With([p EXCEPT !.aggregate = l])
      BY <3>1
    <3> HIDE DEF l, p
    <3>4. [p EXCEPT !.aggregate = l] \in PolicyDraft
      BY <1>2, <3>2, Fields
    <3> QED BY <3>3, <3>4
  <2>5. CASE \/ \E n \in Common, l \in Levels :
                   d = [draft EXCEPT !.policies[i].common[n].level = l]
             \/ \E n \in Common, t \in PageTexts :
                   d = [draft EXCEPT !.policies[i].common[n].pages = t]
    <3>1. PICK n \in Common :
             \/ \E l \in Levels : d = [draft EXCEPT !.policies[i].common[n].level = l]
             \/ \E t \in PageTexts : d = [draft EXCEPT !.policies[i].common[n].pages = t]
      BY <2>5
    <3> DEFINE On(m) == [p EXCEPT !.common = [p.common EXCEPT ![n] = m]]
    <3>2. p.common[n] \in MarkDraft
      BY <1>2
    <3>3. \E m \in MarkDraft : d = With(On(m))
      <4>1. ASSUME NEW l \in Levels, d = [draft EXCEPT !.policies[i].common[n].level = l]
            PROVE  \E m \in MarkDraft : d = With(On(m))
        <5>1. [p.common[n] EXCEPT !.level = l] \in MarkDraft
          BY <3>2, <1>3 DEF MarkDraft
        <5>2. d = With(On([p.common[n] EXCEPT !.level = l]))
          BY <4>1
        <5> QED BY <5>1, <5>2
      <4>2. ASSUME NEW t \in PageTexts, d = [draft EXCEPT !.policies[i].common[n].pages = t]
            PROVE  \E m \in MarkDraft : d = With(On(m))
        <5>1. [p.common[n] EXCEPT !.pages = t] \in MarkDraft
          BY <3>2, <1>3 DEF MarkDraft
        <5>2. d = With(On([p.common[n] EXCEPT !.pages = t]))
          BY <4>2
        <5> QED BY <5>1, <5>2
      <4> QED BY <3>1, <4>1, <4>2
    <3>4. ASSUME NEW m \in MarkDraft PROVE On(m) \in PolicyDraft
      <4> HIDE DEF p
      <4> QED BY <1>2, Fields
    <3> QED BY <3>3, <3>4
  <2> QED BY <1>1, <2>1, <2>2, <2>3, <2>4, <2>5
<1> QED BY <1>4, OnePolicy

\* So does another coverage, with the limits it takes along.
LEMMA CoverageEdits ==
    ASSUME NEW draft, Filled(draft), NEW d \in UpdatePolicyCoverage(draft)
    PROVE  Filled(d) /\ d.from = draft.from
<1>1. PICK i \in DOMAIN draft.policies, c \in Coverages :
        d = [draft EXCEPT !.policies = [draft.policies EXCEPT ![i] = Covered(draft.policies[i], c)]]
  BY DEF UpdatePolicyCoverage
<1> DEFINE p == draft.policies[i]
           o == [p.occurrence EXCEPT !.type = DefaultOccurrenceType(c)]
           a == [p.aggregate EXCEPT !.type = DefaultAggregateType(c)]
           q == [p EXCEPT !.cover = c, !.occurrence = o, !.aggregate = a]
<1>2. p \in PolicyDraft /\ p.occurrence \in OccurrenceDraft /\ p.aggregate \in AggregateDraft
  BY PoliciesListed, Fields
<1>3. o \in OccurrenceDraft /\ a \in AggregateDraft /\ c \in CoverageType
  BY <1>2, DefaultTypes, IntakeAssumption DEF OccurrenceDraft, AggregateDraft
<1>4. q = Covered(p, c)
  BY <1>2, Fields DEF Covered
<1> HIDE DEF o, a
<1>5. q \in PolicyDraft
  BY <1>2, <1>3, Fields
<1> HIDE DEF q
<1> QED BY <1>1, <1>4, <1>5, OnePolicy

\* So does an edit of an endorsement.
LEMMA RowEdits ==
    ASSUME NEW draft, Filled(draft), NEW d \in UpdateEndorsement(draft)
    PROVE  Filled(d) /\ d.from = draft.from
<1>1. PICK i \in DOMAIN draft.endorsements :
        \/ \E n \in Names \cup {None} : d = [draft EXCEPT !.endorsements[i].name = n]
        \/ \E l \in Levels : d = [draft EXCEPT !.endorsements[i].level = l]
        \/ \E t \in PageTexts : d = [draft EXCEPT !.endorsements[i].pages = t]
  BY DEF UpdateEndorsement
<1> DEFINE e == draft.endorsements[i]
           With(f) == [draft EXCEPT !.endorsements = [draft.endorsements EXCEPT ![i] = f]]
<1>2. e \in EndorsementDraft
  BY PoliciesListed
<1>3. \E f \in EndorsementDraft : d = With(f)
  <2>1. ASSUME NEW n \in Names \cup {None}, d = [draft EXCEPT !.endorsements[i].name = n]
        PROVE  \E f \in EndorsementDraft : d = With(f)
    <3>1. [e EXCEPT !.name = n] \in EndorsementDraft /\ d = With([e EXCEPT !.name = n])
      BY <1>2, <2>1, IntakeAssumption DEF EndorsementDraft
    <3> QED BY <3>1
  <2>2. ASSUME NEW l \in Levels, d = [draft EXCEPT !.endorsements[i].level = l]
        PROVE  \E f \in EndorsementDraft : d = With(f)
    <3>1. [e EXCEPT !.level = l] \in EndorsementDraft /\ d = With([e EXCEPT !.level = l])
      BY <1>2, <2>2, IntakeAssumption DEF EndorsementDraft
    <3> QED BY <3>1
  <2>3. ASSUME NEW t \in PageTexts, d = [draft EXCEPT !.endorsements[i].pages = t]
        PROVE  \E f \in EndorsementDraft : d = With(f)
    <3>1. [e EXCEPT !.pages = t] \in EndorsementDraft /\ d = With([e EXCEPT !.pages = t])
      BY <1>2, <2>3, IntakeAssumption DEF EndorsementDraft
    <3> QED BY <3>1
  <2> QED BY <1>1, <2>1, <2>2, <2>3
<1> QED BY <1>3, OneEndorsement

\* Whatever the user does to a draft, it remains one of the same file with a policy.
LEMMA EditsFilled ==
    ASSUME NEW draft, Filled(draft), NEW mode, NEW d \in Edits(draft, mode)
    PROVE  Filled(d) /\ d.from = draft.from
<1>1. CASE d \in UpdateDraft(draft)
  BY <1>1, Fields DEF UpdateDraft, Filled
<1>2. CASE d \in UpdatePolicy(draft)
  BY <1>2, PolicyFieldEdits
<1>3. CASE d \in UpdatePolicyCoverage(draft)
  BY <1>3, CoverageEdits
<1>4. CASE d \in AddPolicy(draft)
  <2> DEFINE ps == Append(draft.policies, EmptyPolicy("OTHER"))
  <2>1. EmptyPolicy("OTHER") \in PolicyDraft
    BY EmptyPolicyDrafted DEF CoverageType
  <2>2. ps \in Seq(PolicyDraft) /\ Len(ps) > 0
    BY <2>1, PoliciesListed, AppendProperties DEF IsList
  <2>3. d = [draft EXCEPT !.policies = ps]
    BY <1>4 DEF AddPolicy
  <2> HIDE DEF ps
  <2> QED BY <2>2, <2>3, OtherPolicies
<1>5. CASE d \in RemovePolicy(draft)
  <2>1. PICK i \in DOMAIN draft.policies :
           Len(draft.policies) > 1 /\ d = [draft EXCEPT !.policies = RemoveAt(draft.policies, i)]
    BY <1>5 DEF RemovePolicy
  <2> DEFINE ps == RemoveAt(draft.policies, i)
  <2>2. ps \in Seq(PolicyDraft) /\ Len(ps) > 0
    BY <2>1, PoliciesListed, RemoveAtKeeps DEF IsList
  <2> HIDE DEF ps
  <2>3. d = [draft EXCEPT !.policies = ps]
    BY <2>1 DEF ps
  <2> QED BY <2>2, <2>3, OtherPolicies
<1>6. CASE d \in AddEndorsement(draft, mode)
  <2> DEFINE e == [name |-> None, level |-> IF mode = "staff" THEN "HUMAN_VERIFIED" ELSE "ATTACHED",
                   pages |-> Blank]
  <2>1. e \in EndorsementDraft
    BY Fields DEF EndorsementDraft, EvidenceLevel
  <2>2. d = [draft EXCEPT !.endorsements = Append(draft.endorsements, e)]
    BY <1>6 DEF AddEndorsement
  <2> HIDE DEF e
  <2>3. Append(draft.endorsements, e) \in Seq(EndorsementDraft)
    BY <2>1, PoliciesListed, AppendProperties
  <2> QED BY <2>2, <2>3, OtherEndorsements
<1>7. CASE d \in UpdateEndorsement(draft)
  BY <1>7, RowEdits
<1>8. CASE d \in RemoveEndorsement(draft)
  <2>1. PICK i \in DOMAIN draft.endorsements :
           d = [draft EXCEPT !.endorsements = RemoveAt(draft.endorsements, i)]
    BY <1>8 DEF RemoveEndorsement
  <2>2. RemoveAt(draft.endorsements, i) \in Seq(EndorsementDraft)
    BY PoliciesListed, RemoveAtKeeps
  <2> DEFINE es == RemoveAt(draft.endorsements, i)
  <2>3. es \in Seq(EndorsementDraft) /\ d = [draft EXCEPT !.endorsements = es]
    BY <2>1, <2>2
  <2> HIDE DEF es
  <2> QED BY <2>3, OtherEndorsements
<1> QED BY <1>1, <1>2, <1>3, <1>4, <1>5, <1>6, <1>7, <1>8 DEF Edits

-----------------------------------------------------------------------------
(* Facts, and what a screen shows of them.                                 *)

Fact(p, m) ==
    /\ p.cover \in CoverageType
    /\ DOMAIN p.limits \subseteq LimitType
    /\ \A t \in DOMAIN p.limits : p.limits[t] \in Nat
    /\ IsFiniteSet(p.endorsements)
    /\ \A e \in p.endorsements :
          /\ e.name \in STRING /\ e.level \in EvidenceLevel \ {"NONE"}
          /\ Evidenced(e, m)

\* Facts about a document of m pages.
Facts(facts, m) == IsList(facts) /\ \A i \in DOMAIN facts : Fact(facts[i], m)

Named(facts) == {<<e.name, e.level>> : e \in UNION {facts[i].endorsements : i \in DOMAIN facts}}

Listed(limits) == {<<t, limits[t]>> : t \in DOMAIN limits}

\* The facts are those that the screen with this draft shows.
Match(facts, draft) ==
    /\ DOMAIN facts = DOMAIN draft.policies
    /\ \A i \in DOMAIN facts : Listed(facts[i].limits) = LimitsShown(draft.policies[i])
    /\ Named(facts) = {p \in EndorsementsShown(draft) : p[1] # None /\ p[2] # "NONE"}

\* A readable text is an amount.
LEMMA ReadableAmount ==
    ASSUME NEW text \in AmountText, Readable(text) PROVE ToMinorUnits(text) \in Nat
<1>1. text \in Nat \X Nat
  BY DEF AmountText, Readable
<1>2. text[1] \in Nat /\ text[2] \in Nat
  BY <1>1
<1> QED BY <1>2 DEF ToMinorUnits

\* The limits that the form sends.
LEMMA LimitsSent ==
    ASSUME NEW p \in PolicyDraft
    PROVE  /\ DOMAIN LimitsOf(p) \subseteq LimitType
           /\ \A t \in DOMAIN LimitsOf(p) : LimitsOf(p)[t] \in Nat
           /\ Listed(LimitsOf(p)) = LimitsShown(p)
<1> DEFINE read == {l \in {p.occurrence, p.aggregate} : Readable(l.text)}
           of(t) == CHOOSE l \in read : l.type = t
           limits == [t \in {l.type : l \in read} |-> ToMinorUnits(of(t).text)]
<1>1. /\ p.occurrence \in OccurrenceDraft /\ p.aggregate \in AggregateDraft
      /\ DOMAIN p = {"cover", "occurrence", "aggregate", "common"}
  BY Fields
<1>2. /\ p.occurrence.type \in Range(OccurrenceTypes) /\ p.occurrence.text \in AmountText
      /\ p.aggregate.type \in Range(AggregateTypes) /\ p.aggregate.text \in AmountText
  BY <1>1 DEF OccurrenceDraft, AggregateDraft
<1>3. p.occurrence.type # p.aggregate.type
  BY <1>2, LimitTypes
<1>4. \A l \in read : /\ l.type \in LimitType /\ ToMinorUnits(l.text) \in Nat
                      /\ of(l.type) = l
  <2> TAKE l \in read
  <2>1. l.type \in LimitType /\ l.text \in AmountText /\ Readable(l.text)
    BY <1>2, LimitTypes
  <2>2. \A k \in read : k.type = l.type => k = l
    BY <1>3
  <2>3. of(l.type) = l
    <3> HIDE DEF read
    <3> QED BY <2>2
  <2> QED BY <2>1, <2>3, ReadableAmount
<1>5. LimitsOf(p) = limits
  BY DEF LimitsOf
<1>6. LimitsShown(p) = {<<l.type, ToMinorUnits(l.text)>> : l \in read}
  BY <1>1 DEF LimitsShown
<1> HIDE DEF read, of
<1>7. DOMAIN limits \subseteq LimitType /\ \A t \in DOMAIN limits : limits[t] \in Nat
  BY <1>4
<1>8. Listed(limits) = {<<l.type, ToMinorUnits(l.text)>> : l \in read}
  BY <1>4 DEF Listed
<1> QED BY <1>5, <1>6, <1>7, <1>8

\* The endorsements that the form sends with a policy.
LEMMA CommonSent ==
    ASSUME NEW draft, Filled(draft), NEW m, Complete(draft, m), NEW i \in DOMAIN draft.policies
    PROVE  LET p == draft.policies[i] IN
           /\ IsFiniteSet(CommonOf(p))
           /\ \A e \in CommonOf(p) : /\ e.name \in STRING /\ e.level \in EvidenceLevel \ {"NONE"}
                                     /\ Evidenced(e, m)
           /\ {<<e.name, e.level>> : e \in CommonOf(p)}
                = {q \in {<<n, p.common[n].level>> : n \in Common} : q[1] # None /\ q[2] # "NONE"}
<1> DEFINE p == draft.policies[i]
           kept == {n \in Common : p.common[n].level # "NONE"}
           row(n) == [name |-> n, level |-> p.common[n].level, pages |-> PagesOf(p.common[n].pages)]
<1>1. p.common \in [Common -> MarkDraft]
  BY PoliciesListed, Fields
<1>2. \A n \in Common : /\ p.common[n].level \in EvidenceLevel /\ p.common[n].pages \in PageText
                        /\ ~PagesRefused(p.common[n].pages, p.common[n].level, m)
  BY <1>1 DEF MarkDraft, Complete
<1>3. CommonOf(p) = {row(n) : n \in kept}
  BY DEF CommonOf
<1>4. IsFiniteSet(kept) /\ Common \subseteq STRING /\ None \notin Common
  BY IntakeAssumption, FS_Subset
<1> HIDE DEF p
<1>5. \A n \in kept : /\ row(n).name \in STRING /\ row(n).level \in EvidenceLevel \ {"NONE"}
                      /\ Evidenced(row(n), m)
  BY <1>2, <1>4, AcceptedPages DEF Evidenced
<1>6. \A n \in kept : row(n).name = n /\ row(n).level = p.common[n].level
  OBVIOUS
<1> HIDE DEF row
<1>7. IsFiniteSet({row(n) : n \in kept})
  <2> DEFINE f == [n \in kept |-> row(n)]
  <2>1. IsFiniteSet({f[n] : n \in kept})
    <3>1. DOMAIN f = kept /\ IsFiniteSet(kept)
      BY <1>4
    <3> HIDE DEF f, kept
    <3> QED BY <3>1, ImageFinite
  <2>2. {f[n] : n \in kept} = {row(n) : n \in kept}
    OBVIOUS
  <2> QED BY <2>1, <2>2
<1>8. {<<e.name, e.level>> : e \in {row(n) : n \in kept}}
        = {q \in {<<n, p.common[n].level>> : n \in Common} : q[1] # None /\ q[2] # "NONE"}
  <2> DEFINE pair(n) == <<n, p.common[n].level>>
  <2>1. \A n \in kept : <<row(n).name, row(n).level>> = pair(n)
    BY <1>6
  <2>2. \A n \in Common : pair(n)[1] = n /\ pair(n)[2] = p.common[n].level
    OBVIOUS
  <2> HIDE DEF pair
  <2>3. \A n \in Common : n \in kept <=> pair(n)[1] # None /\ pair(n)[2] # "NONE"
    BY <2>2, <1>4
  <2>4. {<<e.name, e.level>> : e \in {row(n) : n \in kept}} = {pair(n) : n \in kept}
    BY <2>1
  <2>5. {pair(n) : n \in kept} = {q \in {pair(n) : n \in Common} : q[1] # None /\ q[2] # "NONE"}
    BY <2>3
  <2> QED BY <2>4, <2>5 DEF pair
<1> QED BY <1>3, <1>5, <1>7, <1>8 DEF p

\* The endorsements sent are the listed ones with a name and a level, with their pages.
LEMMA OthersSent ==
    ASSUME NEW draft, Filled(draft), NEW m, Complete(draft, m)
    PROVE  /\ IsFiniteSet(OthersOf(draft))
           /\ \A e \in OthersOf(draft) : /\ e.name \in STRING /\ e.level \in EvidenceLevel \ {"NONE"}
                                         /\ Evidenced(e, m)
           /\ {<<e.name, e.level>> : e \in OthersOf(draft)}
                = {q \in {<<e.name, e.level>> : e \in Range(draft.endorsements)} :
                       q[1] # None /\ q[2] # "NONE"}
<1> DEFINE rows == Range(draft.endorsements)
           kept == {e \in rows : e.level # "NONE" /\ e.name # None}
           row(e) == [name |-> e.name, level |-> e.level, pages |-> PagesOf(e.pages)]
<1>1. \A e \in rows :
         /\ e.level \in EvidenceLevel /\ e.name \in STRING \cup {None} /\ e.pages \in PageText
         /\ e \in kept => ~PagesRefused(e.pages, e.level, m)
  <2>1. \A i \in DOMAIN draft.endorsements : draft.endorsements[i] \in EndorsementDraft
    BY PoliciesListed
  <2> QED BY <2>1 DEF EndorsementDraft, Complete, Range
<1>2. OthersOf(draft) = {row(e) : e \in kept}
  BY DEF OthersOf
<1>3. IsFiniteSet(kept)
  <2>1. IsFiniteSet(DOMAIN draft.endorsements)
    BY PoliciesListed, FS_Interval DEF IsList
  <2>2. IsFiniteSet(rows)
    BY <2>1, ImageFinite DEF Range
  <2> QED BY <2>2, FS_Subset
<1> HIDE DEF rows
<1>4. \A e \in kept : /\ row(e).name \in STRING /\ row(e).level \in EvidenceLevel \ {"NONE"}
                      /\ Evidenced(row(e), m)
  BY <1>1, AcceptedPages DEF Evidenced
<1>5. \A e \in kept : row(e).name = e.name /\ row(e).level = e.level
  OBVIOUS
<1> HIDE DEF row
<1>6. IsFiniteSet({row(e) : e \in kept})
  <2> DEFINE f == [e \in kept |-> row(e)]
  <2>1. IsFiniteSet({f[e] : e \in kept})
    <3>1. DOMAIN f = kept
      OBVIOUS
    <3> HIDE DEF f
    <3> QED BY <3>1, <1>3, ImageFinite
  <2>2. {f[e] : e \in kept} = {row(e) : e \in kept}
    OBVIOUS
  <2> QED BY <2>1, <2>2
<1>7. {<<e.name, e.level>> : e \in {row(f) : f \in kept}}
        = {q \in {<<e.name, e.level>> : e \in rows} : q[1] # None /\ q[2] # "NONE"}
  <2> DEFINE pair(e) == <<e.name, e.level>>
  <2>1. \A e \in kept : pair(row(e)) = pair(e)
    BY <1>5
  <2>2. \A e \in rows : pair(e)[1] = e.name /\ pair(e)[2] = e.level
    OBVIOUS
  <2> HIDE DEF pair
  <2>3. \A e \in rows : e \in kept <=> pair(e)[1] # None /\ pair(e)[2] # "NONE"
    BY <2>2
  <2>4. {pair(e) : e \in {row(f) : f \in kept}} = {pair(e) : e \in kept}
    BY <2>1
  <2>5. {pair(e) : e \in kept} = {q \in {pair(e) : e \in rows} : q[1] # None /\ q[2] # "NONE"}
    BY <2>3
  <2> QED BY <2>4, <2>5 DEF pair
<1> QED BY <1>2, <1>4, <1>6, <1>7 DEF rows

\* What the form sends are facts about the document, and those it shows.
LEMMA FormSends ==
    ASSUME NEW draft, Filled(draft), NEW m, Complete(draft, m)
    PROVE  Facts(PoliciesOf(draft), m) /\ Match(PoliciesOf(draft), draft)
<1> DEFINE facts == PoliciesOf(draft)
           ps == draft.policies
           others(i) == IF i = 1 THEN OthersOf(draft) ELSE {}
           Kept(Q) == {q \in Q : q[1] # None /\ q[2] # "NONE"}
           pairs(E) == {<<e.name, e.level>> : e \in E}
           common(i) == {<<n, ps[i].common[n].level>> : n \in Common}
<1>1. /\ ps \in Seq(PolicyDraft) /\ IsList(ps) /\ 1 \in DOMAIN ps
      /\ \A i \in DOMAIN ps : ps[i] \in PolicyDraft
  BY PoliciesListed DEF Filled, IsList
<1>2. /\ DOMAIN facts = DOMAIN ps /\ IsList(facts)
      /\ \A i \in DOMAIN ps : /\ facts[i].cover = ps[i].cover
                              /\ facts[i].limits = LimitsOf(ps[i])
                              /\ facts[i].endorsements = CommonOf(ps[i]) \cup others(i)
  <2>1. facts = [i \in DOMAIN ps |-> [cover |-> ps[i].cover, limits |-> LimitsOf(ps[i]),
                                      endorsements |-> CommonOf(ps[i]) \cup others(i)]]
    BY DEF PoliciesOf
  <2> HIDE DEF facts, others
  <2>2. DOMAIN facts = DOMAIN ps
    BY <2>1
  <2>3. Len(facts) = Len(ps)
    BY <2>1, <1>1 DEF IsList
  <2> QED BY <2>1, <2>2, <2>3, <1>1 DEF IsList
<1> HIDE DEF facts
<1>3. ASSUME NEW i \in DOMAIN facts PROVE Fact(facts[i], m)
  <2>1. ps[i] \in PolicyDraft /\ ps[i].cover \in CoverageType /\ i \in DOMAIN draft.policies
    BY <1>1, <1>2, Fields
  <2>2. IsFiniteSet(others(i))
    BY OthersSent, FS_EmptySet
  <2>3. IsFiniteSet(CommonOf(ps[i]) \cup others(i))
    BY <2>1, <2>2, CommonSent, FS_Union
  <2>4. \A e \in CommonOf(ps[i]) \cup others(i) :
            /\ e.name \in STRING /\ e.level \in EvidenceLevel \ {"NONE"}
            /\ Evidenced(e, m)
    BY <2>1, CommonSent, OthersSent
  <2> QED BY <1>2, <2>1, <2>3, <2>4, LimitsSent DEF Fact
<1>4. ASSUME NEW i \in DOMAIN facts PROVE Listed(facts[i].limits) = LimitsShown(ps[i])
  BY <1>1, <1>2, LimitsSent
<1>5. Named(facts) = Kept(EndorsementsShown(draft))
  <2>1. \A i \in DOMAIN ps : pairs(CommonOf(ps[i])) = Kept(common(i))
    BY CommonSent
  <2>2. pairs(OthersOf(draft)) = Kept(pairs(Range(draft.endorsements)))
    BY OthersSent
  <2>3. EndorsementsShown(draft)
          = (UNION {common(i) : i \in DOMAIN ps}) \cup pairs(Range(draft.endorsements))
    <3>1. \A i \in DOMAIN ps : "endorsements" \notin DOMAIN ps[i]
      BY <1>1, Fields
    <3>2. "endorsements" \in DOMAIN draft
      BY Fields DEF Filled
    <3> QED BY <3>1, <3>2 DEF EndorsementsShown
  <2>4. Named(facts) = (UNION {pairs(CommonOf(ps[i])) : i \in DOMAIN ps}) \cup pairs(OthersOf(draft))
    <3>1. Named(facts) = pairs(UNION {facts[i].endorsements : i \in DOMAIN facts})
      BY DEF Named
    <3>2. UNION {facts[i].endorsements : i \in DOMAIN facts}
            = (UNION {CommonOf(ps[i]) : i \in DOMAIN ps}) \cup OthersOf(draft)
      BY <1>1, <1>2
    <3>3. pairs((UNION {CommonOf(ps[i]) : i \in DOMAIN ps}) \cup OthersOf(draft))
            = (UNION {pairs(CommonOf(ps[i])) : i \in DOMAIN ps}) \cup pairs(OthersOf(draft))
      OBVIOUS
    <3> QED BY <3>1, <3>2, <3>3
  <2>5. UNION {pairs(CommonOf(ps[i])) : i \in DOMAIN ps} = UNION {Kept(common(i)) : i \in DOMAIN ps}
    BY <2>1
  <2> HIDE DEF common, pairs
  <2> QED BY <2>2, <2>3, <2>4, <2>5
<1>6. Facts(facts, m)
  BY <1>2, <1>3 DEF Facts
<1>7. Match(facts, draft)
  BY <1>2, <1>4, <1>5 DEF Match
<1> QED BY <1>6, <1>7 DEF facts

-----------------------------------------------------------------------------
(* The correction editor.                                                  *)

LimitDraft      == [type : LimitType, text : AmountText]
KeptDraft       == [name : STRING \cup {None}, level : EvidenceLevel \ {"NONE"}, pages : PageText]
PolicyCorrected == [cover : CoverageType, limits : Seq(LimitDraft), endorsements : Seq(KeptDraft)]
Correction      == [named : BOOLEAN, policies : Seq(PolicyCorrected)]

\* There are finitely many types of limits.
LEMMA LimitTypesFinite == IsFiniteSet(LimitType)
<1>1. ASSUME NEW S, IsFiniteSet(S), NEW t PROVE IsFiniteSet(S \cup {t})
  BY <1>1, FS_AddElement
<1> DEFINE one   == {"EACH_OCCURRENCE", "DAMAGE_TO_RENTED_PREMISES", "MEDICAL_EXPENSE",
                     "PERSONAL_ADVERTISING_INJURY", "GENERAL_AGGREGATE"}
           two   == {"PRODUCTS_COMPLETED_OPERATIONS_AGGREGATE", "COMBINED_SINGLE_LIMIT",
                     "BODILY_INJURY_PER_PERSON", "BODILY_INJURY_PER_ACCIDENT",
                     "PROPERTY_DAMAGE_PER_ACCIDENT"}
           three == {"EACH_ACCIDENT", "DISEASE_EACH_EMPLOYEE", "DISEASE_POLICY_LIMIT",
                     "EACH_CLAIM", "AGGREGATE"}
<1>2. ASSUME NEW a, NEW b, NEW c, NEW d, NEW e PROVE IsFiniteSet({a, b, c, d, e})
  <2>1. IsFiniteSet({a}) /\ {a, b} = {a} \cup {b} /\ {a, b, c} = {a, b} \cup {c}
        /\ {a, b, c, d} = {a, b, c} \cup {d} /\ {a, b, c, d, e} = {a, b, c, d} \cup {e}
    BY FS_Singleton
  <2>2. IsFiniteSet({a, b})
    BY <1>1, <2>1
  <2>3. IsFiniteSet({a, b, c})
    BY <1>1, <2>1, <2>2
  <2>4. IsFiniteSet({a, b, c, d})
    BY <1>1, <2>1, <2>3
  <2> QED BY <1>1, <2>1, <2>4
<1>3. IsFiniteSet(one) /\ IsFiniteSet(two) /\ IsFiniteSet(three)
  BY <1>2
<1>4. LimitType = (one \cup two) \cup three
  BY DEF LimitType
<1> HIDE DEF one, two, three
<1> QED BY <1>3, <1>4, FS_Union

\* The editor shows the limits of a fact in rows that it can hold.
LEMMA LimitDrafted ==
    ASSUME NEW p, NEW m, Fact(p, m) PROVE LimitDrafts(p) \in Seq(LimitDraft)
<1> DEFINE types == SetToSeq(DOMAIN p.limits)
           row(i) == [type |-> types[i], text |-> MajorUnits(p.limits[types[i]])]
<1>1. IsFiniteSet(LimitType)
  BY LimitTypesFinite
<1>2. IsFiniteSet(DOMAIN p.limits)
  BY <1>1, FS_Subset DEF Fact
<1>3. types \in Seq(DOMAIN p.limits)
  BY <1>2, ListedSet
<1>4. IsList(types) /\ \A i \in DOMAIN types : types[i] \in DOMAIN p.limits
  BY <1>3, ListOf
<1>5. LimitDrafts(p) = [i \in DOMAIN types |-> row(i)]
  BY DEF LimitDrafts
<1> HIDE DEF types
<1>6. \A i \in DOMAIN types : row(i) \in LimitDraft
  BY <1>4, MajorUnitsText DEF Fact, LimitDraft
<1> HIDE DEF row
<1>7. [i \in DOMAIN types |-> row(i)] \in [1..Len(types) -> LimitDraft]
  BY <1>4, <1>6 DEF IsList
<1> QED BY <1>4, <1>5, <1>7, MappedList DEF IsList

\* And its endorsements.
LEMMA EndorsementDrafted ==
    ASSUME NEW p, NEW m \in Nat, Fact(p, m) PROVE EndorsementDrafts(p) \in Seq(KeptDraft)
<1> DEFINE rows == SetToSeq(p.endorsements)
           row(i) == [name |-> rows[i].name, level |-> rows[i].level,
                      pages |-> SetToSeq(rows[i].pages)]
<1>1. rows \in Seq(p.endorsements)
  BY ListedSet DEF Fact
<1>2. IsList(rows) /\ \A i \in DOMAIN rows : rows[i] \in p.endorsements
  BY <1>1, ListOf
<1>3. EndorsementDrafts(p) = [i \in DOMAIN rows |-> row(i)]
  BY DEF EndorsementDrafts
<1>4. ASSUME NEW e \in p.endorsements PROVE SetToSeq(e.pages) \in PageText
  <2>1. e.pages \subseteq 1..m
    BY DEF Fact, Evidenced
  <2>2. IsFiniteSet(e.pages)
    BY <2>1, FS_Interval, FS_Subset
  <2>3. SetToSeq(e.pages) \in Seq(e.pages) /\ e.pages \subseteq Nat
    BY <2>1, <2>2, ListedSet
  <2> QED BY <2>3, SeqMonotonic DEF PageText
<1> HIDE DEF rows
<1>5. \A i \in DOMAIN rows : row(i) \in KeptDraft
  BY <1>2, <1>4 DEF Fact, KeptDraft
<1> HIDE DEF row
<1>6. [i \in DOMAIN rows |-> row(i)] \in [1..Len(rows) -> KeptDraft]
  BY <1>2, <1>5 DEF IsList
<1> QED BY <1>2, <1>3, <1>6, MappedList DEF IsList

\* What the editor opens with.
LEMMA CorrectionDrafted ==
    ASSUME NEW c, NEW m \in Nat, Facts(c.facts, m) PROVE CorrectionDraft(c) \in Correction
<1> DEFINE policy(i) == [cover |-> c.facts[i].cover, limits |-> LimitDrafts(c.facts[i]),
                         endorsements |-> EndorsementDrafts(c.facts[i])]
           ps == [i \in DOMAIN c.facts |-> policy(i)]
<1>1. \A i \in DOMAIN c.facts : policy(i) \in PolicyCorrected
  <2> TAKE i \in DOMAIN c.facts
  <2>1. Fact(c.facts[i], m)
    BY DEF Facts
  <2> QED BY <2>1, LimitDrafted, EndorsementDrafted DEF Fact, PolicyCorrected
<1>2. CorrectionDraft(c) = [named |-> TRUE, policies |-> ps]
  BY DEF CorrectionDraft
<1> HIDE DEF policy
<1>3. ps \in [1..Len(c.facts) -> PolicyCorrected] /\ Len(c.facts) \in Nat
  BY <1>1 DEF Facts, IsList
<1> HIDE DEF ps
<1>4. ps \in Seq(PolicyCorrected)
  BY <1>3, MappedList
<1> QED BY <1>2, <1>4 DEF Correction

\* What the lists of a correction hold.
LEMMA CorrectedListed ==
    ASSUME NEW draft \in Correction, NEW i \in DOMAIN draft.policies
    PROVE  /\ draft.policies \in Seq(PolicyCorrected) /\ draft.policies[i] \in PolicyCorrected
           /\ draft.policies[i].limits \in Seq(LimitDraft)
           /\ draft.policies[i].endorsements \in Seq(KeptDraft)
<1>1. draft.policies \in Seq(PolicyCorrected)
  BY DEF Correction
<1>2. draft.policies[i] \in PolicyCorrected
  BY <1>1, ListOf
<1> QED BY <1>1, <1>2 DEF PolicyCorrected

\* A policy of a correction is replaced by another.
LEMMA OneCorrected ==
    ASSUME NEW draft \in Correction, NEW i \in DOMAIN draft.policies, NEW p \in PolicyCorrected
    PROVE  [draft EXCEPT !.policies = [draft.policies EXCEPT ![i] = p]] \in Correction
<1>1. [draft.policies EXCEPT ![i] = p] \in Seq(PolicyCorrected)
  BY ChangeKeeps DEF Correction
<1> QED BY <1>1 DEF Correction

\* A change of a policy's own fields leaves a correction.
LEMMA PolicyCorrectionsKept ==
    ASSUME NEW draft \in Correction, NEW i \in DOMAIN draft.policies,
           NEW d \in PolicyCorrections(draft, i)
    PROVE  d \in Correction
<1> DEFINE p == draft.policies[i]
           With(q) == [draft EXCEPT !.policies = [draft.policies EXCEPT ![i] = q]]
           l == [type |-> "EACH_OCCURRENCE", text |-> Blank]
           e == [name |-> None, level |-> "MENTIONED", pages |-> Blank]
<1>1. /\ draft.policies \in Seq(PolicyCorrected) /\ p \in PolicyCorrected
      /\ p.limits \in Seq(LimitDraft) /\ p.endorsements \in Seq(KeptDraft)
  BY CorrectedListed
<1>2. l \in LimitDraft /\ e \in KeptDraft
  BY Fields DEF LimitDraft, KeptDraft, LimitType, EvidenceLevel
<1>3. \/ d = [draft EXCEPT !.policies = RemoveAt(draft.policies, i)]
      \/ \E c \in Coverages : d = With([p EXCEPT !.cover = c])
      \/ d = With([p EXCEPT !.limits = Append(p.limits, l)])
      \/ d = With([p EXCEPT !.endorsements = Append(p.endorsements, e)])
  BY DEF PolicyCorrections
<1> HIDE DEF p, l, e
<1>4. CASE d = [draft EXCEPT !.policies = RemoveAt(draft.policies, i)]
  <2> DEFINE ps == RemoveAt(draft.policies, i)
  <2>1. ps \in Seq(PolicyCorrected)
    BY <1>1, RemoveAtKeeps
  <2>2. d = [draft EXCEPT !.policies = ps]
    BY <1>4
  <2> HIDE DEF ps
  <2> QED BY <2>1, <2>2 DEF Correction
<1>5. ASSUME NEW c \in Coverages, d = With([p EXCEPT !.cover = c]) PROVE d \in Correction
  <2>1. [p EXCEPT !.cover = c] \in PolicyCorrected
    BY <1>1, IntakeAssumption DEF PolicyCorrected
  <2> QED BY <2>1, <1>5, OneCorrected
<1>6. CASE d = With([p EXCEPT !.limits = Append(p.limits, l)])
  <2>1. Append(p.limits, l) \in Seq(LimitDraft)
    BY <1>1, <1>2, AppendProperties
  <2>2. [p EXCEPT !.limits = Append(p.limits, l)] \in PolicyCorrected
    BY <1>1, <2>1 DEF PolicyCorrected
  <2> QED BY <2>2, <1>6, OneCorrected
<1>7. CASE d = With([p EXCEPT !.endorsements = Append(p.endorsements, e)])
  <2>1. Append(p.endorsements, e) \in Seq(KeptDraft)
    BY <1>1, <1>2, AppendProperties
  <2>2. [p EXCEPT !.endorsements = Append(p.endorsements, e)] \in PolicyCorrected
    BY <1>1, <2>1 DEF PolicyCorrected
  <2> QED BY <2>2, <1>7, OneCorrected
<1> QED BY <1>3, <1>4, <1>5, <1>6, <1>7

\* So does a change of its limits.
LEMMA LimitCorrectionsKept ==
    ASSUME NEW draft \in Correction, NEW i \in DOMAIN draft.policies,
           NEW d \in LimitCorrections(draft, i)
    PROVE  d \in Correction
<1> DEFINE p == draft.policies[i]
           With(ls) == [draft EXCEPT !.policies = [draft.policies EXCEPT ![i] =
                                                      [p EXCEPT !.limits = ls]]]
<1>1. p \in PolicyCorrected /\ p.limits \in Seq(LimitDraft)
  BY CorrectedListed
<1>2. PICK k \in DOMAIN p.limits :
        \/ d = With(RemoveAt(p.limits, k))
        \/ \E t \in AmountTexts : d = With([p.limits EXCEPT ![k] = [p.limits[k] EXCEPT !.text = t]])
        \/ \E t \in Types : d = With([p.limits EXCEPT ![k] = [p.limits[k] EXCEPT !.type = t]])
  BY DEF LimitCorrections
<1> DEFINE l == p.limits[k]
<1>3. l \in LimitDraft
  BY <1>1, ListOf
<1>4. ASSUME NEW ls \in Seq(LimitDraft) PROVE With(ls) \in Correction
  <2>1. [p EXCEPT !.limits = ls] \in PolicyCorrected
    <3> HIDE DEF p
    <3> QED BY <1>1 DEF PolicyCorrected
  <2> QED BY <2>1, OneCorrected
<1>5. \E ls \in Seq(LimitDraft) : d = With(ls)
  <2>1. RemoveAt(p.limits, k) \in Seq(LimitDraft)
    BY <1>1, RemoveAtKeeps
  <2>2. \A t \in AmountTexts : [l EXCEPT !.text = t] \in LimitDraft
    BY <1>3, IntakeAssumption DEF LimitDraft
  <2>3. \A t \in Types : [l EXCEPT !.type = t] \in LimitDraft
    BY <1>3, IntakeAssumption DEF LimitDraft
  <2>4. \A x \in LimitDraft : [p.limits EXCEPT ![k] = x] \in Seq(LimitDraft)
    BY <1>1, ChangeKeeps
  <2> HIDE DEF With
  <2> QED BY <1>2, <2>1, <2>2, <2>3, <2>4
<1> QED BY <1>4, <1>5

\* So does a change of its endorsements.
LEMMA EndorsementCorrectionsKept ==
    ASSUME NEW draft \in Correction, NEW i \in DOMAIN draft.policies,
           NEW d \in EndorsementCorrections(draft, i)
    PROVE  d \in Correction
<1> DEFINE p == draft.policies[i]
           With(es) == [draft EXCEPT !.policies = [draft.policies EXCEPT ![i] =
                                                      [p EXCEPT !.endorsements = es]]]
<1>1. p \in PolicyCorrected /\ p.endorsements \in Seq(KeptDraft)
  BY CorrectedListed
<1>2. PICK k \in DOMAIN p.endorsements :
        \/ d = With(RemoveAt(p.endorsements, k))
        \/ \E n \in Names \cup {None} :
              d = With([p.endorsements EXCEPT ![k] = [p.endorsements[k] EXCEPT !.name = n]])
        \/ \E l \in Levels \ {"NONE"} :
              d = With([p.endorsements EXCEPT ![k] = [p.endorsements[k] EXCEPT !.level = l]])
        \/ \E t \in PageTexts :
              d = With([p.endorsements EXCEPT ![k] = [p.endorsements[k] EXCEPT !.pages = t]])
  BY DEF EndorsementCorrections
<1> DEFINE e == p.endorsements[k]
<1>3. e \in KeptDraft
  BY <1>1, ListOf
<1>4. ASSUME NEW es \in Seq(KeptDraft) PROVE With(es) \in Correction
  <2>1. [p EXCEPT !.endorsements = es] \in PolicyCorrected
    <3> HIDE DEF p
    <3> QED BY <1>1 DEF PolicyCorrected
  <2> QED BY <2>1, OneCorrected
<1>5. \E es \in Seq(KeptDraft) : d = With(es)
  <2>1. RemoveAt(p.endorsements, k) \in Seq(KeptDraft)
    BY <1>1, RemoveAtKeeps
  <2>2. \A n \in Names \cup {None} : [e EXCEPT !.name = n] \in KeptDraft
    BY <1>3, IntakeAssumption DEF KeptDraft
  <2>3. \A l \in Levels \ {"NONE"} : [e EXCEPT !.level = l] \in KeptDraft
    BY <1>3, IntakeAssumption DEF KeptDraft
  <2>4. \A t \in PageTexts : [e EXCEPT !.pages = t] \in KeptDraft
    BY <1>3, IntakeAssumption DEF KeptDraft
  <2>5. \A x \in KeptDraft : [p.endorsements EXCEPT ![k] = x] \in Seq(KeptDraft)
    BY <1>1, ChangeKeeps
  <2> HIDE DEF With
  <2> QED BY <1>2, <2>1, <2>2, <2>3, <2>4, <2>5
<1> QED BY <1>4, <1>5

\* Whatever a reviewer does to a correction.
LEMMA CorrectionsKept ==
    ASSUME NEW draft \in Correction, NEW d \in Corrections(draft)
    PROVE  d \in Correction
<1>1. CASE d \in {[draft EXCEPT !.named = b] : b \in BOOLEAN}
  BY <1>1 DEF Correction
<1>2. CASE d \in {[draft EXCEPT !.policies = Append(@, [cover |-> "OTHER", limits |-> <<>>,
                                                       endorsements |-> <<>>])]}
  <2> DEFINE p == [cover |-> "OTHER", limits |-> <<>>, endorsements |-> <<>>]
  <2>1. p \in PolicyCorrected
    BY EmptySeq DEF PolicyCorrected, CoverageType
  <2>2. d = [draft EXCEPT !.policies = Append(draft.policies, p)]
    BY <1>2
  <2> HIDE DEF p
  <2>3. Append(draft.policies, p) \in Seq(PolicyCorrected)
    BY <2>1, AppendProperties DEF Correction
  <2> QED BY <2>2, <2>3 DEF Correction
<1>3. ASSUME NEW i \in DOMAIN draft.policies,
             d \in PolicyCorrections(draft, i) \cup LimitCorrections(draft, i)
                      \cup EndorsementCorrections(draft, i)
      PROVE  d \in Correction
  BY <1>3, PolicyCorrectionsKept, LimitCorrectionsKept, EndorsementCorrectionsKept
<1> QED BY <1>1, <1>2, <1>3 DEF Corrections

\* The limits of a corrected policy.
LEMMA LimitsCorrected ==
    ASSUME NEW p \in PolicyCorrected,
           \A k \in DOMAIN p.limits : Readable(p.limits[k].text),
           \A k, l \in DOMAIN p.limits : k # l => p.limits[k].type # p.limits[l].type
    PROVE  LET limits == [t \in {p.limits[k].type : k \in DOMAIN p.limits} |->
                   ToMinorUnits(p.limits[CHOOSE k \in DOMAIN p.limits : p.limits[k].type = t].text)]
           IN  /\ DOMAIN limits \subseteq LimitType
               /\ \A t \in DOMAIN limits : limits[t] \in Nat
               /\ Listed(limits) = LimitsShown(p)
<1> DEFINE rows == p.limits
           of(t) == CHOOSE k \in DOMAIN rows : rows[k].type = t
           limits == [t \in {rows[k].type : k \in DOMAIN rows} |-> ToMinorUnits(rows[of(t)].text)]
<1>1. rows \in Seq(LimitDraft) /\ DOMAIN p = {"cover", "limits", "endorsements"}
  BY DEF PolicyCorrected
<1>2. \A k \in DOMAIN rows : rows[k].type \in LimitType /\ rows[k].text \in AmountText
  <2>1. \A k \in DOMAIN rows : rows[k] \in LimitDraft
    BY <1>1, ListOf
  <2> QED BY <2>1 DEF LimitDraft
<1>3. \A k \in DOMAIN rows : of(rows[k].type) = k
  OBVIOUS
<1>4. \A k \in DOMAIN rows : ToMinorUnits(rows[k].text) \in Nat
  BY <1>2, ReadableAmount
<1>5. LimitsShown(p) = {<<l.type, ToMinorUnits(l.text)>> : l \in {m \in Range(rows) : Readable(m.text)}}
  BY <1>1 DEF LimitsShown
<1>6. LimitsShown(p) = {<<rows[k].type, ToMinorUnits(rows[k].text)>> : k \in DOMAIN rows}
  <2>1. {m \in Range(rows) : Readable(m.text)} = {rows[k] : k \in DOMAIN rows}
    BY DEF Range
  <2> QED BY <1>5, <2>1
<1> HIDE DEF of
<1>7. DOMAIN limits \subseteq LimitType /\ \A t \in DOMAIN limits : limits[t] \in Nat
  BY <1>2, <1>3, <1>4
<1>8. Listed(limits) = {<<rows[k].type, ToMinorUnits(rows[k].text)>> : k \in DOMAIN rows}
  BY <1>3 DEF Listed
<1> QED BY <1>6, <1>7, <1>8 DEF of

\* The endorsements of a corrected policy.
LEMMA RowsCorrected ==
    ASSUME NEW p \in PolicyCorrected, NEW m,
           \A k \in DOMAIN p.endorsements :
              p.endorsements[k].name # None
                 => ~PagesRefused(p.endorsements[k].pages, p.endorsements[k].level, m)
    PROVE  LET rows == {[name |-> e.name, level |-> e.level, pages |-> PagesOf(e.pages)]
                           : e \in {f \in Range(p.endorsements) : f.name # None}}
           IN  /\ IsFiniteSet(rows)
               /\ \A e \in rows : /\ e.name \in STRING /\ e.level \in EvidenceLevel \ {"NONE"}
                                  /\ Evidenced(e, m)
               /\ {<<e.name, e.level>> : e \in rows}
                     = {q \in {<<e.name, e.level>> : e \in Range(p.endorsements)} :
                            q[1] # None /\ q[2] # "NONE"}
<1> DEFINE all == Range(p.endorsements)
           kept == {e \in all : e.name # None}
           row(e) == [name |-> e.name, level |-> e.level, pages |-> PagesOf(e.pages)]
<1>1. p.endorsements \in Seq(KeptDraft)
  BY DEF PolicyCorrected
<1>2. \A e \in all :
         /\ e.level \in EvidenceLevel \ {"NONE"} /\ e.name \in STRING \cup {None}
         /\ e.pages \in PageText
         /\ e \in kept => ~PagesRefused(e.pages, e.level, m)
  <2>1. \A k \in DOMAIN p.endorsements : p.endorsements[k] \in KeptDraft
    BY <1>1, ListOf
  <2> QED BY <2>1 DEF KeptDraft, Range
<1>3. IsFiniteSet(kept)
  <2>1. IsFiniteSet(DOMAIN p.endorsements)
    BY <1>1, LenProperties, FS_Interval
  <2>2. IsFiniteSet(all)
    BY <2>1, ImageFinite DEF Range
  <2> QED BY <2>2, FS_Subset
<1> HIDE DEF all
<1>4. \A e \in kept : /\ row(e).name \in STRING /\ row(e).level \in EvidenceLevel \ {"NONE"}
                      /\ Evidenced(row(e), m)
  BY <1>2, AcceptedPages DEF Evidenced
<1>5. \A e \in kept : row(e).name = e.name /\ row(e).level = e.level
  OBVIOUS
<1> HIDE DEF row
<1>6. IsFiniteSet({row(e) : e \in kept})
  <2> DEFINE f == [e \in kept |-> row(e)]
  <2>1. IsFiniteSet({f[e] : e \in kept})
    <3>1. DOMAIN f = kept
      OBVIOUS
    <3> HIDE DEF f
    <3> QED BY <3>1, <1>3, ImageFinite
  <2>2. {f[e] : e \in kept} = {row(e) : e \in kept}
    OBVIOUS
  <2> QED BY <2>1, <2>2
<1>7. {<<e.name, e.level>> : e \in {row(f) : f \in kept}}
        = {q \in {<<e.name, e.level>> : e \in all} : q[1] # None /\ q[2] # "NONE"}
  <2> DEFINE pair(e) == <<e.name, e.level>>
  <2>1. \A e \in kept : pair(row(e)) = pair(e)
    BY <1>5
  <2>2. \A e \in all : pair(e)[1] = e.name /\ pair(e)[2] = e.level /\ e.level # "NONE"
    BY <1>2
  <2> HIDE DEF pair
  <2>3. \A e \in all : e \in kept <=> pair(e)[1] # None /\ pair(e)[2] # "NONE"
    BY <2>2
  <2>4. {pair(e) : e \in {row(f) : f \in kept}} = {pair(e) : e \in kept}
    BY <2>1
  <2>5. {pair(e) : e \in kept} = {q \in {pair(e) : e \in all} : q[1] # None /\ q[2] # "NONE"}
    BY <2>3
  <2> QED BY <2>4, <2>5 DEF pair
<1> QED BY <1>4, <1>6, <1>7 DEF all, row

\* What the editor sends are facts about the document, and those it shows.
LEMMA CorrectionSends ==
    ASSUME NEW draft \in Correction, NEW m, ~CorrectionRefused(draft, m)
    PROVE  Facts(CorrectionInput(draft), m) /\ Match(CorrectionInput(draft), draft)
<1> DEFINE facts == CorrectionInput(draft)
           ps == draft.policies
           limits(p) == [t \in {p.limits[k].type : k \in DOMAIN p.limits} |->
                 ToMinorUnits(p.limits[CHOOSE k \in DOMAIN p.limits : p.limits[k].type = t].text)]
           rows(p) == {[name |-> e.name, level |-> e.level, pages |-> PagesOf(e.pages)]
                 : e \in {f \in Range(p.endorsements) : f.name # None}}
           Kept(Q) == {q \in Q : q[1] # None /\ q[2] # "NONE"}
           pairs(E) == {<<e.name, e.level>> : e \in E}
<1>1. /\ ps \in Seq(PolicyCorrected) /\ IsList(ps)
      /\ \A i \in DOMAIN ps : ps[i] \in PolicyCorrected
  <2>1. ps \in Seq(PolicyCorrected)
    BY DEF Correction
  <2> QED BY <2>1, ListOf
<1>2. /\ DOMAIN facts = DOMAIN ps /\ IsList(facts)
      /\ \A i \in DOMAIN ps : /\ facts[i].cover = ps[i].cover
                              /\ facts[i].limits = limits(ps[i])
                              /\ facts[i].endorsements = rows(ps[i])
  <2>1. facts = [i \in DOMAIN ps |-> [cover |-> ps[i].cover, limits |-> limits(ps[i]),
                                      endorsements |-> rows(ps[i])]]
    BY DEF CorrectionInput
  <2> HIDE DEF facts, rows, limits
  <2>2. DOMAIN facts = DOMAIN ps
    BY <2>1
  <2>3. Len(facts) = Len(ps)
    BY <2>1, <1>1 DEF IsList
  <2> QED BY <2>1, <2>2, <2>3, <1>1 DEF IsList
<1> HIDE DEF facts
<1>3. ASSUME NEW i \in DOMAIN ps
      PROVE  /\ DOMAIN limits(ps[i]) \subseteq LimitType
             /\ \A t \in DOMAIN limits(ps[i]) : limits(ps[i])[t] \in Nat
             /\ Listed(limits(ps[i])) = LimitsShown(ps[i])
  <2>1. /\ \A k \in DOMAIN ps[i].limits : Readable(ps[i].limits[k].text)
        /\ \A k, l \in DOMAIN ps[i].limits : k # l => ps[i].limits[k].type # ps[i].limits[l].type
    BY DEF CorrectionRefused
  <2> QED BY <1>1, <2>1, LimitsCorrected
<1>4. ASSUME NEW i \in DOMAIN ps
      PROVE  /\ IsFiniteSet(rows(ps[i]))
             /\ \A e \in rows(ps[i]) :
                   /\ e.name \in STRING /\ e.level \in EvidenceLevel \ {"NONE"}
                   /\ Evidenced(e, m)
             /\ pairs(rows(ps[i])) = Kept(pairs(Range(ps[i].endorsements)))
  <2>1. \A k \in DOMAIN ps[i].endorsements :
              ps[i].endorsements[k].name # None
                 => ~PagesRefused(ps[i].endorsements[k].pages, ps[i].endorsements[k].level, m)
    BY DEF CorrectionRefused
  <2> QED BY <1>1, <2>1, RowsCorrected
<1> HIDE DEF limits, rows
<1>5. ASSUME NEW i \in DOMAIN facts PROVE Fact(facts[i], m)
  <2>1. ps[i].cover \in CoverageType
    BY <1>1, <1>2 DEF PolicyCorrected
  <2> QED BY <1>2, <1>3, <1>4, <2>1 DEF Fact
<1>6. ASSUME NEW i \in DOMAIN facts PROVE Listed(facts[i].limits) = LimitsShown(ps[i])
  BY <1>2, <1>3
<1>7. Named(facts) = Kept(EndorsementsShown(draft))
  <2>1. EndorsementsShown(draft) = UNION {pairs(Range(ps[i].endorsements)) : i \in DOMAIN ps}
    <3>1. \A i \in DOMAIN ps : "endorsements" \in DOMAIN ps[i]
      BY <1>1 DEF PolicyCorrected
    <3>2. "endorsements" \notin DOMAIN draft
      BY DEF Correction
    <3> QED BY <3>1, <3>2 DEF EndorsementsShown
  <2>2. Named(facts) = UNION {pairs(rows(ps[i])) : i \in DOMAIN ps}
    <3>1. Named(facts) = pairs(UNION {facts[i].endorsements : i \in DOMAIN facts})
      BY DEF Named
    <3>2. UNION {facts[i].endorsements : i \in DOMAIN facts} = UNION {rows(ps[i]) : i \in DOMAIN ps}
      BY <1>2
    <3>3. pairs(UNION {rows(ps[i]) : i \in DOMAIN ps}) = UNION {pairs(rows(ps[i])) : i \in DOMAIN ps}
      OBVIOUS
    <3> QED BY <3>1, <3>2, <3>3
  <2>3. UNION {pairs(rows(ps[i])) : i \in DOMAIN ps}
          = UNION {Kept(pairs(Range(ps[i].endorsements))) : i \in DOMAIN ps}
    BY <1>4
  <2> HIDE DEF pairs
  <2> QED BY <2>1, <2>2, <2>3
<1>8. Facts(facts, m)
  BY <1>2, <1>5 DEF Facts
<1>9. Match(facts, draft)
  BY <1>2, <1>6, <1>7 DEF Match
<1> QED BY <1>8, <1>9 DEF facts

-----------------------------------------------------------------------------
(* The invariant.                                                          *)

TaskFields == {"n", "file", "left", "aborted"}
PageFields == {"of", "status", "waits", "rejectable", "draft"}
CertFields == {"sub", "facts", "of", "status"}

CountFits == count \in [tabs : Nat, chosen : Nat, edits : Nat, fixes : Nat, sends : Nat, asks : Nat]

\* The draft on the screen is one of the file on the screen, read to its last page, and
\* the tick beside it was put there for that file.
DraftFits(f) ==
    /\ f \in Form
    /\ f.draft # None =>
          /\ Filled(f.draft) /\ f.draft.from = f.file /\ f.file \in Files
          /\ f.extraction = [of |-> f.file, pageCount |-> PageCount[f.file]]
    /\ f.reviewConfirmed => f.draft # None /\ f.ticked = f.file

\* One extraction at most runs, for the file on the screen and under its signal.
TasksFit(f, ts) ==
    /\ \A t, u \in ts : t = u
    /\ \A t \in ts : t.n = f.abort /\ t.file = f.file /\ t.file \in Files /\ DOMAIN t = TaskFields
    /\ f.progress <=> ts # {}
    /\ ts # {} => f.draft = None

FormFits ==
    /\ form = None => task = {}
    /\ form # None => /\ DraftFits(form) /\ TasksFit(form, task)
                      /\ form.waits # 0 => \E s \in sent : s.n = form.waits

SubmissionFits(s) ==
    /\ s.file \in Files /\ s.text = s.file /\ s.draft.from = s.file
    /\ Facts(s.policies, PageCount[s.file]) /\ Match(s.policies, s.draft)
    /\ s.mode = "staff" <=> s.reviewStatus = "CONFIRMED"
    /\ s.reviewStatus = "CONFIRMED" => s.ticked = s.file

\* The facts are those of the screen that was last accepted.
CertFits(c) ==
    /\ DOMAIN c = CertFields /\ SubmissionFits(c.sub)
    /\ Facts(c.facts, PageCount[c.sub.file]) /\ Match(c.facts, Last(c.of))
    /\ Len(c.of) = IF c.status = "draft" \/ c.sub.mode = "staff" THEN 1 ELSE 2
    /\ c.status = "draft" => c.of = <<c.of[1]>> /\ c.sub.mode # "staff"

PageFits(p, cs) ==
    p # None => /\ DOMAIN p = PageFields /\ p.of \in DOMAIN cs
                /\ p.status = "draft" => p.draft \in Correction

AskedFits(q, cs) ==
    /\ q.by \in Reviewers /\ q.of \in DOMAIN cs
    /\ q.kind = "confirmation" =>
          Facts(q.facts, PageCount[cs[q.of].sub.file]) /\ Match(q.facts, q.draft)

SentFit  == \A s \in sent : SubmissionFits(s)
CertsFit == certs \in Seq(Range(certs)) /\ \A c \in DOMAIN certs : CertFits(certs[c])
PagesFit == DOMAIN page = Reviewers /\ \A r \in Reviewers : PageFits(page[r], certs)
AsksFit  == \A q \in asked : AskedFits(q, certs)

Inv == CountFits /\ FormFits /\ SentFit /\ CertsFit /\ PagesFit /\ AsksFit

-----------------------------------------------------------------------------
(* The form.                                                               *)

\* What is absent is told from a form, a draft, a file and an endorsement.
LEMMA NoneIsNoForm ==
    None \notin Form /\ None \notin CertificateDraft /\ None \notin Files /\ None \notin Common
BY IntakeAssumption

\* What the views show.
LEMMA Views ==
    ASSUME Inv, Shown
    PROVE  /\ StartView => form.draft = None /\ task = {}
           /\ ReviewView => /\ form.draft # None /\ Filled(form.draft) /\ form.draft.from = form.file
                            /\ form.file \in Files /\ task = {}
                            /\ form.extraction = [of |-> form.file, pageCount |-> PageCount[form.file]]
<1>1. form # None /\ DraftFits(form) /\ TasksFit(form, task)
  BY DEF Shown, Inv, FormFits
<1>2. StartView => form.draft = None /\ task = {}
  <2>1. form.file = None => form.draft = None /\ task = {}
    BY <1>1, IntakeAssumption DEF DraftFits, TasksFit
  <2>2. ~form.progress => task = {}
    BY <1>1 DEF TasksFit
  <2> QED BY <2>1, <2>2 DEF StartView
<1>3. ReviewView => form.draft # None /\ task = {}
  BY <1>1 DEF ReviewView, ProgressView, StartView, TasksFit
<1> QED BY <1>1, <1>2, <1>3 DEF DraftFits

\* A new form is empty.
LEMMA OpenKeeps == ASSUME Inv, NEW mode \in {"staff", "vendor"}, Open(mode) PROVE FormFits'
<1>1. form' = FreshForm(mode) /\ task' = {} /\ sent' = sent
  BY DEF Open, Inv, FormFits
<1>2. FreshForm(mode) \in Form
  BY DEF FreshForm, Form
<1>3. DraftFits(FreshForm(mode)) /\ TasksFit(FreshForm(mode), {}) /\ FreshForm(mode).waits = 0
  BY <1>2 DEF FreshForm, DraftFits, TasksFit
<1>4. FreshForm(mode) # None
  BY <1>2, IntakeAssumption
<1> QED BY <1>1, <1>3, <1>4, NoneIsNoForm DEF FormFits

\* A chosen file starts the one extraction, since none runs in the view that offers the choice.
LEMMA ChooseFileKeeps == ASSUME Inv, NEW d \in Files, ChooseFile(d) PROVE FormFits'
<1> DEFINE t == [n |-> count.chosen + 1, file |-> d, left |-> Work(d) + 1, aborted |-> FALSE]
           f == Begun(form, d)
<1>1. /\ form # None /\ form \in Form /\ form.draft = None /\ task = {} /\ DraftFits(form)
      /\ form.waits # 0 => \E s \in sent : s.n = form.waits
  BY Views DEF ChooseFile, StartView, Shown, Inv, FormFits, DraftFits
<1>2. form' = f /\ task' = {t} /\ sent' = sent
  BY <1>1 DEF ChooseFile
<1>3. count.chosen + 1 \in Nat
  BY DEF Inv, CountFits
<1>4. /\ f \in Form /\ f.draft = None /\ f.file = d /\ f.progress = TRUE
      /\ f.abort = count.chosen + 1 /\ f.reviewConfirmed = form.reviewConfirmed
      /\ f.waits = form.waits
  BY <1>1, <1>3 DEF Begun, Form
<1>5. t.n = count.chosen + 1 /\ t.file = d /\ DOMAIN t = TaskFields
  BY DEF TaskFields
<1> HIDE DEF t, f
<1>6. DraftFits(f)
  BY <1>1, <1>4 DEF DraftFits
<1>7. TasksFit(f, {t})
  BY <1>4, <1>5 DEF TasksFit
<1> QED BY <1>1, <1>2, <1>4, <1>6, <1>7, NoneIsNoForm DEF FormFits

\* A page that is read belongs to the file on the screen.
LEMMA ReadOnKeeps == ASSUME Inv, NEW t \in task, ReadOn(t) PROVE FormFits'
<1> DEFINE u == [t EXCEPT !.left = @ - 1]
           f == [form EXCEPT !.progress = TRUE]
<1>1. /\ form # None /\ DraftFits(form) /\ TasksFit(form, task) /\ form \in Form
      /\ form.waits # 0 => \E s \in sent : s.n = form.waits
  BY DEF Inv, FormFits, DraftFits
<1>2. task = {t} /\ DOMAIN t = TaskFields /\ t.n = form.abort /\ t.file = form.file /\ t.file \in Files
  BY <1>1 DEF TasksFit
<1>3. form' = f /\ task' = {u} /\ sent' = sent
  BY <1>1, <1>2 DEF ReadOn, Shown
<1>4. DOMAIN u = TaskFields /\ u.n = t.n /\ u.file = t.file
  BY <1>2 DEF TaskFields
<1>5. /\ f \in Form /\ f.draft = form.draft /\ f.file = form.file /\ f.extraction = form.extraction
      /\ f.progress = TRUE /\ f.abort = form.abort /\ f.reviewConfirmed = form.reviewConfirmed
      /\ f.ticked = form.ticked /\ f.waits = form.waits
  BY <1>1 DEF Form
<1> HIDE DEF u, f
<1>6. DraftFits(f)
  BY <1>1, <1>5 DEF DraftFits
<1>7. TasksFit(f, {u})
  BY <1>1, <1>2, <1>4, <1>5 DEF TasksFit
<1> QED BY <1>1, <1>3, <1>5, <1>6, <1>7, NoneIsNoForm DEF FormFits

\* However an extraction ends.
LEMMA ExtractionEndsKeeps ==
    ASSUME Inv, NEW t \in task, NEW result, ExtractionEnds(t, result),
           result = None \/ result = [of |-> t.file, pageCount |-> PageCount[t.file]]
    PROVE  FormFits'
<1> DEFINE f == Settled(form, t, result)
<1>1. /\ form # None /\ DraftFits(form) /\ TasksFit(form, task) /\ form \in Form
      /\ form.waits # 0 => \E s \in sent : s.n = form.waits
  BY DEF Inv, FormFits, DraftFits
<1>2. task = {t} /\ t.file = form.file /\ t.file \in Files
  BY <1>1 DEF TasksFit
<1>3. form' = f /\ task' = {} /\ sent' = sent
  BY <1>1, <1>2 DEF ExtractionEnds, Shown
<1>4. DraftFits(f) /\ f.progress = FALSE /\ f.waits = form.waits
  <2>1. CASE result = None
    <3>1. f = [form EXCEPT !.abort = None, !.progress = FALSE]
      BY <2>1 DEF Settled
    <3>2. /\ f \in Form /\ f.draft = form.draft /\ f.file = form.file
          /\ f.extraction = form.extraction /\ f.reviewConfirmed = form.reviewConfirmed
          /\ f.ticked = form.ticked /\ f.progress = FALSE /\ f.waits = form.waits
      BY <1>1, <3>1 DEF Form
    <3> HIDE DEF f
    <3> QED BY <1>1, <3>2 DEF DraftFits
  <2>2. CASE result # None
    <3> DEFINE d == DraftFromExtraction(result.of)
    <3>1. result = [of |-> form.file, pageCount |-> PageCount[form.file]] /\ form.file \in Files
          /\ result.of = form.file /\ PageCount[form.file] \in Nat
      BY <1>2, <2>2, IntakeAssumption
    <3>2. Filled(d) /\ d.from = form.file
      BY <3>1, ExtractionDrafted
    <3>3. f = [form EXCEPT !.extraction = result, !.draft = d, !.abort = None, !.progress = FALSE]
      BY <2>2 DEF Settled
    <3> HIDE DEF d, f
    <3>4. result \in [of : Files, pageCount : Nat] /\ d \in CertificateDraft
      BY <3>1, <3>2 DEF Filled
    <3>5. /\ f \in Form /\ f.draft = d /\ f.file = form.file
          /\ f.extraction = result /\ f.reviewConfirmed = form.reviewConfirmed
          /\ f.ticked = form.ticked /\ f.progress = FALSE /\ f.waits = form.waits
      BY <1>1, <3>3, <3>4 DEF Form
    <3>6. f.reviewConfirmed => f.draft # None /\ f.ticked = f.file
      BY <1>1, <3>5 DEF DraftFits, TasksFit
    <3> QED BY <1>1, <3>1, <3>2, <3>5, <3>6 DEF DraftFits
  <2> QED BY <2>1, <2>2
<1> HIDE DEF f
<1>5. TasksFit(f, {})
  BY <1>4 DEF TasksFit
<1> QED BY <1>1, <1>3, <1>4, <1>5, NoneIsNoForm DEF FormFits

\* Cancel reaches the extraction that runs.
LEMMA CancelKeeps == ASSUME Inv, Cancel PROVE FormFits'
<1> DEFINE u(t) == IF t.n = form.abort THEN [t EXCEPT !.aborted = TRUE] ELSE t
<1>1. /\ form # None /\ DraftFits(form) /\ TasksFit(form, task) /\ form' = form /\ sent' = sent
      /\ form.waits # 0 => \E s \in sent : s.n = form.waits
  BY DEF Inv, FormFits, Cancel, ProgressView, Shown
<1>2. task' = {u(t) : t \in task}
  BY DEF Cancel
<1>3. \A t \in task : u(t).n = t.n /\ u(t).file = t.file /\ DOMAIN u(t) = TaskFields
  BY <1>1 DEF TasksFit, TaskFields
<1> HIDE DEF u
<1>4. TasksFit(form, task')
  BY <1>1, <1>2, <1>3 DEF TasksFit
<1> QED BY <1>1, <1>4, NoneIsNoForm DEF FormFits

\* An edit leaves a draft of the same file.
LEMMA EditKeeps == ASSUME Inv, Edit PROVE FormFits'
<1>1. /\ form # None /\ form \in Form /\ DraftFits(form) /\ TasksFit(form, task)
      /\ form.waits # 0 => \E s \in sent : s.n = form.waits
      /\ Shown /\ ReviewView /\ sent' = sent /\ task' = task
  BY DEF Edit, ReviewView, Shown, Inv, FormFits, DraftFits
<1>2. PICK d \in Edits(form.draft, form.mode) : form' = [form EXCEPT !.draft = d]
  BY DEF Edit
<1>3. Filled(form.draft) /\ form.draft.from = form.file /\ task = {} /\ form.draft # None
  BY <1>1, Views
<1>4. Filled(d) /\ d.from = form.file
  BY <1>3, EditsFilled
<1>5. /\ form' \in Form /\ form'.draft = d /\ form'.file = form.file
      /\ form'.extraction = form.extraction /\ form'.reviewConfirmed = form.reviewConfirmed
      /\ form'.ticked = form.ticked /\ form'.progress = form.progress /\ form'.waits = form.waits
      /\ form'.abort = form.abort
  BY <1>1, <1>2, <1>4 DEF Form, Filled
<1>6. d # None
  BY <1>4, NoneIsNoForm DEF Filled
<1>7. DraftFits(form')
  BY <1>1, <1>3, <1>4, <1>5, <1>6 DEF DraftFits
<1>8. TasksFit(form', task')
  BY <1>1, <1>3, <1>5 DEF TasksFit
<1> QED BY <1>1, <1>5, <1>7, <1>8, NoneIsNoForm DEF FormFits

\* A tick is put for the file on the screen.
LEMMA TickReviewedKeeps == ASSUME Inv, TickReviewed PROVE FormFits'
<1>1. /\ form # None /\ form \in Form /\ DraftFits(form) /\ TasksFit(form, task)
      /\ form.waits # 0 => \E s \in sent : s.n = form.waits
      /\ Shown /\ ReviewView /\ sent' = sent /\ task' = task
  BY DEF TickReviewed, ReviewView, Shown, Inv, FormFits, DraftFits
<1>2. form.draft # None /\ form.file \in Files
  BY <1>1, Views
<1> DEFINE ticked == IF form.reviewConfirmed THEN None ELSE form.file
           confirmed == ~form.reviewConfirmed
<1>3. form' = [form EXCEPT !.reviewConfirmed = confirmed, !.ticked = ticked]
  BY DEF TickReviewed
<1>4. confirmed \in BOOLEAN /\ ticked \in Files \cup {None} /\ (confirmed => ticked = form.file)
  BY <1>2
<1> HIDE DEF confirmed, ticked
<1>5. /\ form' \in Form /\ form'.draft = form.draft /\ form'.file = form.file
      /\ form'.extraction = form.extraction /\ form'.reviewConfirmed = confirmed
      /\ form'.ticked = ticked /\ form'.progress = form.progress /\ form'.waits = form.waits
      /\ form'.abort = form.abort
  BY <1>1, <1>3, <1>4 DEF Form
<1>6. DraftFits(form')
  BY <1>1, <1>2, <1>4, <1>5 DEF DraftFits
<1>7. TasksFit(form', task')
  BY <1>1, <1>5 DEF TasksFit
<1> QED BY <1>1, <1>5, <1>6, <1>7, NoneIsNoForm DEF FormFits

\* A document that is replaced takes draft and tick with it.
LEMMA ReplaceKeeps == ASSUME Inv, Replace PROVE FormFits'
<1>1. /\ form # None /\ form \in Form /\ TasksFit(form, task)
      /\ form.waits # 0 => \E s \in sent : s.n = form.waits
      /\ Shown /\ ReviewView /\ sent' = sent /\ task' = task
  BY DEF Replace, ReviewView, Shown, Inv, FormFits, DraftFits
<1>2. task = {}
  BY <1>1, Views
<1>3. form' = [form EXCEPT !.file = None, !.draft = None, !.extraction = None,
                           !.reviewConfirmed = FALSE, !.ticked = None]
  BY DEF Replace, Replaced
<1>4. /\ form' \in Form /\ form'.draft = None /\ form'.reviewConfirmed = FALSE
      /\ form'.progress = form.progress /\ form'.waits = form.waits
  BY <1>1, <1>3 DEF Form
<1>5. DraftFits(form') /\ TasksFit(form', task')
  BY <1>1, <1>2, <1>4 DEF DraftFits, TasksFit
<1> QED BY <1>1, <1>4, <1>5, NoneIsNoForm DEF FormFits

\* A form that waits for another answer, or no longer, is otherwise as it was.
LEMMA OtherWait ==
    ASSUME NEW f, DraftFits(f), TasksFit(f, task), NEW n \in Nat
    PROVE  /\ DraftFits([f EXCEPT !.waits = n]) /\ TasksFit([f EXCEPT !.waits = n], task)
           /\ [f EXCEPT !.waits = n].waits = n
<1> DEFINE g == [f EXCEPT !.waits = n]
<1>1. /\ g \in Form /\ g.draft = f.draft /\ g.file = f.file /\ g.extraction = f.extraction
      /\ g.reviewConfirmed = f.reviewConfirmed /\ g.ticked = f.ticked /\ g.progress = f.progress
      /\ g.waits = n /\ g.abort = f.abort
  BY DEF DraftFits, Form
<1> HIDE DEF g
<1>2. DraftFits(g) /\ TasksFit(g, task)
  BY <1>1 DEF DraftFits, TasksFit
<1> QED BY <1>1, <1>2 DEF g

\* A submission that is sent is what the form waits for.
LEMMA SubmitKeeps == ASSUME Inv, Submit PROVE FormFits'
<1>1. /\ form # None /\ DraftFits(form) /\ TasksFit(form, task) /\ task' = task
  BY DEF Submit, ReviewView, Shown, Inv, FormFits
<1>2. form' = [form EXCEPT !.waits = count.sends + 1] /\ sent' = sent \cup {Submission(form)}
  BY DEF Submit
<1>3. count.sends + 1 \in Nat /\ Submission(form).n = count.sends + 1
  BY DEF Inv, CountFits, Submission
<1>4. DraftFits(form') /\ TasksFit(form', task) /\ form'.waits = count.sends + 1
  BY <1>1, <1>2, <1>3, OtherWait
<1>5. form # None => form' # None
  BY <1>4, IntakeAssumption DEF DraftFits
<1> QED BY <1>1, <1>2, <1>3, <1>4, <1>5, NoneIsNoForm DEF FormFits

\* What becomes of the form when a submission is answered or lost, or given up.
LEMMA AnswerKeeps ==
    ASSUME Inv, NEW s \in sent, sent' = sent \ {s},
           \/ /\ \/ form' = Answered(s)
                 \/ Waiting(s) /\ form' = [form EXCEPT !.waits = 0]
              /\ task' = IF Shown /\ form' = None THEN {} ELSE task
           \/ /\ form' = IF Waiting(s) THEN [form EXCEPT !.waits = 0] ELSE form
              /\ task' = task
    PROVE  FormFits'
<1>1. CASE ~Shown
  BY <1>1 DEF Shown, Waiting, Answered, Inv, FormFits
<1>2. CASE Shown
  <2>1. /\ form # None /\ form \in Form /\ DraftFits(form) /\ TasksFit(form, task)
        /\ form.waits # 0 => \E r \in sent : r.n = form.waits
    BY <1>2 DEF Shown, Inv, FormFits, DraftFits
  <2>2. CASE ~Waiting(s)
    <3>1. form' = form /\ task' = task
      BY <1>2, <2>1, <2>2 DEF Answered
    <3>2. form.waits # s.n
      BY <1>2, <2>2 DEF Waiting
    <3> QED BY <2>1, <3>1, <3>2 DEF FormFits
  <2>3. CASE form' = [form EXCEPT !.waits = 0]
    <3>1. DraftFits(form') /\ TasksFit(form', task) /\ form'.waits = 0
      BY <2>1, <2>3, OtherWait
    <3>2. form' # None /\ task' = task
      BY <3>1, IntakeAssumption DEF DraftFits
    <3> QED BY <3>1, <3>2 DEF FormFits
  <2>4. CASE form' = [form EXCEPT !.success = TRUE, !.waits = 0]
    <3>1. /\ form' \in Form /\ form'.draft = form.draft /\ form'.file = form.file
          /\ form'.extraction = form.extraction /\ form'.reviewConfirmed = form.reviewConfirmed
          /\ form'.ticked = form.ticked /\ form'.progress = form.progress /\ form'.waits = 0
          /\ form'.abort = form.abort
      BY <2>1, <2>4 DEF Form
    <3>2. DraftFits(form') /\ TasksFit(form', task)
      BY <2>1, <3>1 DEF DraftFits, TasksFit
    <3>3. form' # None /\ task' = task
      BY <3>1, IntakeAssumption
    <3> QED BY <3>1, <3>2, <3>3 DEF FormFits
  <2>5. CASE form' = None /\ task' = {}
    BY <2>5 DEF FormFits
  <2>6. CASE form' = None /\ task' = task /\ Waiting(s)
    <3>1. [form EXCEPT !.waits = 0] \in Form
      BY <2>1 DEF Form
    <3>2. [form EXCEPT !.waits = 0] # None
      BY <3>1, IntakeAssumption
    <3> QED BY <1>2, <2>5, <2>6, <3>2 DEF Answered
  <2> QED BY <1>2, <2>2, <2>3, <2>4, <2>5, <2>6 DEF Answered
<1> QED BY <1>1, <1>2

\* Without an answer the form waits no more.
LEMMA ConnectionLostKeeps == ASSUME Inv, ConnectionLost PROVE FormFits'
<1>1. /\ form # None /\ DraftFits(form) /\ TasksFit(form, task) /\ task' = task
      /\ form' = [form EXCEPT !.waits = 0]
  BY DEF ConnectionLost, Shown, Inv, FormFits
<1>2. DraftFits(form') /\ TasksFit(form', task) /\ form'.waits = 0
  BY <1>1, OtherWait
<1>3. form' # None
  BY <1>2, IntakeAssumption DEF DraftFits
<1> QED BY <1>1, <1>2, <1>3, NoneIsNoForm DEF FormFits

\* Every step that touches the form.
LEMMA FormStep == ASSUME Inv, [Next]_vars PROVE FormFits'
<1> DEFINE Kept == form' = form /\ task' = task /\ sent' = sent
<1>1. CASE Kept
  BY <1>1 DEF Inv, FormFits, DraftFits, TasksFit, Form, CertificateDraft, PolicyDraft, Filled
<1>2. ASSUME NEW t \in task, ExtractionDone(t) PROVE FormFits'
  BY <1>2, ExtractionEndsKeeps DEF ExtractionDone
<1>3. ASSUME NEW t \in task, ExtractionCancelled(t) \/ ExtractionFails(t) PROVE FormFits'
  BY <1>3, ExtractionEndsKeeps DEF ExtractionCancelled, ExtractionFails
<1>4. ASSUME NEW s \in sent, Store(s) \/ Refused(s) PROVE FormFits'
  BY <1>4, AnswerKeeps DEF Store, Refused
<1>5. CASE Leave
  BY <1>5 DEF Leave, FormFits
<1>6. ASSUME NEW r \in Reviewers, NEW c \in DOMAIN certs, LoadPage(r, c) PROVE Kept
  BY <1>6 DEF LoadPage
<1>7. ASSUME NEW r \in Reviewers,
             Correct(r) \/ ConfirmExtraction(r) \/ RejectSubmission(r) \/ ClosePage(r)
      PROVE  Kept
  BY <1>7 DEF Correct, ConfirmExtraction, RejectSubmission, ClosePage, Ask
<1>8. ASSUME NEW q \in asked, Decide(q) \/ TurnedAway(q) PROVE Kept
  BY <1>8 DEF Decide, TurnedAway
<1>9. CASE UNCHANGED vars
  BY <1>9, <1>1 DEF vars
<1> HIDE DEF Kept
<1> QED BY <1>1, <1>2, <1>3, <1>4, <1>5, <1>6, <1>7, <1>8, <1>9, OpenKeeps, ChooseFileKeeps,
           ReadOnKeeps, CancelKeeps, EditKeeps, TickReviewedKeeps, ReplaceKeeps, SubmitKeeps,
           ConnectionLostKeeps DEF Next

-----------------------------------------------------------------------------
(* The submissions on their way.                                           *)

\* What is sent is the facts of the draft on the screen, for its file.
LEMMA SubmitSends == ASSUME Inv, Submit PROVE SentFit'
<1> DEFINE s == Submission(form)
           facts == PoliciesOf(form.draft)
           m == PageCount[form.file]
<1>1. /\ Shown /\ ReviewView /\ DraftFits(form) /\ form \in Form
      /\ Complete(form.draft, form.extraction.pageCount)
      /\ form.mode = "staff" => form.reviewConfirmed
      /\ sent' = sent \cup {s}
  BY DEF Submit, ReviewView, Shown, Inv, FormFits, DraftFits
<1>2. /\ form.draft # None /\ Filled(form.draft) /\ form.draft.from = form.file
      /\ form.file \in Files /\ form.extraction.of = form.file /\ form.extraction.pageCount = m
  BY <1>1, Views
<1>3. Facts(facts, m) /\ Match(facts, form.draft)
  BY <1>1, <1>2, FormSends
<1>4. form.mode = "staff" => form.ticked = form.file
  BY <1>1 DEF DraftFits
<1>5. /\ s.mode = form.mode /\ s.file = form.file /\ s.text = form.extraction.of
      /\ s.reviewStatus = (IF form.mode = "staff" THEN "CONFIRMED" ELSE "UNCONFIRMED")
      /\ s.policies = facts /\ s.draft = form.draft /\ s.ticked = form.ticked
  BY DEF Submission
<1> HIDE DEF s, facts, m
<1>6. SubmissionFits(s)
  BY <1>2, <1>3, <1>4, <1>5 DEF SubmissionFits, m
<1> QED BY <1>1, <1>6 DEF SentFit, Inv

\* Every step keeps what is true of the submissions on their way.
LEMMA SentStep == ASSUME Inv, [Next]_vars PROVE SentFit'
<1>1. CASE sent' \subseteq sent
  BY <1>1 DEF Inv, SentFit
<1>2. Submit \/ sent' \subseteq sent
  BY DEF Next, Open, ChooseFile, ReadOn, ExtractionDone, ExtractionCancelled, ExtractionFails,
         ExtractionEnds, Cancel, Edit, TickReviewed, Replace, Leave, ConnectionLost, Store,
         Refused, LoadPage, Correct, ConfirmExtraction, RejectSubmission, Ask, ClosePage,
         Decide, TurnedAway, vars
<1> QED BY <1>1, <1>2, SubmitSends

-----------------------------------------------------------------------------
(* The stored certificates, and who looks at them.                         *)

\* No certificate is lost, and each keeps the submission it came with.
Kept(cs, ds) == DOMAIN cs \subseteq DOMAIN ds /\ \A c \in DOMAIN cs : ds[c].sub = cs[c].sub

\* Pages and decisions stay true of certificates that keep their submission.
LEMMA StillLooked ==
    ASSUME NEW cs, NEW ds, Kept(cs, ds)
    PROVE  /\ \A p : PageFits(p, cs) => PageFits(p, ds)
           /\ \A q : AskedFits(q, cs) => AskedFits(q, ds)
BY DEF Kept, PageFits, AskedFits

\* A history of one screen.
LEMMA HistoryOf == ASSUME NEW x PROVE Len(<<x>>) = 1 /\ Last(<<x>>) = x /\ <<x>>[1] = x
BY DEF Last

\* What is stored is what was sent, and nobody else's certificate changes.
LEMMA StoreKeeps == ASSUME Inv, NEW s \in sent, Store(s) PROVE CertsFit' /\ Kept(certs, certs')
<1> DEFINE c == [sub |-> s, facts |-> s.policies, of |-> <<s.draft>>,
                 status |-> IF s.reviewStatus = "CONFIRMED" THEN "confirmed" ELSE "draft"]
<1>1. SubmissionFits(s) /\ CertsFit
  BY DEF Inv, SentFit
<1>2. certs' = Append(certs, c)
  BY DEF Store
<1>3. /\ c.sub = s /\ c.facts = s.policies /\ c.of = <<s.draft>> /\ DOMAIN c = CertFields
      /\ c.status = (IF s.reviewStatus = "CONFIRMED" THEN "confirmed" ELSE "draft")
  BY DEF CertFields
<1> HIDE DEF c
<1>4. Len(c.of) = 1 /\ Last(c.of) = s.draft /\ c.of = <<c.of[1]>>
  BY <1>3, HistoryOf
<1>5. CertFits(c)
  BY <1>1, <1>3, <1>4 DEF CertFits, SubmissionFits
<1> DEFINE S == Range(certs) \cup {c}
<1>6. certs \in Seq(S) /\ c \in S /\ Len(certs) \in Nat /\ DOMAIN certs = 1..Len(certs)
  BY <1>1, SeqMonotonic, LenProperties DEF CertsFit
<1> HIDE DEF S
<1>7. /\ certs' \in Seq(S) /\ Len(certs') = Len(certs) + 1
      /\ \A n \in 1..Len(certs) : certs'[n] = certs[n]
      /\ certs'[Len(certs) + 1] = c
  BY <1>2, <1>6, AppendProperties
<1>8. DOMAIN certs' = 1..(Len(certs) + 1)
  BY <1>7, LenProperties
<1>9. certs' \in Seq(Range(certs'))
  BY <1>7, ListsItsRange
<1>10. \A n \in DOMAIN certs' : n \in DOMAIN certs \/ certs'[n] = c
  BY <1>6, <1>7, <1>8
<1>11. \A n \in DOMAIN certs' : CertFits(certs'[n])
  BY <1>1, <1>5, <1>6, <1>7, <1>10 DEF CertsFit
<1> QED BY <1>6, <1>7, <1>8, <1>9, <1>11 DEF CertsFit, Kept

\* A decision that is accepted stores the facts of its screen, a rejection none.
LEMMA DecideKeeps == ASSUME Inv, NEW q \in asked, Decide(q) PROVE CertsFit' /\ Kept(certs, certs')
<1> DEFINE c == certs[q.of]
           d == Decided(c, q)
<1>1. q.of \in DOMAIN certs /\ AskedFits(q, certs) /\ CertsFit /\ CertFits(c)
  BY DEF Inv, AsksFit, AskedFits, CertsFit
<1>2. certs' = [certs EXCEPT ![q.of] = d] /\ c.status = "draft"
  BY DEF Decide, Undecided
<1>3. /\ DOMAIN c = CertFields /\ c.of = <<c.of[1]>> /\ c.sub.mode # "staff"
      /\ SubmissionFits(c.sub) /\ Facts(c.facts, PageCount[c.sub.file])
      /\ Match(c.facts, c.of[1]) /\ Last(c.of) = c.of[1]
  BY <1>1, <1>2, HistoryOf DEF CertFits
<1>4. ASSUME NEW x PROVE Len(Append(c.of, x)) = 2 /\ Last(Append(c.of, x)) = x
  <2> DEFINE a == c.of[1]
  <2>1. c.of = <<a>>
    BY <1>3
  <2> HIDE DEF a
  <2>2. <<a>> \in Seq({a, x}) /\ Len(<<a>>) = 1
    OBVIOUS
  <2>3. Len(Append(<<a>>, x)) = 2 /\ Append(<<a>>, x)[2] = x
    BY <2>2, AppendProperties
  <2> QED BY <2>1, <2>3 DEF Last
<1>5. CertFits(d) /\ d.sub = c.sub
  <2>1. CASE q.kind = "confirmation"
    <3>1. d = [c EXCEPT !.status = "confirmed", !.facts = q.facts, !.of = Append(c.of, q.draft)]
      BY <2>1 DEF Decided
    <3>2. Facts(q.facts, PageCount[c.sub.file]) /\ Match(q.facts, q.draft)
      BY <1>1, <2>1 DEF AskedFits
    <3> HIDE DEF c, d
    <3>3. /\ DOMAIN d = CertFields /\ d.status = "confirmed" /\ d.facts = q.facts
          /\ d.of = Append(c.of, q.draft) /\ d.sub = c.sub
      BY <1>3, <3>1 DEF CertFields
    <3> QED BY <1>3, <1>4, <3>2, <3>3 DEF CertFits
  <2>2. CASE q.kind # "confirmation"
    <3>1. d = [c EXCEPT !.status = "rejected", !.of = Append(c.of, c.of[1])]
      BY <1>3, <2>2 DEF Decided
    <3> HIDE DEF c, d
    <3>2. /\ DOMAIN d = CertFields /\ d.status = "rejected" /\ d.facts = c.facts
          /\ d.of = Append(c.of, c.of[1]) /\ d.sub = c.sub
      BY <1>3, <3>1 DEF CertFields
    <3> QED BY <1>3, <1>4, <3>2 DEF CertFits
  <2> QED BY <2>1, <2>2
<1> HIDE DEF d
<1>6. /\ DOMAIN certs' = DOMAIN certs /\ certs'[q.of] = d
      /\ \A n \in DOMAIN certs : n # q.of => certs'[n] = certs[n]
  BY <1>1, <1>2
<1>7. certs' \in Seq(Range(certs'))
  <2> DEFINE S == Range(certs) \cup {d}
  <2>1. certs \in Seq(S) /\ d \in S
    BY <1>1, SeqMonotonic DEF CertsFit
  <2> HIDE DEF S
  <2>2. [certs EXCEPT ![q.of] = d] \in Seq(S)
    BY <1>1, <2>1, ChangeKeeps
  <2> QED BY <1>2, <2>2, ListsItsRange
<1>8. \A n \in DOMAIN certs' : CertFits(certs'[n])
  BY <1>1, <1>5, <1>6 DEF CertsFit
<1>9. Kept(certs, certs')
  BY <1>5, <1>6 DEF Kept
<1> QED BY <1>7, <1>8, <1>9 DEF CertsFit

\* Every step keeps what is true of the stored certificates.
LEMMA CertsStep == ASSUME Inv, [Next]_vars PROVE CertsFit' /\ Kept(certs, certs')
<1>1. CASE certs' = certs
  <2>1. CertsFit'
    BY <1>1 DEF Inv, CertsFit
  <2>2. Kept(certs, certs)
    BY DEF Kept
  <2> QED BY <1>1, <2>1, <2>2
<1>2. ASSUME NEW q \in asked, Decide(q) PROVE CertsFit' /\ Kept(certs, certs')
  BY <1>2, DecideKeeps
<1>3. ASSUME NEW s \in sent, Store(s) PROVE CertsFit' /\ Kept(certs, certs')
  BY <1>3, StoreKeeps
<1>4. certs' = certs \/ (\E q \in asked : Decide(q)) \/ (\E s \in sent : Store(s))
  BY DEF Next, Open, ChooseFile, ReadOn, ExtractionDone, ExtractionCancelled, ExtractionFails,
         ExtractionEnds, Cancel, Edit, TickReviewed, Replace, Submit, Leave, ConnectionLost,
         Refused, LoadPage, Correct, ConfirmExtraction, RejectSubmission, Ask, ClosePage,
         TurnedAway, vars
<1> QED BY <1>1, <1>2, <1>3, <1>4

\* A page is another one, or that of a certificate as the reviewer left it.
LEMMA OtherPage ==
    ASSUME Inv, NEW r \in Reviewers, NEW p, page' = [page EXCEPT ![r] = p], PageFits(p, certs),
           certs' = certs
    PROVE  PagesFit'
BY DEF Inv, PagesFit

\* What is known of a page that shows a certificate.
LEMMA PageKnown ==
    ASSUME Inv, NEW r \in Reviewers, page[r] # None
    PROVE  /\ DOMAIN page[r] = PageFields /\ page[r].of \in DOMAIN certs
           /\ page[r].status = "draft" => page[r].draft \in Correction
           /\ SubmissionFits(certs[page[r].of].sub)
           /\ Facts(certs[page[r].of].facts, PageCount[certs[page[r].of].sub.file])
BY DEF Inv, PagesFit, PageFits, CertsFit, CertFits

\* A page that loads shows the draft of the facts stored then.
LEMMA LoadPageKeeps ==
    ASSUME Inv, NEW r \in Reviewers, NEW c \in DOMAIN certs, LoadPage(r, c) PROVE PagesFit'
<1>1. CertFits(certs[c])
  BY DEF Inv, CertsFit
<1>2. /\ Facts(certs[c].facts, PageCount[certs[c].sub.file])
      /\ PageCount[certs[c].sub.file] \in Nat
  BY <1>1, IntakeAssumption DEF CertFits, SubmissionFits
<1>3. CorrectionDraft(certs[c]) \in Correction
  BY <1>2, CorrectionDrafted
<1>4. PageFits(PageOf(c), certs)
  BY <1>3 DEF PageFits, PageOf, PageFields
<1> QED BY <1>4, OtherPage DEF LoadPage

\* A correction leaves a draft.
LEMMA CorrectKeeps == ASSUME Inv, NEW r \in Reviewers, Correct(r) PROVE PagesFit'
<1>1. /\ page[r] # None /\ page[r].status = "draft" /\ certs' = certs
      /\ \E d \in Corrections(page[r].draft) : page' = [page EXCEPT ![r].draft = d]
  BY DEF Correct, Pending
<1>2. PICK d \in Corrections(page[r].draft) :
         page' = [page EXCEPT ![r] = [page[r] EXCEPT !.draft = d]]
  BY <1>1
<1>3. d \in Correction
  BY <1>1, <1>2, PageKnown, CorrectionsKept
<1> DEFINE p == [page[r] EXCEPT !.draft = d]
<1>4. DOMAIN p = PageFields /\ p.of = page[r].of /\ p.draft = d /\ p.of \in DOMAIN certs
  BY <1>1, PageKnown DEF PageFields
<1>5. page' = [page EXCEPT ![r] = p]
  BY <1>2
<1> HIDE DEF p
<1>6. PageFits(p, certs)
  BY <1>3, <1>4 DEF PageFits
<1> QED BY <1>1, <1>5, <1>6, OtherPage

\* A page that waits for other answers.
LEMMA OtherWaits ==
    ASSUME Inv, NEW r \in Reviewers, page[r] # None, NEW W,
           page' = [page EXCEPT ![r] = [page[r] EXCEPT !.waits = W]], Kept(certs, certs')
    PROVE  PagesFit'
<1> DEFINE p == [page[r] EXCEPT !.waits = W]
<1>1. /\ DOMAIN p = PageFields /\ p.of = page[r].of /\ p.status = page[r].status
      /\ p.draft = page[r].draft
  BY PageKnown DEF PageFields
<1>2. page' = [page EXCEPT ![r] = p]
  OBVIOUS
<1> HIDE DEF p
<1>3. PageFits(p, certs)
  BY <1>1, PageKnown DEF PageFits
<1>4. \A q : PageFits(q, certs) => PageFits(q, certs')
  BY StillLooked
<1> QED BY <1>2, <1>3, <1>4 DEF Inv, PagesFit

\* What a page asks for is the facts of the draft it shows.
LEMMA AskKeeps ==
    ASSUME Inv, NEW r \in Reviewers, ConfirmExtraction(r) \/ RejectSubmission(r)
    PROVE  PagesFit' /\ AsksFit'
<1>1. page[r] # None /\ certs' = certs
  BY DEF ConfirmExtraction, RejectSubmission, Pending, Ask
<1>2. PICK kind, facts, draft :
        /\ Ask(r, kind, facts, draft)
        /\ \/ /\ kind = "confirmation" /\ page[r].status = "draft"
              /\ facts = CorrectionInput(page[r].draft) /\ draft = page[r].draft
              /\ ~CorrectionRefused(page[r].draft, PageCount[certs[page[r].of].sub.file])
           \/ kind = "rejection"
  <2>1. CASE ConfirmExtraction(r)
    BY <2>1 DEF ConfirmExtraction, Pending
  <2>2. CASE RejectSubmission(r)
    BY <2>2 DEF RejectSubmission
  <2> QED BY <2>1, <2>2
<1> DEFINE q == [by |-> r, kind |-> kind, of |-> page[r].of, facts |-> facts, draft |-> draft]
<1>3. /\ page' = [page EXCEPT ![r] = [page[r] EXCEPT !.waits = page[r].waits \cup {kind}]]
      /\ asked' = asked \cup {q}
  BY <1>2 DEF Ask
<1>4. Kept(certs, certs')
  BY <1>1 DEF Kept
<1>5. PagesFit'
  BY <1>1, <1>3, <1>4, OtherWaits
<1>6. /\ q.by = r /\ q.kind = kind /\ q.of = page[r].of /\ q.facts = facts /\ q.draft = draft
  OBVIOUS
<1> HIDE DEF q
<1>7. kind = "confirmation" =>
        /\ Facts(facts, PageCount[certs[page[r].of].sub.file])
        /\ Match(facts, draft)
  BY <1>1, <1>2, PageKnown, CorrectionSends
<1>8. AskedFits(q, certs)
  BY <1>1, <1>6, <1>7, PageKnown DEF AskedFits
<1> QED BY <1>1, <1>3, <1>5, <1>8 DEF Inv, AsksFit

\* A page that is told of a failure keeps what it shows.
LEMMA FailedKeeps ==
    ASSUME Inv, NEW q \in asked, page' = Failed(q), Kept(certs, certs') PROVE PagesFit'
<1>1. CASE Expecting(q)
  <2>1. q.by \in Reviewers /\ page[q.by] # None
    BY <1>1 DEF Expecting, Inv, AsksFit, AskedFits
  <2>2. page' = [page EXCEPT ![q.by] = [page[q.by] EXCEPT !.waits = page[q.by].waits \ {q.kind}]]
    BY <1>1 DEF Failed
  <2> QED BY <2>1, <2>2, OtherWaits
<1>2. CASE ~Expecting(q)
  <2>1. page' = page
    BY <1>2 DEF Failed
  <2> QED BY <2>1, StillLooked DEF Inv, PagesFit
<1> QED BY <1>1, <1>2

\* An answer closes the draft of the page that asked.
LEMMA DecidePages == ASSUME Inv, NEW q \in asked, Decide(q) PROVE PagesFit' /\ AsksFit'
<1>1. Kept(certs, certs') /\ q.of \in DOMAIN certs /\ q.by \in Reviewers
  BY DecideKeeps DEF Inv, AsksFit, AskedFits
<1>2. AsksFit'
  <2>1. asked' \subseteq asked
    BY DEF Decide
  <2> QED BY <1>1, <2>1, StillLooked DEF Inv, AsksFit
<1>3. certs'[q.of] = Decided(certs[q.of], q) /\ certs'[q.of].status # "draft"
  <2>1. certs' = [certs EXCEPT ![q.of] = Decided(certs[q.of], q)]
    BY DEF Decide
  <2>2. DOMAIN certs[q.of] = CertFields
    BY <1>1 DEF Inv, CertsFit, CertFits
  <2>3. Decided(certs[q.of], q).status # "draft"
    BY <2>2 DEF Decided, CertFields
  <2> QED BY <1>1, <2>1, <2>3
<1>4. CASE page' = page \/ page' = Failed(q)
  <2>1. page' = page => PagesFit'
    BY <1>1, StillLooked DEF Inv, PagesFit
  <2> QED BY <1>1, <1>2, <1>4, <2>1, FailedKeeps
<1>5. CASE Expecting(q) /\ page' = Told(q, certs'[q.of])
  <2> DEFINE p == [page[q.by] EXCEPT !.status = certs'[q.of].status, !.draft = None,
                                     !.waits = page[q.by].waits \ {q.kind},
                                     !.rejectable = page[q.by].rejectable /\ q.kind # "rejection"]
  <2>1. page[q.by] # None /\ DOMAIN page[q.by] = PageFields /\ page[q.by].of \in DOMAIN certs
    BY <1>1, <1>5, PageKnown DEF Expecting
  <2>2. page' = [page EXCEPT ![q.by] = p]
    BY <1>5 DEF Told
  <2>3. DOMAIN p = PageFields /\ p.of = page[q.by].of /\ p.status # "draft"
    BY <1>3, <2>1 DEF PageFields
  <2> HIDE DEF p
  <2>4. PageFits(p, certs')
    BY <1>1, <2>1, <2>3 DEF PageFits, Kept
  <2> QED BY <1>1, <1>2, <2>2, <2>4, StillLooked DEF Inv, PagesFit
<1> QED BY <1>2, <1>4, <1>5 DEF Decide

\* Every step keeps what is true of pages and of the decisions on their way.
LEMMA PagesStep == ASSUME Inv, [Next]_vars PROVE PagesFit' /\ AsksFit'
<1> DEFINE Idle == page' = page /\ asked' = asked
<1>1. CASE Idle
  BY <1>1, CertsStep, StillLooked DEF Inv, PagesFit, AsksFit
<1>2. ASSUME NEW r \in Reviewers, NEW c \in DOMAIN certs, LoadPage(r, c) PROVE PagesFit' /\ AsksFit'
  <2>1. asked' = asked /\ certs' = certs
    BY <1>2 DEF LoadPage
  <2> QED BY <1>2, <2>1, LoadPageKeeps DEF Inv, AsksFit
<1>3. ASSUME NEW r \in Reviewers, Correct(r) PROVE PagesFit' /\ AsksFit'
  <2>1. asked' = asked /\ certs' = certs
    BY <1>3 DEF Correct
  <2> QED BY <1>3, <2>1, CorrectKeeps DEF Inv, AsksFit
<1>4. ASSUME NEW r \in Reviewers, ClosePage(r) PROVE PagesFit' /\ AsksFit'
  <2>1. asked' = asked /\ certs' = certs /\ page' = [page EXCEPT ![r] = None]
    BY <1>4 DEF ClosePage
  <2>2. PageFits(None, certs)
    BY DEF PageFits
  <2> QED BY <2>1, <2>2, OtherPage DEF Inv, AsksFit
<1>5. ASSUME NEW q \in asked, TurnedAway(q) PROVE PagesFit' /\ AsksFit'
  <2>1. asked' \subseteq asked /\ certs' = certs /\ page' = Failed(q)
    BY <1>5 DEF TurnedAway
  <2>2. Kept(certs, certs')
    BY <2>1 DEF Kept
  <2> QED BY <2>1, <2>2, FailedKeeps DEF Inv, AsksFit
<1>6. ASSUME NEW t \in task,
             ReadOn(t) \/ ExtractionDone(t) \/ ExtractionCancelled(t) \/ ExtractionFails(t)
      PROVE  Idle
  BY <1>6 DEF ReadOn, ExtractionDone, ExtractionCancelled, ExtractionFails, ExtractionEnds
<1>7. ASSUME Cancel \/ Edit \/ TickReviewed \/ Replace \/ Submit \/ Leave \/ ConnectionLost
      PROVE  Idle
  BY <1>7 DEF Cancel, Edit, TickReviewed, Replace, Submit, Leave, ConnectionLost
<1>8. ASSUME NEW s \in sent, Store(s) \/ Refused(s) PROVE Idle
  BY <1>8 DEF Store, Refused
<1>9. ASSUME NEW mode \in {"staff", "vendor"}, Open(mode) PROVE Idle
  BY <1>9 DEF Open
<1>10. ASSUME NEW d \in Files, ChooseFile(d) PROVE Idle
  BY <1>10 DEF ChooseFile
<1>11. CASE UNCHANGED vars
  BY <1>1, <1>11 DEF vars
<1> HIDE DEF Idle
<1> QED BY <1>1, <1>2, <1>3, <1>4, <1>5, <1>6, <1>7, <1>8, <1>9, <1>10, <1>11, AskKeeps,
           DecidePages DEF Next

-----------------------------------------------------------------------------
(* The invariant holds, and so do the properties.                          *)

\* The counters stay numbers.
LEMMA CountStep == ASSUME Inv, [Next]_vars PROVE CountFits'
<1> DEFINE With(field) == count' = [count EXCEPT ![field] = @ + 1]
<1>1. \/ count' = count
      \/ With("tabs") \/ With("chosen") \/ With("edits") \/ With("fixes") \/ With("sends")
      \/ With("asks")
  BY DEF Next, Open, ChooseFile, ReadOn, ExtractionDone, ExtractionCancelled, ExtractionFails,
         ExtractionEnds, Cancel, Edit, TickReviewed, Replace, Submit, Leave, ConnectionLost,
         Store, Refused, LoadPage, Correct, ConfirmExtraction, RejectSubmission, Ask, ClosePage,
         Decide, TurnedAway, vars
<1> QED BY <1>1 DEF Inv, CountFits

\* The invariant holds at first.
LEMMA InitInv == ASSUME Init PROVE Inv
<1>1. CountFits /\ FormFits /\ SentFit /\ PagesFit /\ AsksFit
  BY DEF Init, CountFits, FormFits, SentFit, PagesFit, PageFits, AsksFit
<1>2. CertsFit
  BY EmptySeq DEF Init, CertsFit
<1> QED BY <1>1, <1>2 DEF Inv

\* Every step keeps the invariant.
LEMMA NextInv == ASSUME Inv, [Next]_vars PROVE Inv'
BY CountStep, FormStep, SentStep, CertsStep, PagesStep DEF Inv

\* The inductive invariant: what form, submissions, certificates, pages and decisions hold.
THEOREM Invariance == Spec => []Inv
<1>1. Init => Inv
  BY InitInv
<1>2. Inv /\ [Next]_vars => Inv'
  BY NextInv
<1> QED BY <1>1, <1>2, PTL DEF Spec

\* What is stored comes from the file that is stored with it, was ticked while that file
\* was shown, and has evidence on its pages.
THEOREM StoredAsReviewed == Spec => []SentAsReviewed
<1>1. Inv => SentAsReviewed
  <2> SUFFICES ASSUME Inv, NEW c \in DOMAIN certs
               PROVE  /\ SubmissionFits(certs[c].sub)
                      /\ \A i \in DOMAIN certs[c].facts : \A e \in certs[c].facts[i].endorsements :
                            Evidenced(e, PageCount[certs[c].sub.file])
    BY DEF SentAsReviewed, SubmissionFits, Evidenced
  <2>1. CertFits(certs[c])
    BY DEF Inv, CertsFit
  <2> QED BY <2>1 DEF CertFits, Facts, Fact
<1> QED BY <1>1, Invariance, PTL

\* The facts are those of the last screen that was accepted.
THEOREM StoredAsShown == Spec => []FactsAsShown
<1>1. Inv => FactsAsShown
  <2> SUFFICES ASSUME Inv, NEW c \in DOMAIN certs
               PROVE  /\ Match(certs[c].facts, Last(certs[c].of))
                      /\ Len(certs[c].of) = IF certs[c].status = "draft" \/ certs[c].sub.mode = "staff"
                                            THEN 1 ELSE 2
    BY DEF FactsAsShown, Match, Named, Listed
  <2>1. CertFits(certs[c])
    BY DEF Inv, CertsFit
  <2> QED BY <2>1 DEF CertFits
<1> QED BY <1>1, Invariance, PTL

\* The form is busy only while something is.
THEOREM BusyForAReason == Spec => []BusyMeansWork
<1>1. Inv => BusyMeansWork
  BY DEF Inv, FormFits, TasksFit, BusyMeansWork, Shown
<1> QED BY <1>1, Invariance, PTL
=============================================================================
