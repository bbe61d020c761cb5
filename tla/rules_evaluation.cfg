SPECIFICATION Spec
CONSTANTS
  None = None
  Blank = Blank
  Texts = {"text", "CG", "INSURED", Blank}
  Cases <- AllCases
  PolicyIds = {1, 2, 3}
  EvidenceIds = {1, 2}
  Coverages = {"GENERAL", "UMBRELLA"}
  Umbrella = "UMBRELLA"
  LimitTypes <- Types
  AggregateLimits = {"GENERAL_AGGREGATE", "AGGREGATE"}
  Aggregate = "AGGREGATE"
  Occurrence = "EACH_OCCURRENCE"
  MaxMoney = 4
CHECK_DEADLOCK FALSE
INVARIANTS
  NothingUnconfirmedDecides
  CompliantIsProven
  VerdictSurvivesReview
  PolicyOrderIrrelevant
