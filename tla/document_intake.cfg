SPECIFICATION Spec
CONSTANTS
  d1 = d1  d2 = d2  rae = rae
  None = None
  Unreadable = Unreadable
  Files = {d1, d2}
  PageCount <- Pages
  Scanned <- ScannedPages
  Parsed <- ParserFinds
  MaxOcrPages = 1
  Common = {"Additional insured"}
  Coverages = {"AUTOMOBILE_LIABILITY"}
  Types = {"COMBINED_SINGLE_LIMIT", "AGGREGATE"}
  Levels = {"NONE", "ATTACHED"}
  AmountTexts <- Amounts
  PageTexts <- PageList
  Names = {"CG 20 37"}
  Reviewers = {rae}
  MaxTabs = 1
  MaxChoices = 2
  MaxEdits = 1
  MaxFixes = 1
  MaxSends = 2
  MaxAsks = 2
INVARIANTS
  SentAsReviewed
  FactsAsShown
  BusyMeansWork
CHECK_DEADLOCK FALSE
