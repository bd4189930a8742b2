\* ReportMixedVersions
SPECIFICATION Spec
CONSTANTS
  Objectives <- TwoObjectives
  PrinciplesOf <- Principles2
  OutcomesOf <- Outcomes2
  StatementsOf <- Statements2
  Requirement <- Requirement2
  None = None
  Comments <- SomeComments
  Refused = Refused
  Titles <- TwoTitles
  Plans <- BaselinePlans
  StalePlans <- OneStalePlan
  Picks <- PicksOf
  Books <- ThreeBooks
  ImportStatuses <- TwoImportStatuses
  Judgements <- JudgementsOf
  RecommendationLists <- ListsOf
  FillOrder <- OrderOf
  Reworked <- ReworkedOutcomes
  MaxRows = 3
INVARIANTS
  DownloadIsOfOneVersion
