\* AssessmentStaleSession
SPECIFICATION Spec
CONSTANTS
  Users <- LeadAndColleague
  Role <- RoleOf
  Systems <- TwoSystems
  Ids <- TwoIds
  Outcomes <- OneOutcome
  Answers <- OneAnswer
  Profiles <- EnhancedOnly
  ReviewTypes <- IndependentOnly
  None = None
  SerialRequests = TRUE
  lead = lead
  colleague = colleague
  sys1 = sys1
  sys2 = sys2
  id1 = id1
  id2 = id2
  o1 = o1
  o2 = o2
PROPERTIES
  OnlyDraftsAreEdited
