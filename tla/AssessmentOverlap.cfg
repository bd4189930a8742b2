\* AssessmentOverlap
SPECIFICATION Spec
CONSTANTS
  Users <- LeadAndColleague
  Role <- RoleOf
  Systems <- OneSystem
  Ids <- OneId
  Outcomes <- TwoOutcomes
  Answers <- TwoAnswers
  Profiles <- EnhancedOnly
  ReviewTypes <- IndependentOnly
  None = None
  SerialRequests = FALSE
  lead = lead
  colleague = colleague
  sys1 = sys1
  sys2 = sys2
  id1 = id1
  id2 = id2
  o1 = o1
  o2 = o2
INVARIANTS
  TypeOK
  SubmittedIsComplete
