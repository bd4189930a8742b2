\* TipOverlap
SPECIFICATION Spec
CONSTANTS
  Requests <- Everyone
  Role <- RoleOf
  Priority <- OnePriority
  Other <- OneOther
  Texts <- OneText
  NotProvided = bulk
  None = None
  MaxMixed = 1
  lead = lead
  colleague = colleague
  officer = officer
  p1 = p1
  o1 = o1
  bulk = bulk
INVARIANTS
  TypeOK
  ConfirmsItsAnswers
  SubmittedIsComplete
  SignedByLead
