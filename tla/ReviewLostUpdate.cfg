\* ReviewLostUpdate
SPECIFICATION Spec
CHECK_DEADLOCK FALSE
CONSTANTS
  Requests <- TwoRequests
  ReadOnly <- NoLeads
  Sections <- OneSection
  Texts <- TwoTexts
  Systems <- TwoSystems
  None = None
  SerialSaves = FALSE
  MaxWrites = 5
  r1 = r1
  r2 = r2
  r3 = r3
  s1 = s1
  s2 = s2
  t1 = t1
  t2 = t2
  sys1 = sys1
  sys2 = sys2
PROPERTIES
  CompletedOnlyReopens
