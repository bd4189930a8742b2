---------------------------- MODULE MCAssessment ----------------------------
(* The bounded instances of Assessment: a lead and a colleague, one or two   *)
(* systems, and as many assessments as the questions asked of them need.     *)
EXTENDS Assessment, TLC

CONSTANTS lead, colleague, sys1, sys2, id1, id2, o1, o2

LeadAndColleague == {lead, colleague}

RoleOf ==
  [u \in Users |-> IF u = lead THEN "organisation_lead" ELSE "organisation_user"]

OneSystem == {sys1}
TwoSystems == {sys1, sys2}
OneId == {id1}
TwoIds == {id1, id2}
OneOutcome == {o1}
TwoOutcomes == {o1, o2}

AllAchieved == [achieved |-> "all", partially |-> "none", not_achieved |-> "none"]
SomeMissing == [achieved |-> "some", partially |-> "all", not_achieved |-> "some"]

OneAnswer == {AllAchieved}
TwoAnswers == {AllAchieved, SomeMissing}

EnhancedOnly == {"enhanced"}
IndependentOnly == {"independent"}

=============================================================================
