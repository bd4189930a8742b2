------------------------------ MODULE MCReview ------------------------------
(* The bounded instances of Review: two or three requests, one of them made *)
(* by an organisation lead, two sections where lost updates matter.         *)
EXTENDS Review, TLC

CONSTANTS r1, r2, r3, s1, s2, t1, t2, sys1, sys2

TwoRequests == {r1, r2}
ThreeRequests == {r1, r2, r3}
LeadRequest == {r2}
NoLeads == {}
OneSection == {s1}
TwoSections == {s1, s2}
OneText == {t1}
TwoTexts == {t1, t2}
TwoSystems == {sys1, sys2}

=============================================================================
