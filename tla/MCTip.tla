------------------------------- MODULE MCTip -------------------------------
(* The bounded instance of Tip.  A role is given to each request; the plan   *)
(* itself is finite, and one page may be saved under another status.         *)
EXTENDS Tip, TLC

CONSTANTS lead, colleague, officer, p1, o1, bulk

Everyone == {lead, colleague, officer}

RoleOf ==
  [r \in Requests |->
     CASE r = lead      -> "organisation_lead"
       [] r = colleague -> "organisation_user"
       [] r = officer   -> "superuser"]

OnePriority == {p1}
OneOther == {o1}
OneText == {bulk}

=============================================================================
