-------------------------------- MODULE Tip --------------------------------
(***************************************************************************)
(* A Targeted Improvement Plan (class Tip, webcaf/models.py; webcaf/tip/)  *)
(* as the web application runs it: an organisation answers the             *)
(* recommendations of a finalised review, its lead confirms the answers    *)
(* and submits the plan, staff approve or reject it in the back office.    *)
(*                                                                         *)
(* A request loads the row, changes the instance and saves the whole row.  *)
(* Tip.save has no optimistic lock: it asks only for can_edit, which       *)
(* get_object computed when the instance was loaded.  What a request does  *)
(* between loading and saving touches its instance alone, so a request is  *)
(* two steps: one that loads the row and changes the instance, and Save.   *)
(* The change form of the back office is a page whose content comes back,  *)
(* with the decisions and, for a superuser, with a plain Save.             *)
(***************************************************************************)
EXTENDS Naturals

CONSTANTS
  Requests,        \* the HTTP requests that may be in progress on the plan
  Role,            \* the role of the user who makes each of them; "staff" in
                   \* the back office without being a superuser
  Priority,        \* the recommendations that must be answered in earnest
  Other,           \* the recommendations that can be reviewed in bulk
  Texts,           \* what an answer can say
  NotProvided,     \* the reason given by a bulk review
  None,            \* an absent entry of tip_data
  MaxMixed         \* bound: the plain Saves of a page that showed another status

Roles == {"organisation_lead", "organisation_user", "cyber_advisor", "staff", "superuser"}

ASSUME TipAssumption ==
  /\ Role \in [Requests -> Roles]
  /\ Priority \cap Other = {}
  /\ NotProvided \in Texts
  /\ None \notin Requests
  /\ MaxMixed \in Nat

Recommendations == Priority \cup Other

\* The statuses some step of the code sets: completed and cancelled are
\* declared and never reached.
TipStatuses == {"to_do", "in_progress", "answers_confirmed", "review", "approved", "rejected"}

\* An entry of recommendation_actions.  "blank" stands for a recommendation
\* without an entry.
Blank == [kind |-> "blank"]

Actions == {Blank} \cup [kind : {"action"}, text : Texts, reviewed : BOOLEAN]

Answers == [Recommendations -> Actions]

\* recommendation_confirmation.  The code stores who confirmed and when; the
\* answers that were confirmed are kept here to be able to speak of them.
Confirmations == [by : Requests, answers : Answers]

ASSUME ConfirmationAssumption == \A c \in Confirmations : c # None

TipRecords ==
  [status       : TipStatuses,
   answers      : Answers,
   confirmation : Confirmations \cup {None},
   finalise     : Requests \cup {None}]

\* Tip.objects.get_or_create in Review.finalise_review.
NewTip ==
  [status       |-> "to_do",
   answers      |-> [rec \in Recommendations |-> Blank],
   confirmation |-> None,
   finalise     |-> None]

VARIABLES
  tip,   \* the stored plan
  req,   \* the requests in progress, each with the instance it holds
  mixed  \* history: the plain Saves of pages that showed another status

vars == <<tip, req, mixed>>

\* idle: no request; form: staff have the change form on the screen;
\* loaded: changed in memory.
Phases == {"idle", "form", "loaded"}

RequestRecords ==
  [pc   : Phases,
   held : TipRecords]   \* the instance, or what the page shows

NoRequest == [pc |-> "idle", held |-> NewTip]

TypeOK ==
  /\ tip \in TipRecords
  /\ req \in [Requests -> RequestRecords]
  /\ mixed \in 0..MaxMixed

Init ==
  /\ tip = NewTip
  /\ req = [r \in Requests |-> NoRequest]
  /\ mixed = 0

-----------------------------------------------------------------------------
(* The methods of an instance.                                             *)

IsSubmitted(t) == t.status \in {"review", "approved"}

Actionable == {"to_do", "in_progress", "rejected", "answers_confirmed"}

\* A confirmation that outlives the answers it was given for.
AnswersKeepingConfirmation(t, answers) ==
  [t EXCEPT !.answers = answers, !.status = "in_progress"]

\* set_recommendation_action, once or for each recommendation in turn.
SetRecommendationActions(t, answers) ==
  [t EXCEPT !.answers = answers,
            !.status = "in_progress",
            !.confirmation = IF t.status = "answers_confirmed" THEN None ELSE @]

ConfirmAnswers(t, who) ==
  [t EXCEPT !.confirmation = [by |-> who, answers |-> t.answers],
            !.status = "answers_confirmed"]

Reviewed(action) == action # Blank /\ action.reviewed

AllReviewed(t) == \A rec \in Recommendations : Reviewed(t.answers[rec])

\* Readiness that forgets the recommendations that are not a priority.
PriorityReadyToSubmit(t) ==
  /\ \A rec \in Priority : Reviewed(t.answers[rec])
  /\ t.confirmation # None

IsReadyToSubmit(t) == AllReviewed(t) /\ t.confirmation # None

\* The status of the diagram in TipStatus, which is not a value of the field.
SubmitByDiagram(t, who) == [t EXCEPT !.finalise = who, !.status = "submit"]

SubmitReport(t, who) == [t EXCEPT !.finalise = who, !.status = "review"]

Approve(t) == [t EXCEPT !.status = "approved"]

Reject(t) == [t EXCEPT !.confirmation = None, !.status = "rejected"]

Reopen(t) == [t EXCEPT !.confirmation = None, !.finalise = None, !.status = "in_progress"]

-----------------------------------------------------------------------------
(* Requests.                                                               *)

\* The request holds `new`, made of the row it has just loaded.
Hold(r, new) ==
  /\ req' = [req EXCEPT ![r].pc = "loaded", ![r].held = new]
  /\ UNCHANGED tip

\* get_object of BaseTipMixin.
CanEdit(r) == Role[r] \in {"organisation_lead", "organisation_user"} /\ ~ IsSubmitted(tip)

\* TipRecommendationActionView: the answer is marked as reviewed only by a
\* button that validates it.
ActOnRecommendation(r, rec, text, reviewed) ==
  /\ req[r].pc = "idle"
  /\ CanEdit(r)
  /\ tip.status \in Actionable
  /\ Hold(r, SetRecommendationActions(tip,
       [tip.answers EXCEPT ![rec] = [kind |-> "action", text |-> text, reviewed |-> reviewed]]))

\* TipRecommendationsView: the other recommendations on the (filtered) page
\* that have no entry yet are all reviewed with no action planned.
BulkReview(r, page) ==
  LET open == {rec \in page : tip.answers[rec] = Blank}
      reviewed == [kind |-> "action", text |-> NotProvided, reviewed |-> TRUE]
      answers == [rec \in Recommendations |-> IF rec \in open THEN reviewed ELSE tip.answers[rec]]
  IN /\ req[r].pc = "idle"
     /\ CanEdit(r)
     /\ Hold(r, IF open = {} THEN tip ELSE SetRecommendationActions(tip, answers))

\* A confirmation anybody who can edit may give.
ConfirmByAnyone(r) ==
  /\ req[r].pc = "idle"
  /\ CanEdit(r)
  /\ tip.status = "in_progress"
  /\ Hold(r, ConfirmAnswers(tip, r))

\* TipReviewAnswersView: the POST confirms the answers that are stored by then,
\* whatever the page showed.
ConfirmStoredAnswers(r) ==
  /\ req[r].pc = "idle"
  /\ Role[r] = "organisation_lead"
  /\ tip.status = "in_progress"
  /\ Hold(r, ConfirmAnswers(tip, r))

\* TipSubmitView.
SubmitTip(r) ==
  /\ req[r].pc = "idle"
  /\ IsReadyToSubmit(tip)
  /\ Role[r] = "organisation_lead"
  /\ CanEdit(r)
  /\ Hold(r, SubmitReport(tip, r))

\* TipAdmin: the change form carries tip_data, the status is not on it.
OpenChangeForm(r) ==
  /\ req[r].pc = "idle"
  /\ Role[r] \in {"staff", "superuser"}
  /\ req' = [req EXCEPT ![r] = [pc |-> "form", held |-> tip]]
  /\ UNCHANGED tip

\* What the POST makes of the row: its status, and tip_data from the form.
Posted(r) == [req[r].held EXCEPT !.status = tip.status]

\* The buttons are on the form of a submitted plan, and the status is tested
\* again when they are pressed.
ApproveTip(r) ==
  /\ req[r].pc = "form"
  /\ req[r].held.status = "review"
  /\ tip.status = "review"
  /\ Hold(r, Approve(Posted(r)))

RejectTip(r) ==
  /\ req[r].pc = "form"
  /\ req[r].held.status = "review"
  /\ tip.status = "review"
  /\ Hold(r, Reject(Posted(r)))

ReopenTip(r) ==
  /\ req[r].pc = "form"
  /\ Role[r] = "superuser"
  /\ req[r].held.status = "approved"
  /\ tip.status = "approved"
  /\ Hold(r, Reopen(Posted(r)))

\* A superuser's plain Save, offered whatever the status: tip_data as the page
\* showed it, under the status the row has by now.
SavePage(r) ==
  /\ req[r].pc = "form"
  /\ Role[r] = "superuser"
  /\ Hold(r, Posted(r))
  /\ mixed' = IF req[r].held.status = tip.status THEN mixed ELSE mixed + 1
  /\ mixed' <= MaxMixed

\* The user leaves the page, or the POST is refused.
Leave(r) ==
  /\ req[r].pc = "form"
  /\ req' = [req EXCEPT ![r] = NoRequest]
  /\ UNCHANGED tip

\* Tip.save: every column, whatever is stored by now.
Save(r) ==
  /\ req[r].pc = "loaded"
  /\ tip' = req[r].held
  /\ req' = [req EXCEPT ![r] = NoRequest]

Step(r) ==
  \/ \E rec \in Recommendations, text \in Texts, reviewed \in BOOLEAN :
       ActOnRecommendation(r, rec, text, reviewed)
  \/ \E page \in SUBSET Other : BulkReview(r, page)
  \/ ConfirmStoredAnswers(r)
  \/ SubmitTip(r)
  \/ OpenChangeForm(r)
  \/ ApproveTip(r)
  \/ RejectTip(r)
  \/ ReopenTip(r)
  \/ Leave(r)
  \/ Save(r)

Next ==
  \/ \E r \in Requests : Step(r) /\ UNCHANGED mixed
  \/ \E r \in Requests : SavePage(r)

Spec == Init /\ [][Next]_vars

-----------------------------------------------------------------------------
(* Properties.                                                             *)

\* A confirmation is about the answers it is stored with: whatever stale copy
\* of the plan a request writes back, no answer changes under a confirmation
\* (set_recommendation_action "Reset the confirmation as answers are now changed"),
\* unless a superuser has saved an old page under another status: a confirmation
\* that comes back under in_progress outlives the next answer.
ConfirmsItsAnswers ==
  mixed = 0 /\ tip.confirmation # None => tip.confirmation.answers = tip.answers

\* A plan that waits for a decision or has been approved is complete, confirmed
\* and signed off, and a plan in any other hands but the lead's is not confirmed
\* (is_ready_to_submit, reject, reopen), whatever stale copies and pages are
\* saved, a superuser's old page under another status alone excepted
\* (TipAdmin.save_model).
SubmittedIsComplete ==
  mixed = 0 =>
    /\ IsSubmitted(tip) => AllReviewed(tip) /\ tip.finalise # None
    /\ tip.confirmation # None <=> IsSubmitted(tip) \/ tip.status = "answers_confirmed"

\* Only leads confirm and submit: whatever stale copies are saved, whatever
\* stale change forms posted and whatever pages superusers save, a plan with
\* staff was confirmed and signed by leads (TipReviewAnswersView, TipSubmitView).
SignedByLead ==
  IsSubmitted(tip) =>
    /\ tip.finalise # None => Role[tip.finalise] = "organisation_lead"
    /\ tip.confirmation # None => Role[tip.confirmation.by] = "organisation_lead"

=============================================================================
