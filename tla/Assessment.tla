----------------------------- MODULE Assessment -----------------------------
(***************************************************************************)
(* The self-assessments of one organisation in one assessment period       *)
(* (class Assessment, webcaf/models.py): a user creates a draft for a      *)
(* system, several users answer its outcomes and confirm them, the         *)
(* organisation lead submits it and a Review is created for it.            *)
(*                                                                         *)
(* The page a user works on is not enough to say which assessment a        *)
(* request is about: the details being chosen and the assessment being     *)
(* edited are kept in the user's session, as the draft_assessment entry,   *)
(* and several tabs share it.  A user here is one browser session, whose   *)
(* requests are handled one at a time.                                     *)
(*                                                                         *)
(* A request loads an assessment, changes the instance and saves the whole *)
(* row; Assessment.save has no lock of any kind.  Requests of different    *)
(* users interleave, and gunicorn kills a request that takes too long.     *)
(* SerialRequests = FALSE is the deployed system; TRUE restricts it to     *)
(* behaviours in which no request loads an assessment while another holds  *)
(* one.                                                                    *)
(***************************************************************************)
EXTENDS Naturals

CONSTANTS
  Users,          \* the browser sessions
  Role,           \* the role of the user of each session
  Systems,        \* the systems of the organisation
  Ids,            \* primary keys: bounds how many assessments are created
  Outcomes,       \* the contributing outcomes of the framework
  Answers,        \* what can be answered about an outcome
  Profiles,       \* the CAF profiles
  ReviewTypes,    \* the types of review
  None,           \* an absent row or entry
  SerialRequests

Degrees == {"none", "some", "all"}

\* Which of the statements of each kind are ticked; an outcome without
\* statements of a kind has "none" of them.
AllAnswers ==
  {a \in [achieved : Degrees, partially : Degrees, not_achieved : Degrees] :
     \E kind \in {"achieved", "partially", "not_achieved"} : a[kind] # "none"}

OutcomeStatuses == {"Achieved", "Partially achieved", "Not achieved"}

Roles == {"organisation_lead", "organisation_user", "cyber_advisor"}

ASSUME AssessmentAssumption ==
  /\ Role \in [Users -> Roles]
  /\ Answers \subseteq AllAnswers
  /\ Profiles \subseteq {"baseline", "enhanced"}
  /\ ReviewTypes \subseteq {"independent", "peer_review", "self_assessment", "not_decided"}
  /\ "enhanced" \in Profiles => "independent" \in ReviewTypes
  /\ None \notin Systems \cup Ids \cup Outcomes
  /\ None \notin Answers
  /\ None \notin Profiles \cup ReviewTypes \cup OutcomeStatuses
  /\ SerialRequests \in BOOLEAN

-----------------------------------------------------------------------------
(* The content of an assessment.                                           *)

\* IndicatorStatusChecker.get_status_for_indicator: the assessment-rules of
\* caf32, which the callers use for every framework.
GetStatus(answer) ==
  IF answer = None \/ answer.not_achieved # "none" THEN "Not achieved"
  ELSE CASE answer.achieved = "all" -> "Achieved"
         [] answer.achieved # "all" /\ answer.partially = "all" -> "Partially achieved"
         [] OTHER -> "Not achieved"

\* assessments_data[outcome]: the indicators stage and the confirmation stage,
\* the latter with the status that was worked out when it was confirmed.
OutcomeRecords ==
  [indicators : Answers \cup {None}, confirmed : OutcomeStatuses \cup {None}]

NoAnswer == [indicators |-> None, confirmed |-> None]

AssessmentRecords ==
  [status      : {"draft", "submitted"},
   system      : Systems,
   caf_profile : Profiles,
   review_type : ReviewTypes,
   outcomes    : [Outcomes -> OutcomeRecords]]

ASSUME RowAssumption == \A a \in AssessmentRecords : a # None

\* Completeness that looks at the answers instead of the confirmations.
IsAnswered(a) == Outcomes # {} /\ \A o \in Outcomes : a.outcomes[o].indicators # None

\* The objectives and their outcomes taken together; with no outcome at all
\* there would be no section and is_objective_complete would be false.
IsComplete(a) == Outcomes # {} /\ \A o \in Outcomes : a.outcomes[o].confirmed # None

\* A confirmation that outlives the answers it was given for.
SetIndicatorsOnly(a, o, answer) == [a EXCEPT !.outcomes[o].indicators = answer]

\* BaseIndicatorsFormView.form_valid for the indicators of an outcome: other
\* answers than the stored ones reset the confirmation.
SetIndicators(a, o, answer) ==
  [a EXCEPT !.outcomes[o] =
     [indicators |-> answer, confirmed |-> IF @.indicators = answer THEN @.confirmed ELSE None]]

SetConfirmation(a, o, outcome_status) == [a EXCEPT !.outcomes[o].confirmed = outcome_status]

-----------------------------------------------------------------------------
VARIABLES
  rows,     \* the stored assessments
  reviews,  \* those that have a Review
  session,  \* draft_assessment of each session
  req       \* the request of each session that is being handled

vars == <<rows, reviews, session, req>>

Sessions ==
  [id          : Ids \cup {None},
   system      : Systems \cup {None},
   caf_profile : Profiles \cup {None},
   review_type : ReviewTypes \cup {None}]

EmptySession == [id |-> None, system |-> None, caf_profile |-> None, review_type |-> None]

\* idle: no request; judged: OutcomeConfirmationView has worked out the status;
\* loaded: the instance is changed in memory; submitting: it is to be saved as
\* submitted; initiating: it is, and the Review is to be created.
Phases == {"idle", "judged", "loaded", "submitting", "initiating"}

RequestRecords ==
  [pc      : Phases,
   id      : Ids \cup {None},
   held    : AssessmentRecords \cup {None},
   outcome : Outcomes \cup {None},
   status  : OutcomeStatuses \cup {None}]

NoRequest == [pc |-> "idle", id |-> None, held |-> None, outcome |-> None, status |-> None]

TypeOK ==
  /\ rows \in [Ids -> AssessmentRecords \cup {None}]
  /\ reviews \subseteq Ids
  /\ session \in [Users -> Sessions]
  /\ req \in [Users -> RequestRecords]

Init ==
  /\ rows = [id \in Ids |-> None]
  /\ reviews = {}
  /\ session = [u \in Users |-> EmptySession]
  /\ req = [u \in Users |-> NoRequest]

IsDraft(id) == id # None /\ rows[id] # None /\ rows[id].status = "draft"

-----------------------------------------------------------------------------
(* Choosing the details of an assessment that does not exist yet.          *)

\* AccountView.get: a new flow starts with an empty draft_assessment.
Account(u) ==
  /\ req[u].pc = "idle"
  /\ session' = [session EXCEPT ![u] = EmptySession]
  /\ UNCHANGED <<rows, reviews, req>>

\* What the three forms put in the session.
ChooseSystem(s, system) == [s EXCEPT !.system = system]

ChooseProfile(s, profile) ==
  [s EXCEPT !.caf_profile = profile,
            !.review_type = IF profile = "enhanced" THEN "independent" ELSE @]

ChooseReviewType(s, type) == [s EXCEPT !.review_type = type]

Choices(s) ==
       {ChooseSystem(s, system) : system \in Systems}
  \cup {ChooseProfile(s, profile) : profile \in Profiles}
  \cup {ChooseReviewType(s, type) : type \in ReviewTypes}

\* Details that are complete without a profile.
HasSystemAndType(s) == s.system # None /\ s.review_type # None

HasDetails(s) == s.system # None /\ s.caf_profile # None /\ s.review_type # None

DraftsOf(system) == {id \in Ids : IsDraft(id) /\ rows[id].system = system}

NewAssessment(s) ==
  [status      |-> "draft",
   system      |-> s.system,
   caf_profile |-> s.caf_profile,
   review_type |-> s.review_type,
   outcomes    |-> [o \in Outcomes |-> NoAnswer]]

\* CreateAssessmentView.form_valid: once the three details are known the draft
\* of the system is fetched, or created; a race to create it is settled by the
\* unique constraint, so that get_or_create is one step.
CreateDraft(u) ==
  \E s \in Choices(session[u]) :
    /\ req[u].pc = "idle"
    /\ IF HasDetails(s) /\ DraftsOf(s.system) = {}
         THEN \E id \in Ids :
                /\ rows[id] = None
                /\ rows' = [rows EXCEPT ![id] = NewAssessment(s)]
                /\ session' = [session EXCEPT ![u] = [s EXCEPT !.id = id]]
         ELSE /\ \E id \in IF HasDetails(s) THEN DraftsOf(s.system) ELSE {s.id} :
                   session' = [session EXCEPT ![u] = [s EXCEPT !.id = id]]
              /\ UNCHANGED rows
    /\ UNCHANGED <<reviews, req>>

\* EditAssessmentView.get_context_data: the draft that is opened becomes the
\* one of the session.
OpenDraft(u, id) ==
  /\ req[u].pc = "idle"
  /\ IsDraft(id)
  /\ session' = [session EXCEPT ![u] =
       [id |-> id, system |-> rows[id].system, caf_profile |-> rows[id].caf_profile,
        review_type |-> rows[id].review_type]]
  /\ UNCHANGED <<rows, reviews, req>>

-----------------------------------------------------------------------------
(* Requests that load an assessment, change it and save it.                *)

Busy(v) == req[v].pc \in {"judged", "loaded", "submitting"}

MayLoad == SerialRequests => \A v \in Users : ~ Busy(v)

\* The request has loaded assessment id and made `new` of it.
Hold(u, pc, id, new) ==
  /\ req[u].pc = "idle"
  /\ MayLoad
  /\ req' = [req EXCEPT ![u] = [NoRequest EXCEPT !.pc = pc, !.id = id, !.held = new]]

\* The row is made anew from the session, as the draft it is taken to be.
ChangeDetailsOfDraft(a, s) == [NewAssessment(s) EXCEPT !.outcomes = a.outcomes]

\* The details of the session replace those of the row, three at a time.
ChangeDetails(a, s) ==
  [a EXCEPT !.system = s.system, !.caf_profile = s.caf_profile, !.review_type = s.review_type]

\* EditAssessmentView.form_valid: get_form_kwargs wants the assessment of the
\* URL to be a draft; the one that is loaded is the one of the session.
EditDetails(u) ==
  \E s \in Choices(session[u]), url \in Ids :
    /\ IsDraft(url)
    /\ session' = [session EXCEPT ![u] = s]
    /\ IF HasDetails(s) /\ s.id # None
         THEN Hold(u, "loaded", s.id, ChangeDetails(rows[s.id], s))
         ELSE req[u].pc = "idle" /\ UNCHANGED req
    /\ UNCHANGED <<rows, reviews>>

CanEdit(u) == Role[u] \in {"organisation_lead", "organisation_user"}

\* OutcomeIndicatorsView.form_valid on the draft of the session.
AnswerOutcome(u, o, answer) ==
  /\ CanEdit(u)
  /\ IsDraft(session[u].id)
  /\ Hold(u, "loaded", session[u].id, SetIndicators(rows[session[u].id], o, answer))
  /\ UNCHANGED <<rows, reviews, session>>

\* OutcomeConfirmationView.form_valid works out the status from one load of the
\* assessment ...
JudgeOutcome(u, o) ==
  LET id == session[u].id
  IN /\ CanEdit(u)
     /\ IsDraft(id)
     /\ rows[id].outcomes[o] # NoAnswer
     /\ req[u].pc = "idle"
     /\ MayLoad
     /\ req' = [req EXCEPT ![u] =
          [pc |-> "judged", id |-> id, held |-> None, outcome |-> o,
           status |-> GetStatus(rows[id].outcomes[o].indicators)]]
     /\ UNCHANGED <<rows, reviews, session>>

\* ... and its base class stores it in another.
ConfirmOutcome(u) ==
  /\ req[u].pc = "judged"
  /\ IsDraft(req[u].id)
  /\ req' = [req EXCEPT ![u].pc = "loaded",
       ![u].held = SetConfirmation(rows[req[u].id], req[u].outcome, req[u].status)]
  /\ UNCHANGED <<rows, reviews, session>>

\* SectionConfirmationView.form_valid.
Submit(u) ==
  LET id == session[u].id
  IN /\ Role[u] = "organisation_lead"
     /\ IsDraft(id)
     /\ IsComplete(rows[id])
     /\ Hold(u, "submitting", id, [rows[id] EXCEPT !.status = "submitted"])
     /\ UNCHANGED <<rows, reviews, session>>

\* unique_together (assessment_period, system, status).
Unique(id, a) ==
  \A other \in Ids \ {id} :
    rows[other] # None => rows[other].system # a.system \/ rows[other].status # a.status

Store(u) == rows' = [rows EXCEPT ![req[u].id] = req[u].held]

\* Assessment.save: every column, whatever is stored by now.
SaveDraft(u) ==
  /\ req[u].pc = "loaded"
  /\ Unique(req[u].id, req[u].held)
  /\ Store(u)
  /\ req' = [req EXCEPT ![u] = NoRequest]
  /\ UNCHANGED <<reviews, session>>

\* The Review is created first, the assessment is saved when it is there.
SaveAfterReview(u) ==
  /\ req[u].pc = "submitting"
  /\ Unique(req[u].id, req[u].held)
  /\ reviews' = reviews \cup {req[u].id}
  /\ req' = [req EXCEPT ![u].pc = "loaded"]
  /\ UNCHANGED <<rows, session>>

SaveSubmission(u) ==
  /\ req[u].pc = "submitting"
  /\ Unique(req[u].id, req[u].held)
  /\ Store(u)
  /\ req' = [req EXCEPT ![u].pc = "initiating"]
  /\ UNCHANGED <<reviews, session>>

IsReviewed(a) == a.review_type \in {"independent", "peer_review"}

\* Review.objects.get_or_create, for the types that are reviewed.
InitiateReview(u) ==
  /\ req[u].pc = "initiating"
  /\ reviews' = IF IsReviewed(req[u].held) THEN reviews \cup {req[u].id} ELSE reviews
  /\ req' = [req EXCEPT ![u] = NoRequest]
  /\ UNCHANGED <<rows, session>>

\* The request ends with nothing more done: the save violates the unique
\* constraint, the draft is gone when it is loaded again, or the worker is
\* killed.
Abandon(u) ==
  /\ req[u].pc # "idle"
  /\ req' = [req EXCEPT ![u] = NoRequest]
  /\ UNCHANGED <<rows, reviews, session>>

Step(u) ==
  \/ Account(u)
  \/ CreateDraft(u)
  \/ \E id \in Ids : OpenDraft(u, id)
  \/ EditDetails(u)
  \/ \E o \in Outcomes, answer \in Answers : AnswerOutcome(u, o, answer)
  \/ \E o \in Outcomes : JudgeOutcome(u, o)
  \/ ConfirmOutcome(u)
  \/ Submit(u)
  \/ SaveDraft(u)
  \/ SaveSubmission(u)
  \/ InitiateReview(u)
  \/ Abandon(u)

Next == \E u \in Users : Step(u)

Spec == Init /\ [][Next]_vars

-----------------------------------------------------------------------------
(* Properties.                                                             *)

Stored == {id \in Ids : rows[id] # None}

Submitted == {id \in Stored : rows[id].status = "submitted"}

\* Every outcome of what was sent for review has been confirmed, whatever stale
\* copy of the assessment is written back over it (SectionConfirmationView).
SubmittedIsComplete ==
  \A id \in Submitted, o \in Outcomes : rows[id].outcomes[o].confirmed # None

\* The status an outcome was confirmed with is the one its answers give ("If we
\* are changing the indicators, then we have to reset the confirmation data").
ConfirmedStatusIsCurrent ==
  \A id \in Stored, o \in Outcomes :
    LET outcome == rows[id].outcomes[o]
    IN outcome.confirmed # None => outcome.confirmed = GetStatus(outcome.indicators)

\* An assessment under review has been submitted, and stays so: no killed
\* request leaves a Review of a draft behind.
ReviewedIsSubmitted == reviews \subseteq Submitted

\* A submission is final: no request saves the assessment as a draft again.
SubmissionIsFinal == [][Submitted \subseteq Submitted']_rows

\* "This view allows users to edit a draft assessment" (EditAssessmentView):
\* what has been submitted is what its reviewers will read.
OnlyDraftsAreEdited == [][\A id \in Submitted : rows'[id] = rows[id]]_rows

=============================================================================
