----------------------------- MODULE Lifecycle -----------------------------
(***************************************************************************)
(* The whole way of one system through one assessment period: the draft is *)
(* filled in page by page or imported from a workbook, submitted, reviewed *)
(* outcome by outcome or the review imported, completed as a version of    *)
(* the report, reopened, finalised, planned for, rolled back.              *)
(*                                                                         *)
(* Here every request is one step: what overlapping requests do is the     *)
(* subject of Assessment, Review and Tip, whose data is opaque.  This      *)
(* module has the data: which outcomes, decisions and recommendations      *)
(* there are, and whether the parts that read them agree.                  *)
(*                                                                         *)
(* The parties follow the links of their pages: an assessor sees those of  *)
(* the review once its scope is confirmed, and the superuser imports what  *)
(* he previewed.                                                           *)
(***************************************************************************)
EXTENDS Workbook, ReviewReport

CONSTANTS
  Plans,                \* the profile and the type of review of a self-assessment
  StalePlans,           \* what an old session makes of them after the submission
  Picks,                \* the selections made on the page of each outcome
  Books,                \* the workbooks that are uploaded
  ImportStatuses,       \* the statuses a review is imported with
  Judgements,           \* the decisions the assessor chooses from
  RecommendationLists,  \* what is recommended, by type of review and outcome
  FillOrder,            \* the order the rest of a review is filled in, by type
  Reworked,             \* the outcomes that are edited after the first version
  MaxRows               \* bounds the rows of the history that are completed

ReviewTypes == {"independent", "peer_review", "self_assessment"}

\* A detail of the review, or a comment on an objective.
Fills == ({None} \X (NeededDetails \cup AreaDetails)) \cup (ToSet(Objectives) \X CommentKinds)

ASSUME LifecycleAssumption ==
  /\ Plans \subseteq Profiles \X ReviewTypes
  /\ StalePlans \subseteq Profiles \X ReviewTypes
  /\ Picks \in [Outcomes -> SUBSET SUBSET UNION {Fields(o) : o \in Outcomes}]
  /\ \A o \in Outcomes : Picks[o] \subseteq Selections(o)
  /\ \A book \in Books : DOMAIN book = Cells
  /\ ImportStatuses \subseteq {"to_do", "in_progress", "completed"}
  /\ Judgements \in [Outcomes -> SUBSET Levels]
  /\ \A o \in Outcomes : Judgements[o] \subseteq DecisionsFor(o)
  /\ RecommendationLists \in [ReviewTypes -> [Outcomes -> SUBSET Seq(Titles)]]
  /\ DOMAIN FillOrder = ReviewTypes
  /\ \A t \in ReviewTypes : IsASequence(FillOrder[t]) /\ ToSet(FillOrder[t]) \subseteq Fills
  /\ Reworked \subseteq Outcomes
  /\ MaxRows \in Nat

VARIABLES
  rows,     \* the assessments of the system, by status
  page,     \* where the organisation lead is in the draft
  review,   \* the review of the submitted assessment
  offered,  \* the create-report page is open
  history,  \* the responses of the rows of the review's history that are completed
  tip,      \* the actions of the plan, by number of the recommendation
  rolled,   \* the back office has reopened the review
  stale     \* whether somebody's session still has the submitted assessment as
            \* the draft to edit; "used" when it has been edited that way

vars == <<rows, page, review, offered, history, tip, rolled, stale>>

Statuses == {"draft", "submitted"}

Assessments ==
  {a \in [data : Data, caf_profile : Profiles, review_type : ReviewTypes, partial : BOOLEAN] :
     <<a.caf_profile, a.review_type>> \in Plans \cup StalePlans}

Reviews ==
  [status    : {"to_do", "in_progress", "completed"},
   response  : Responses,
   completed : BOOLEAN,
   finalised : BOOLEAN]

\* None is no record, and none of the values of a cell or a decision.
ASSUME RecordAssumption ==
  /\ \A o \in Outcomes : None \notin Entries(o)
  /\ None \notin Assessments \cup Reviews
  /\ None \notin {"undecided", "yes", "no"}

Categories == {"priority", "other"}

TypeOK ==
  /\ rows \in [Statuses -> Assessments \cup {None}]
  /\ page \in ToSet(Elements) \cup {DraftPage, None}
  /\ review \in Reviews \cup {None}
  /\ offered \in BOOLEAN
  /\ history \in Seq(Responses)
  /\ \/ tip = None
     \/ /\ DOMAIN tip \subseteq Outcomes \X (Nat \ {0})
        /\ \A id \in DOMAIN tip : tip[id] \in [title : Titles, category : Categories]
  /\ rolled \in BOOLEAN
  /\ stale \in {"no", "yes", "used"}

Init ==
  /\ rows = [s \in Statuses |-> None]
  /\ page = None
  /\ review = None
  /\ offered = FALSE
  /\ history = <<>>
  /\ tip = None
  /\ rolled = FALSE
  /\ stale = "no"

---------------------------------------------------------------------------
(* The draft.                                                              *)

\* Bound: no draft is worked on once there is a review.
Drafting == review = None

draftOnly == <<review, offered, history, tip, rolled, stale>>

\* CreateAssessmentView.form_valid.
StartDraft(plan) ==
  /\ Drafting
  /\ rows["draft"] = None
  /\ rows' = [rows EXCEPT !["draft"] =
       [data |-> NoData, caf_profile |-> plan[1], review_type |-> plan[2], partial |-> FALSE]]
  /\ page' = DraftPage
  /\ UNCHANGED draftOnly

\* EditAssessmentView of the draft.
OpenDraft ==
  /\ Drafting
  /\ rows["draft"] # None
  /\ page' = DraftPage
  /\ UNCHANGED <<rows, draftOnly>>

WithDetails(a, plan) == [a EXCEPT !.caf_profile = plan[1], !.review_type = plan[2]]

\* EditAssessmentView.form_valid on the draft: the profile or the type is
\* posted, the other one is the session's, which may be of an earlier page.
EditDetails(plan) ==
  /\ Drafting
  /\ rows["draft"] # None
  /\ rows' = [rows EXCEPT !["draft"] = WithDetails(@, plan)]
  /\ page' = DraftPage
  /\ UNCHANGED draftOnly

\* The same in a session that still has the assessment that was submitted: the
\* address must be of a draft of the organisation, of any system; what is
\* loaded and saved is the assessment of the session, whatever its status.
\* Bounds: once, before the review is begun or when it is final.
EditSubmitted(plan) ==
  /\ stale = "yes"
  /\ review # None => ~ review.response.scope \/ review.finalised
  /\ plan # <<rows["submitted"].caf_profile, rows["submitted"].review_type>>
  /\ rows' = [rows EXCEPT !["submitted"] = WithDetails(@, plan)]
  /\ stale' = "used"
  /\ UNCHANGED <<page, review, offered, history, tip, rolled>>

At(type) == Drafting /\ page # None /\ page.type = type

OpenObjective(b) ==
  /\ At("draft")
  /\ page' = [type |-> "objective", code |-> b]
  /\ UNCHANGED <<rows, draftOnly>>

\* The successor is not looked at.
OpenSuccessor ==
  /\ At("objective")
  /\ page' = [type |-> "objective", code |-> NextObjective(page.code)]
  /\ UNCHANGED <<rows, draftOnly>>

\* ObjectiveView.form_valid, "confirm": the last objective has no successor.
OpenNextObjective ==
  /\ At("objective")
  /\ page' = IF NextObjective(page.code) = None
               THEN DraftPage
               ELSE [type |-> "objective", code |-> NextObjective(page.code)]
  /\ UNCHANGED <<rows, draftOnly>>

\* A link to the summary of the outcome instead.
OpenSummary(o) ==
  /\ At("objective")
  /\ page.code = ObjectiveOf(o)
  /\ page' = OutcomePages(o)[2]
  /\ UNCHANGED <<rows, draftOnly>>

\* The link of an outcome on the page of its objective.
OpenOutcome(o) ==
  /\ At("objective")
  /\ page.code = ObjectiveOf(o)
  /\ page' = OutcomePages(o)[1]
  /\ UNCHANGED <<rows, draftOnly>>

Answer(data) == rows' = [rows EXCEPT !["draft"].data = data]

\* OutcomeIndicatorsView.form_valid.
SaveIndicators(ticked, comments) ==
  /\ At("indicators")
  /\ ticked \in Picks[page.code]
  /\ Answer(SetIndicators(rows["draft"].data, page.code, ticked, comments))
  /\ page' = NextPage(page)
  /\ UNCHANGED draftOnly

\* OutcomeConfirmationView.form_valid, which goes back to the objective.
ConfirmOutcome ==
  /\ At("confirmation")
  /\ Answer(Confirm(rows["draft"].data, page.code))
  /\ page' = [type |-> "objective", code |-> ObjectiveOf(page.code)]
  /\ UNCHANGED draftOnly

\* ... and "back_to_achieved", which changes nothing.
BackToIndicators ==
  /\ At("confirmation")
  /\ page' = OutcomePages(page.code)[1]
  /\ UNCHANGED <<rows, draftOnly>>

NewReview(response) ==
  [status |-> "to_do", response |-> response, completed |-> FALSE, finalised |-> FALSE]

\* SectionConfirmationView.form_valid; a system has one submitted assessment in
\* a period.
Submit ==
  /\ Drafting
  /\ rows["draft"] # None
  /\ rows["submitted"] = None
  /\ IsComplete(rows["draft"].data)
  /\ rows' = [draft |-> None, submitted |-> rows["draft"]]
  /\ page' = None
  /\ review' = IF rows["draft"].review_type \in {"independent", "peer_review"}
                 THEN NewReview(NoResponse)
                 ELSE None
  /\ stale' = "yes"
  /\ UNCHANGED <<offered, history, tip, rolled>>

---------------------------------------------------------------------------
(* The imports of the back office.                                         *)

ImportedRow(book, plan) ==
  [data        |-> Parse(book),
   caf_profile |-> plan[1],
   review_type |-> plan[2],
   partial     |-> MissingRequired(book) # {}]

\* An import that looks for a draft only.
ImportOver(book, status, plan) ==
  /\ Drafting
  /\ Parse(book) # Refused
  /\ status = "draft" => rows["draft"] = None
  /\ rows' = [rows EXCEPT ![status] = ImportedRow(book, plan)]
  /\ UNCHANGED <<page, draftOnly>>

\* AssessmentAdmin.import_excel_view: blank required cells are shown on the
\* preview and accepted.  No review is made, whatever the status.
ImportAssessment(book, status, plan) ==
  /\ Drafting
  /\ Parse(book) # Refused
  /\ rows[status] = None
  /\ rows' = [rows EXCEPT ![status] = ImportedRow(book, plan)]
  /\ UNCHANGED <<page, draftOnly>>

Recorded(rv) == IF rv.status = "completed" THEN Append(history, rv.response) ELSE history

\* ReviewAdmin.import_excel_view: the review has both stamps, and no plan.
\* Bound: no draft is left, and its tab is closed.
ImportReview(book, status) ==
  LET new == [status |-> status, response |-> ImportedResponse(Parse(book)),
              completed |-> TRUE, finalised |-> TRUE]
  IN /\ Parse(book) # Refused
     /\ rows["submitted"] # None
     /\ review = None
     /\ rows["draft"] = None
     /\ review' = new
     /\ history' = Recorded(new)
     /\ page' = None
     /\ UNCHANGED <<rows, offered, tip, rolled, stale>>

---------------------------------------------------------------------------
(* The review.                                                             *)

Assessed == rows["submitted"]

\* Review.save: what is completed is not edited; the pages of the review are
\* linked once the scope is confirmed.
Open == review # None /\ review.status # "completed" /\ review.response.scope

\* Bound: after the first version only some outcomes are edited.
MayRework(o) == history # <<>> => o \in Reworked

Respond(response) ==
  /\ review' = [review EXCEPT !.response = response]
  /\ UNCHANGED <<rows, page, offered, history, tip, rolled, stale>>

\* SystemAndScopeView.form_valid.
SaveScope ==
  /\ review # None
  /\ review.status # "completed"
  /\ ~ review.response.scope
  /\ review' = [review EXCEPT !.response = ConfirmScope(@),
                              !.status = IF @ = "to_do" THEN "in_progress" ELSE @]
  /\ UNCHANGED <<rows, page, offered, history, tip, rolled, stale>>

\* OutcomeView.form_valid.
ReviewOutcome(o, decision) ==
  /\ Open
  /\ MayRework(o)
  /\ Respond(SetOutcomeReview(review.response, o, decision))

\* AddOutcomeRecommendationView.save_recommendations, before or after the
\* decision; all of them may have been deleted.
SaveRecommendations(o, titles) ==
  /\ Open
  /\ MayRework(o)
  /\ Respond(SetRecommendations(review.response, o, titles))

IsFilled(fill) ==
  IF fill[1] = None
    THEN fill[2] \in review.response.details
    ELSE fill[2] \in review.response.comments[fill[1]]

\* The next of the pages of comments and details, filled in one order (bound).
Fill(i) ==
  LET order == FillOrder[Assessed.review_type]
      fill  == order[i]
  IN /\ Open
     /\ i \in DOMAIN order
     /\ ~ IsFilled(fill)
     /\ \A j \in 1 .. i - 1 : IsFilled(order[j])
     /\ Respond(IF fill[1] = None
                  THEN SetAdditionalDetail(review.response, fill[2])
                  ELSE SetObjectiveComments(review.response, fill[1], fill[2]))

\* The summary links the create-report page when everything is there.
OpenReportPage ==
  /\ Open
  /\ ~ offered
  /\ IsReadyToSubmit(Assessed, review.response)
  /\ offered' = TRUE
  /\ UNCHANGED <<rows, page, review, history, tip, rolled, stale>>

\* CreateReportView.form_valid: mark_review_complete looks at the status only,
\* the review may have been edited since the page was opened.
MarkComplete ==
  LET new == [review EXCEPT !.status = "completed", !.completed = TRUE]
  IN /\ offered
     /\ review.status = "in_progress"
     /\ Len(history) < MaxRows
     /\ review' = new
     /\ history' = Recorded(new)
     /\ offered' = FALSE
     /\ UNCHANGED <<rows, page, tip, rolled, stale>>

IsReviewComplete == review # None /\ review.completed /\ review.status = "completed"

IsReviewFinalised == IsReviewComplete /\ review.finalised

\* A reopening of a report that is final.
ReopenAnyway ==
  /\ IsReviewComplete
  /\ review' = [review EXCEPT !.status = "in_progress", !.completed = FALSE]
  /\ UNCHANGED <<rows, page, offered, history, tip, rolled, stale>>

\* Review.reopen.
Reopen ==
  /\ IsReviewComplete
  /\ ~ IsReviewFinalised
  /\ review' = [review EXCEPT !.status = "in_progress", !.completed = FALSE]
  /\ UNCHANGED <<rows, page, offered, history, tip, rolled, stale>>

\* Review.finalise_review; a plan that is there already is kept.  Review.save
\* refuses it when the review is final.
Finalise ==
  LET new == [review EXCEPT !.finalised = TRUE]
  IN /\ IsReviewComplete
     /\ ~ IsReviewFinalised
     /\ Len(history) < MaxRows
     /\ review' = new
     /\ history' = Recorded(new)
     /\ tip' = IF tip = None THEN <<>> ELSE tip
     /\ UNCHANGED <<rows, page, offered, rolled, stale>>

\* Review.rollback_to_in_progress, for a superuser; the plan stays.
Rollback ==
  /\ review # None
  /\ review.status = "completed"
  /\ review' = [review EXCEPT !.status = "in_progress", !.completed = FALSE, !.finalised = FALSE]
  /\ rolled' = TRUE
  /\ UNCHANGED <<rows, page, offered, history, tip, stale>>

---------------------------------------------------------------------------
(* The plan.                                                               *)

Category(mode) == IF mode = "priority" THEN "priority" ELSE "other"

Planned(id, mode) == [title |-> TitleOf(review.response, id), category |-> Category(mode)]

\* RecommendationActionForm.save of a recommendation that is listed; the plan is
\* shown while its review is final.
SaveAction(id, mode) ==
  /\ tip # None
  /\ IsReviewFinalised
  /\ id \in ToSet(Listed(Assessed, review.response, mode))
  /\ tip' = [x \in DOMAIN tip \cup {id} |-> IF x = id THEN Planned(id, mode) ELSE tip[x]]
  /\ UNCHANGED <<rows, page, review, offered, history, rolled, stale>>

\* TipBulkReviewForm.save: the other recommendations that have no action yet.
BulkReview ==
  LET others == ToSet(Listed(Assessed, review.response, "normal"))
  IN /\ tip # None
     /\ IsReviewFinalised
     /\ tip' = [id \in DOMAIN tip \cup others |->
                  IF id \in DOMAIN tip THEN tip[id] ELSE Planned(id, "normal")]
     /\ UNCHANGED <<rows, page, review, offered, history, rolled, stale>>

---------------------------------------------------------------------------

DraftStep ==
  \/ \E plan \in Plans : StartDraft(plan)
  \/ OpenDraft
  \/ \E plan \in Plans : EditDetails(plan)
  \/ \E plan \in StalePlans : EditSubmitted(plan)
  \/ \E b \in ToSet(Objectives) : OpenObjective(b)
  \/ OpenNextObjective
  \/ \E o \in Outcomes : OpenOutcome(o)
  \/ \E ticked \in UNION {Picks[o] : o \in Outcomes}, comments \in Comments :
       SaveIndicators(ticked, comments)
  \/ ConfirmOutcome
  \/ BackToIndicators
  \/ Submit

ImportStep ==
  \/ \E book \in Books, s \in Statuses, plan \in Plans : ImportAssessment(book, s, plan)
  \/ \E book \in Books, s \in ImportStatuses : ImportReview(book, s)

ReviewStep ==
  \/ SaveScope
  \/ \E o \in Outcomes : \E decision \in Judgements[o] : ReviewOutcome(o, decision)
  \/ \E o \in Outcomes : \E titles \in RecommendationLists[Assessed.review_type][o] :
       SaveRecommendations(o, titles)
  \/ \E i \in DOMAIN FillOrder[Assessed.review_type] : Fill(i)
  \/ OpenReportPage
  \/ MarkComplete
  \/ Reopen
  \/ Finalise
  \/ Rollback

PlanStep ==
  \/ \E mode \in {"priority", "normal"} : \E id \in Ids(review.response) : SaveAction(id, mode)
  \/ BulkReview

Next ==
  \/ DraftStep
  \/ ImportStep
  \/ review # None /\ ReviewStep
  \/ review # None /\ PlanStep

Spec == Init /\ [][Next]_vars

---------------------------------------------------------------------------
(* The versions of the report.                                             *)

\* The rows of the history the other way round.
OldestFirst(h) ==
  LET Add(versions, row) ==
        IF versions # <<>> /\ row = Last(versions) THEN versions ELSE Append(versions, row)
  IN FoldLeft(Add, <<>>, h)

\* Review.all_versions: from the newest row on, those that differ from the one
\* before.
AllVersions(h) ==
  LET Add(versions, row) ==
        IF versions # <<>> /\ row = Last(versions) THEN versions ELSE Append(versions, row)
  IN FoldLeft(Add, <<>>, Reverse(h))

CurrentVersionNumber(h) == Len(AllVersions(h))

\* Numbered from the newest.
GetVersionFromNewest(h, n) == AllVersions(h)[n]

\* Review.get_version.
GetVersion(h, n) == Reverse(AllVersions(h))[n]

---------------------------------------------------------------------------
(* Properties.                                                             *)

\* A workbook filled in with the answers of a draft gives these answers back:
\* no two cells of the template are the same, and none is read as another
\* (build_assessment_template_workbook against _parse_excel).  The strict import
\* refuses it exactly when an outcome has no status yet.
RoundTrip ==
  rows["draft"] # None =>
    LET data == rows["draft"].data
        back == Parse(Filled(data))
    IN /\ back # Refused
       /\ \A o \in Outcomes :
            IF data[o] = None
              THEN back[o].ticked = {} /\ back[o].status = None
              ELSE back[o].ticked = data[o].ticked /\ back[o].status = data[o].status
       /\ ParseStrictly(Filled(data)) = Refused <=>
            \E o \in Outcomes : data[o] = None \/ data[o].status = None

\* The percentage of the templates (form_extras) and the completeness that lets
\* a draft be submitted (models) are worked out apart and agree.
ProgressIsHonest ==
  rows["draft"] # None =>
    (Percentage(rows["draft"].data) = 100 <=> IsComplete(rows["draft"].data))

\* The summary of an outcome is shown for answers that are there: the page would
\* fail on a missing entry (OutcomeConfirmationView.get_context_data).
PageHasAnswers ==
  At("confirmation") =>
    /\ rows["draft"] # None
    /\ rows["draft"].data[page.code] # None
    /\ rows["draft"].data[page.code].ticked # {}

\* What was answered when the assessment was submitted stays: nothing that
\* follows in the period, a second draft, imports and old sessions included,
\* replaces or empties it.  Its profile and its type stay as well, except for a
\* session that had it as its draft (EditAssessmentView.form_valid).
SubmittedAnswersStay ==
  [][rows["submitted"] # None =>
       LET was == rows["submitted"]
           is  == rows'["submitted"]
       IN /\ is # None /\ is.data = was.data /\ is.partial = was.partial
          /\ is = was \/ stale = "yes"]_rows

\* The report of a completed review can be built, whatever was edited between
\* the opening of the create-report page and its submission: each outcome has
\* a decision and a status to look up.  An assessment imported from a workbook
\* with blank statuses is the exception.
ReportCanBeBuilt ==
  review # None /\ review.status = "completed" /\ ~ Assessed.partial =>
    CanBeBuilt(Assessed.data, review.response)

\* A version that was made keeps its number and its content
\* ("Earlier versions of the report are saved for audit purposes").
VersionsAreKept ==
  [][\A n \in 1 .. CurrentVersionNumber(history) :
       GetVersion(history', n) = GetVersion(history, n)]_history

\* The last version of a completed review is the review itself, the one that is
\* announced as final (FinaliseReview.form_valid).
CompletedIsLatestVersion ==
  review # None /\ review.status = "completed" =>
    /\ history # <<>>
    /\ GetVersion(history, CurrentVersionNumber(history)) = review.response

\* Every recommendation of a completed review is in one of the two lists of the
\* report, the spreadsheet and the plan, once, whatever groups its title makes
\* (get_review_recommendations); and the table of the principles counts as met
\* the outcomes without a priority (get_principle_profile_status).
EveryRecommendationListedOnce ==
  review # None /\ review.status = "completed" =>
    LET r          == review.response
        all        == Listed(Assessed, r, "all")
        tab        == RecommendationsTab(Assessed, r)
        priorities == {id[1] : id \in ToSet(Listed(Assessed, r, "priority"))}
    IN /\ IsInjective(all) /\ IsInjective(tab)
       /\ ToSet(all) = Ids(r) /\ ToSet(tab) = Ids(r)
       /\ \A p \in Principles : PrincipleStatus(Assessed, r, p).review \cap priorities = {}

\* The page of an objective marks an outcome as in need of recommendations
\* (review_tags) exactly when the review cannot be completed without them
\* (models), so that nobody is sent round in circles.
RequiredIsAsked ==
  review # None =>
    \A o \in Outcomes :
      LET entry == review.response.outcomes[o]
      IN IsOutcomeComplete(Assessed, o, entry) <=>
           /\ entry.decision \in Levels
           /\ RecommendationsRequired(Assessed, review.response, o) => entry.recommendations # <<>>

\* An action of the plan is about the recommendation its number stands for, and
\* under the category it has, as long as the back office did not reopen the
\* review: the numbers are positions, they are stable only because a final
\* review is closed.  The category is measured by the profile, which an old
\* session may change.
ActionsFitUntilRollback ==
  tip # None /\ ~ rolled =>
    \A id \in DOMAIN tip :
      /\ id \in Ids(review.response)
      /\ tip[id].title = TitleOf(review.response, id)
      /\ stale # "used" =>
           tip[id].category = Category(IF InMode(Assessed, review.response, id[1], "priority")
                                         THEN "priority" ELSE "normal")

\* A review that may be made into a report shows as complete: all of it for an
\* independent review, all but the two areas that nothing asks for when it is
\* a peer review (get_review_completed_percentage against is_ready_to_submit).
ReviewProgressIsHonest ==
  review # None /\ IsReadyToSubmit(Assessed, review.response) =>
    IF Assessed.review_type = "peer_review"
      THEN ReviewPercentage(Assessed, review.response) >= 97
      ELSE ReviewPercentage(Assessed, review.response) = 100

\* "This view is used to display a detailed report of a specific review in a
\* particular version" (ShowReportView, of which DownloadExcelReport is one):
\* the outcomes in the spreadsheet of a version are those of the version.
DownloadIsOfOneVersion ==
  \A n \in 1 .. CurrentVersionNumber(history) :
    LET shown == GetVersion(history, n)
    IN OutcomesTab(shown, review.response) = [o \in Outcomes |-> shown.outcomes[o].decision]

=============================================================================
