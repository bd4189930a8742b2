---------------------------- MODULE ReviewReport ----------------------------
(***************************************************************************)
(* The response of an assessor (assessor_response_data of a Review) and    *)
(* the reports made of it: what is still missing, the percentage, the      *)
(* recommendations with their numbers and their groups, the tabs of the    *)
(* spreadsheets.  A recommendation is its title, which names the risk it   *)
(* is about; its text is left out.                                         *)
(***************************************************************************)
EXTENDS Framework, FiniteSets

CONSTANT Titles   \* the titles (risks) recommendations are given

\* review_decision: a level; "undecided" for the empty value of an import of a
\* workbook with a blank status; None when the outcome has no review_data.
Decisions == Levels \cup {"undecided", None}

CommentKinds == {"objective-areas-of-improvement", "objective-areas-of-good-practice"}

NeededDetails == {"iar_period", "quality_of_evidence", "review_method", "company_details"}

AreaDetails == {"areas_of_good_practice", "areas_for_improvement"}

Responses ==
  [outcomes : [Outcomes -> [decision : Decisions, recommendations : Seq(Titles)]],
   comments : [ToSet(Objectives) -> SUBSET CommentKinds],
   scope    : BOOLEAN,
   details  : SUBSET (NeededDetails \cup AreaDetails)]

\* What a Review is created with: get_assessor_response makes an empty one.
NoResponse ==
  [outcomes |-> [o \in Outcomes |-> [decision |-> None, recommendations |-> <<>>]],
   comments |-> [b \in ToSet(Objectives) |-> {}],
   scope    |-> FALSE,
   details  |-> {}]

\* The choices of the outcome form of the assessor.
DecisionsFor(o) ==
  IF Len(StatementsOf[o]["partially-achieved"]) > 0
    THEN Levels
    ELSE {"achieved", "not-achieved"}

SetOutcomeReview(r, o, decision) == [r EXCEPT !.outcomes[o].decision = decision]

SetRecommendations(r, o, titles) == [r EXCEPT !.outcomes[o].recommendations = titles]

SetObjectiveComments(r, b, kind) == [r EXCEPT !.comments[b] = @ \cup {kind}]

SetAdditionalDetail(r, key) == [r EXCEPT !.details = @ \cup {key}]

ConfirmScope(r) == [r EXCEPT !.scope = TRUE]

\* assessment_json_to_review_data: an answer for every outcome, every key
\* present, the scope not confirmed.
ImportedResponse(data) ==
  [outcomes |-> [o \in Outcomes |->
                   [decision        |-> IF data[o].status = None THEN "undecided" ELSE data[o].status,
                    recommendations |-> <<>>]],
   comments |-> [b \in ToSet(Objectives) |-> CommentKinds],
   scope    |-> FALSE,
   details  |-> NeededDetails \cup AreaDetails]

---------------------------------------------------------------------------
(* Progress of the review of an assessment a (its profile and its type).   *)

\* Nothing is asked of an outcome that has recommendations.
RecommendedIsComplete(a, o, entry) ==
  \/ entry.recommendations # <<>>
  \/ IF a.review_type = "peer_review"
       THEN ProfileMet(o, a.caf_profile, entry.decision)
       ELSE entry.decision = "achieved"

\* The profile decides for reviews of any type.
CompleteByProfile(a, o, entry) ==
  /\ entry.decision \in Levels
  /\ entry.recommendations # <<>> \/ ProfileMet(o, a.caf_profile, entry.decision)

\* Review._is_outcome_complete.
IsOutcomeComplete(a, o, entry) ==
  /\ entry.decision \in Levels
  /\ \/ entry.recommendations # <<>>
     \/ IF a.review_type = "peer_review"
          THEN ProfileMet(o, a.caf_profile, entry.decision)
          ELSE entry.decision = "achieved"

CompletedOutcomes(a, r) == {o \in Outcomes : IsOutcomeComplete(a, o, r.outcomes[o])}

\* Review.is_objective_complete: peer reviews have no comments on objectives.
IsReviewObjectiveComplete(a, r, b) ==
  /\ a.review_type # "peer_review" => r.comments[b] = CommentKinds
  /\ OutcomesOfObjective(b) \subseteq CompletedOutcomes(a, r)

\* Only the outcomes and the scope are looked at.
ReadyWithoutDetails(a, r) ==
  /\ \A b \in ToSet(Objectives) : IsReviewObjectiveComplete(a, r, b)
  /\ r.scope

\* Review.is_ready_to_submit.
IsReadyToSubmit(a, r) ==
  /\ \A b \in ToSet(Objectives) : IsReviewObjectiveComplete(a, r, b)
  /\ r.scope
  /\ NeededDetails \subseteq r.details

\* get_review_completed_percentage: 90 for the outcomes, the rest for the
\* scope and the details, 2 each, or 1.4 each of 7 rounded for a peer review.
ReviewPercentage(a, r) ==
  LET outcomes == (90 * Cardinality(CompletedOutcomes(a, r))) \div Cardinality(Outcomes)
      scope    == IF r.scope THEN 1 ELSE 0
      all      == scope + Cardinality(r.details)
      needed   == scope + Cardinality(r.details \cap NeededDetails)
  IN IF a.review_type = "peer_review"
       THEN outcomes + (14 * all + 5) \div 10
       ELSE outcomes + 2 * needed

---------------------------------------------------------------------------
(* The report.                                                             *)

\* The lookups of the report fail (KeyError) unless every outcome has its
\* review_data and every outcome of the assessment its outcome_status.
CanBeBuilt(data, r) ==
  \A o \in Outcomes :
    /\ r.outcomes[o].decision # None
    /\ data[o] # None /\ data[o].status # None

\* get_principle_profile_status: how many outcomes of a principle meet what
\* the profile asks, by the assessment and by the review.
PrincipleStatus(a, r, p) ==
  LET all == ToSet(OutcomesOf[p])
      byAssessment == {o \in all : ProfileMet(o, a.caf_profile, a.data[o].status)}
      byReview     == {o \in all : ProfileMet(o, a.caf_profile, r.outcomes[o].decision)}
  IN [total |-> Cardinality(all), assessment |-> byAssessment, review |-> byReview]

\* A priority is a recommendation about an outcome that was not achieved.
PriorityByDecision(a, r, o, mode) ==
  LET met == r.outcomes[o].decision # "not-achieved"
  IN CASE mode = "priority" -> ~ met
       [] mode = "normal"   -> met /\ r.outcomes[o].decision = "achieved"
       [] mode = "all"      -> TRUE

\* get_review_recommendations: the outcomes whose recommendations are asked for.
InMode(a, r, o, mode) ==
  LET met == ProfileMet(o, a.caf_profile, r.outcomes[o].decision)
  IN CASE mode = "priority" -> ~ met
       [] mode = "normal"   -> met
       [] mode = "all"      -> TRUE

\* A recommendation is known by its outcome and its position, "REC-A1A1".
Ids(r) == UNION {{o} \X (DOMAIN r.outcomes[o].recommendations) : o \in Outcomes}

TitleOf(r, id) == r.outcomes[id[1]].recommendations[id[2]]

\* The members of a finite set in an order, which is a set of pairs: the n-th
\* has n - 1 before it.
InOrder(S, before) ==
  [n \in 1 .. Cardinality(S) |->
     CHOOSE x \in S : Cardinality({y \in S : <<y, x>> \in before}) = n - 1]

Ascending == {pair \in Nat \X Nat : pair[1] < pair[2]}

\* The recommendations of an outcome with the title of the i-th, by position.
SameTitle(recs, i) == {j \in DOMAIN recs : recs[j] = recs[i]}

\* Where a title comes first: each of these positions begins a group.
Firsts(recs) == {i \in DOMAIN recs : \A j \in 1 .. i - 1 : recs[j] # recs[i]}

\* The larger group first; sorted() keeps the order of equals.
LargerFirst(recs) ==
  {pair \in (DOMAIN recs) \X (DOMAIN recs) :
     LET size  == Cardinality(SameTitle(recs, pair[1]))
         other == Cardinality(SameTitle(recs, pair[2]))
     IN size > other \/ (size = other /\ pair[1] < pair[2])}

GroupsOf(r, o) ==
  LET recs   == r.outcomes[o].recommendations
      firsts == InOrder(Firsts(recs), LargerFirst(recs))
      Group(i) == LET places == InOrder(SameTitle(recs, i), Ascending)
                  IN [n \in DOMAIN places |-> <<o, places[n]>>]
  IN [n \in DOMAIN firsts |-> Group(firsts[n])]

\* The groups of every outcome in turn; a group is shown with its place.
Groups(a, r, mode) ==
  FlattenSeq([n \in DOMAIN OutcomeOrder |->
    IF InMode(a, r, OutcomeOrder[n], mode) THEN GroupsOf(r, OutcomeOrder[n]) ELSE <<>>])

\* The numbers of the recommendations as they are listed in a mode.
Listed(a, r, mode) == FlattenSeq(Groups(a, r, mode))

\* recommendations_required: what the summary of an objective asks for.
RecommendationsRequired(a, r, o) ==
  LET decision == r.outcomes[o].decision
  IN /\ decision \in Levels
     /\ IF a.review_type = "peer_review"
          THEN ~ ProfileMet(o, a.caf_profile, decision)
          ELSE decision # "achieved"

---------------------------------------------------------------------------
(* The spreadsheet of a version: shown is the response of the version,     *)
(* stored the one of the review as it is now.                              *)

\* _add_outcome_summary_tab and _add_indicator_tab: they find the review again
\* through its assessment.
OutcomesTab(shown, stored) == [o \in Outcomes |-> stored.outcomes[o].decision]

\* _add_recommendations_tab: the priority ones, then the others.
RecommendationsTab(a, shown) == Listed(a, shown, "priority") \o Listed(a, shown, "normal")

=============================================================================
