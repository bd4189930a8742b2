----------------------------- MODULE ReviewData -----------------------------
(***************************************************************************)
(* The content of one Review row (class Review, webcaf/models.py) and the  *)
(* in-memory methods that change it.  Everything here works on a loaded    *)
(* instance: no operator of this module touches the database.              *)
(*                                                                         *)
(* review_data is a JSON document; what the rest of the program tells      *)
(* apart in it is kept as fields of the record:                            *)
(*   response    assessor_response_data: one entry per section an assessor *)
(*               edits on a page of its own (an outcome review, a list of  *)
(*               recommendations, objective comments, additional detail)   *)
(*   scope       system_and_scope.completed_data: the System details that  *)
(*               were confirmed, None when "completed" is not "yes"        *)
(*   actions     assessor_actions.records: how many entries were appended  *)
(*   completion  review_completion: the request that completed the report  *)
(*   finalised   review_finalised: the request that finalised the report   *)
(***************************************************************************)
EXTENDS Naturals

CONSTANTS
  Requests,   \* the HTTP requests that may be in progress on the review
  Sections,   \* the independently edited sections of the assessor response
  Texts,      \* the contents a section can be given
  Systems,    \* the values of the System the review is about
  None        \* an absent entry of the JSON document

ASSUME NoneAssumption ==
  None \notin Requests \cup Texts \cup Systems

Statuses == {"to_do", "in_progress", "clarify", "completed", "cancelled"}

ReviewRecords ==
  [status     : Statuses,
   response   : [Sections -> Texts \cup {None}],
   scope      : Systems \cup {None},
   actions    : Nat,
   completion : Requests \cup {None},
   finalised  : Requests \cup {None}]

\* A review as Review.objects.get_or_create leaves it: default status, {} data.
NewReview ==
  [status     |-> "to_do",
   response   |-> [s \in Sections |-> None],
   scope      |-> None,
   actions    |-> 0,
   completion |-> None,
   finalised  |-> None]

-----------------------------------------------------------------------------
(* Predicates of a loaded instance.                                        *)

IsReviewComplete(rv) == rv.completion # None /\ rv.status = "completed"

IsReviewFinalised(rv) == IsReviewComplete(rv) /\ rv.finalised # None

SameAssessorResponse(rv, other) ==
  /\ rv.response = other.response
  /\ rv.scope = other.scope
  /\ rv.actions = other.actions

-----------------------------------------------------------------------------
(* Mutators of a loaded instance.                                          *)

SetSection(rv, section, text) == [rv EXCEPT !.response[section] = text]

ConfirmSystemAndScope(rv, system) ==
  [rv EXCEPT !.scope = system,
             !.status = IF @ = "to_do" THEN "in_progress" ELSE @]

RecordSystemChange(rv) == [rv EXCEPT !.actions = @ + 1, !.scope = None]

\* The label the status is shown with ("Closed") instead of its value.
CloseByLabel(rv, who) == [rv EXCEPT !.completion = who, !.status = "closed"]

MarkReviewComplete(rv, who) ==
  [rv EXCEPT !.completion = who, !.status = "completed"]

\* The completion entry survives the reopening.
ReopenKeepingCompletion(rv) == [rv EXCEPT !.status = "in_progress"]

Reopen(rv) == [rv EXCEPT !.completion = None, !.status = "in_progress"]

FinaliseReview(rv, who) == [rv EXCEPT !.finalised = who]

RollbackToInProgress(rv) ==
  [rv EXCEPT !.completion = None, !.finalised = None, !.status = "in_progress"]

-----------------------------------------------------------------------------
(* The three checks of Review.save between reading `old` and writing.      *)

\* Only the completion entry and the assessor response are compared.
ChangesClosedContent(old, new) ==
  /\ old.status = "completed"
  /\ new.status = "completed"
  /\ \/ new.completion # old.completion
     \/ ~ SameAssessorResponse(new, old)

ChangesClosedReview(old, new) ==
  /\ old.status = "completed"
  /\ new.status = "completed"
  /\ \/ new.completion # old.completion
     \/ ~ SameAssessorResponse(new, old)
     \/ IsReviewFinalised(old)

=============================================================================
