-------------------------- MODULE ReviewLifecycle --------------------------
(***************************************************************************)
(* What a review promises to the people who work on it, with no requests   *)
(* and no copies: one review, every operation applied in one step to its   *)
(* current content.  Assessors and reviewers edit it while it is open,     *)
(* completing it closes it, only a reopening opens it again, and           *)
(* finalising it closes it for good.                                       *)
(***************************************************************************)
EXTENDS ReviewData

VARIABLE review

Init == review = NewReview

EditSection(s, t) ==
  /\ review.status # "completed"
  /\ review' = SetSection(review, s, t)

ConfirmScope(system) ==
  /\ review.status # "completed"
  /\ review' = ConfirmSystemAndScope(review, system)

NoteSystemChange ==
  /\ review.status # "completed"
  /\ review' = RecordSystemChange(review)

Complete(who) ==
  /\ review.status = "in_progress"
  /\ review' = MarkReviewComplete(review, who)

ReopenReport ==
  /\ IsReviewComplete(review)
  /\ ~ IsReviewFinalised(review)
  /\ review' = Reopen(review)

Finalise(who) ==
  /\ IsReviewComplete(review)
  /\ ~ IsReviewFinalised(review)
  /\ review' = FinaliseReview(review, who)

Next ==
  \/ \E s \in Sections, t \in Texts : EditSection(s, t)
  \/ \E system \in Systems : ConfirmScope(system)
  \/ NoteSystemChange
  \/ \E who \in Requests : Complete(who) \/ Finalise(who)
  \/ ReopenReport

Spec == Init /\ [][Next]_review

=============================================================================
