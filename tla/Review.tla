------------------------------- MODULE Review -------------------------------
(***************************************************************************)
(* One review as the web application runs it: a row of the database, and   *)
(* HTTP requests that each load an instance of it, change the instance in  *)
(* memory and save the whole row back.                                     *)
(*                                                                         *)
(* Review.save reads the stored row again (`old`), refuses the save if a   *)
(* closed review would change, if the instance may not be edited or if     *)
(* last_updated is not the one the instance was loaded with, and then      *)
(* issues an UPDATE by primary key.  Gunicorn runs five worker processes   *)
(* and the database runs at READ COMMITTED without row locks, so another   *)
(* request can write between the read of `old` and the UPDATE: the check   *)
(* (CheckSave) and the write (WriteRow) are two steps.                     *)
(*                                                                         *)
(* SerialSaves says what is assumed of the environment.  FALSE is the      *)
(* deployed system.  TRUE restricts it to behaviours in which no two saves *)
(* overlap, whatever the requests do before and after, and shows what the  *)
(* optimistic lock is worth then.                                          *)
(*                                                                         *)
(* A worker that is killed (gunicorn's timeout) is a request that takes no *)
(* further step.                                                           *)
(***************************************************************************)
EXTENDS ReviewData

CONSTANTS
  ReadOnly,     \* requests of organisation leads: can_edit is False on them
  SerialSaves,  \* no other save between one save's check and its write
  MaxWrites     \* bound: requests start only after fewer writes than this

ASSUME ReviewAssumption ==
  /\ ReadOnly \subseteq Requests
  /\ SerialSaves \in BOOLEAN
  /\ MaxWrites \in Nat

VARIABLES
  row,      \* the stored review
  updated,  \* its last_updated: a time stamp no two writes share
  system,   \* the stored System the review is about
  tip,      \* a Tip row exists for the review
  req       \* the requests in progress, each with the instance it loaded

vars == <<row, updated, system, tip, req>>

\* What the request will do to the instance it loaded.
Operations ==
       [kind : {"none", "touch", "system", "complete", "reopen", "finalise",
                "page", "unfinalise"}]
  \cup [kind : {"edit"}, section : Sections, text : Texts]
  \cup [kind : {"confirm"}, system : Systems]
  \cup [kind : {"admin_save"}, status : Statuses]

\* idle: no request; page: an admin change form is open in a browser;
\* finalising: FinaliseReview has loaded the review and not created the Tip;
\* rereading: the System is saved and the review not loaded yet;
\* ready: the instance is changed and save() is called; checked: save() has
\* passed its checks; touched: the first of two saves is done.
Phases == {"idle", "page", "finalising", "rereading", "ready", "checked", "touched"}

RequestRecords ==
  [pc : Phases, op : Operations, base : ReviewRecords, stamp : Nat]

NoRequest == [pc |-> "idle", op |-> [kind |-> "none"], base |-> NewReview, stamp |-> 0]

TypeOK ==
  /\ row \in ReviewRecords
  /\ updated \in Nat
  /\ system \in Systems
  /\ tip \in BOOLEAN
  /\ req \in [Requests -> RequestRecords]

Init ==
  /\ row = NewReview
  /\ updated = 1
  /\ system \in Systems
  /\ tip = FALSE
  /\ req = [r \in Requests |-> NoRequest]

-----------------------------------------------------------------------------
(* Loading.  The instance is loaded when the POST is handled, not when the *)
(* page was shown: get_object of the view.                                 *)

Load(r, op, pc) ==
  /\ req[r].pc = "idle"
  /\ updated < MaxWrites
  /\ req' = [req EXCEPT ![r] =
               [pc |-> pc, op |-> op, base |-> row, stamp |-> updated]]
  /\ UNCHANGED <<row, updated, system, tip>>

\* OutcomeView, AddOutcomeRecommendationView and the comment views: one section
\* of the assessor response is replaced.  None of them looks at the status.
EditSection(r, section, text) ==
  Load(r, [kind |-> "edit", section |-> section, text |-> text], "ready")

\* SystemAndScopeView.form_valid saves the unchanged instance first ...
SystemAndScope(r) == Load(r, [kind |-> "touch"], "ready")

\* ... then reads the System, and calls save() a second time.
ReadSummary(r) ==
  /\ req[r].pc = "touched"
  /\ req' = [req EXCEPT ![r].pc = "ready",
                        ![r].op = [kind |-> "confirm", system |-> system]]
  /\ UNCHANGED <<row, updated, system, tip>>

\* CreateReportView.form_valid: mark_review_complete raises unless in progress.
CreateReport(r) ==
  /\ row.status = "in_progress"
  /\ Load(r, [kind |-> "complete"], "ready")

\* A reopening that does not ask whether the review is finalised.
CanReopenComplete(rv) == IsReviewComplete(rv)

CanReopen(rv) == IsReviewComplete(rv) /\ ~ IsReviewFinalised(rv)

\* ReopenReviewView.form_valid and reopen().
ReopenReview(r) ==
  /\ CanReopen(row)
  /\ Load(r, [kind |-> "reopen"], "ready")

\* FinaliseReview.form_valid: only a complete review; a review that is already
\* finalised is not turned away here but by save().  The view is for reviewers
\* and assessors only, the other views let an organisation lead in.
FinaliseReport(r) ==
  /\ r \notin ReadOnly
  /\ IsReviewComplete(row)
  /\ Load(r, [kind |-> "finalise"], "finalising")

\* finalise_review that only stamps the instance.
StampWithoutTip(r) ==
  /\ req[r].pc = "finalising"
  /\ req' = [req EXCEPT ![r].pc = "ready"]
  /\ UNCHANGED <<row, updated, system, tip>>

\* finalise_review is a transaction of its own: the Tip is committed (and the
\* organisation is told) before the review is saved.
CreateTip(r) ==
  /\ req[r].pc = "finalising"
  /\ tip' = TRUE
  /\ req' = [req EXCEPT ![r].pc = "ready"]
  /\ UNCHANGED <<row, updated, system>>

\* EditReviewSystemView.form_valid: the System is saved and committed first ...
SaveSystem(r, to) ==
  /\ req[r].pc = "idle"
  /\ updated < MaxWrites
  /\ to # system
  /\ system' = to
  /\ req' = [req EXCEPT ![r] =
               [NoRequest EXCEPT !.pc = "rereading", !.op = [kind |-> "system"]]]
  /\ UNCHANGED <<row, updated, tip>>

\* ... then record_change loads the review and notes the change on it.
RecordChange(r) ==
  /\ req[r].pc = "rereading"
  /\ req' = [req EXCEPT ![r].pc = "ready", ![r].base = row, ![r].stamp = updated]
  /\ UNCHANGED <<row, updated, system, tip>>

-----------------------------------------------------------------------------
(* Saving.                                                                 *)

\* The instance as it stands when save() is called on it.
Result(r) ==
  LET rv == req[r].base
      op == req[r].op
  IN CASE op.kind = "edit"       -> SetSection(rv, op.section, op.text)
       [] op.kind = "confirm"    -> ConfirmSystemAndScope(rv, op.system)
       [] op.kind = "system"     -> RecordSystemChange(rv)
       [] op.kind = "complete"   -> MarkReviewComplete(rv, r)
       [] op.kind = "reopen"     -> Reopen(rv)
       [] op.kind = "finalise"   -> FinaliseReview(rv, r)
       [] op.kind = "admin_save" -> [rv EXCEPT !.status = op.status]
       [] op.kind = "unfinalise" -> RollbackToInProgress(rv)
       [] OTHER                  -> rv

\* can_edit is set by get_object of the review views: record_change and the
\* back office load their instance without it, and save() checks it only when
\* it is there.
CanEdit(r) ==
  \/ r \notin ReadOnly
  \/ req[r].op.kind \in {"system", "admin_save", "unfinalise"}

\* save() without the comparison of last_updated.
SaveWithoutLock(r) == ~ ChangesClosedReview(row, Result(r)) /\ CanEdit(r)

\* save() without the comparison of can_edit.
SaveByAnyone(r) == ~ ChangesClosedReview(row, Result(r)) /\ req[r].stamp = updated

\* The checks of save(), against the row stored when they are made.
SaveAllowed(r) ==
  /\ ~ ChangesClosedReview(row, Result(r))
  /\ CanEdit(r)
  /\ req[r].stamp = updated

CheckSave(r) ==
  /\ req[r].pc = "ready"
  /\ SerialSaves => \A q \in Requests : req[q].pc # "checked"
  /\ SaveAllowed(r)
  /\ req' = [req EXCEPT ![r].pc = "checked"]
  /\ UNCHANGED <<row, updated, system, tip>>

\* ValidationError: the form is shown again (or the request fails), nothing is
\* undone of what the request did before.
RefuseSave(r) ==
  /\ req[r].pc = "ready"
  /\ ~ SaveAllowed(r)
  /\ req' = [req EXCEPT ![r] = NoRequest]
  /\ UNCHANGED <<row, updated, system, tip>>

\* The UPDATE: every column, whatever is stored by now.
WriteRow(r) ==
  /\ req[r].pc = "checked"
  /\ req[r].op.kind # "touch"
  /\ row' = Result(r)
  /\ updated' = updated + 1
  /\ req' = [req EXCEPT ![r] = NoRequest]
  /\ UNCHANGED <<system, tip>>

\* The first save of SystemAndScopeView; save() then remembers the new
\* last_updated, so the second save of the instance is not stale by itself.
WriteTouch(r) ==
  /\ req[r].pc = "checked"
  /\ req[r].op.kind = "touch"
  /\ row' = Result(r)
  /\ updated' = updated + 1
  /\ req' = [req EXCEPT ![r].pc = "touched", ![r].stamp = updated + 1]
  /\ UNCHANGED <<system, tip>>

Save(r) == CheckSave(r) \/ RefuseSave(r) \/ WriteRow(r) \/ WriteTouch(r)

FrontendStep(r) ==
  \/ \E section \in Sections, text \in Texts : EditSection(r, section, text)
  \/ SystemAndScope(r)
  \/ ReadSummary(r)
  \/ CreateReport(r)
  \/ ReopenReview(r)
  \/ FinaliseReport(r)
  \/ CreateTip(r)
  \/ \E to \in Systems : SaveSystem(r, to)
  \/ RecordChange(r)
  \/ Save(r)

Next == \E r \in Requests : FrontendStep(r)

Spec == Init /\ [][Next]_vars

-----------------------------------------------------------------------------
(* The back office.  A superuser opens the change form of the review: the  *)
(* page carries the whole content.  When it is posted back the instance is *)
(* loaded anew and overwritten with what the page carried, so that the     *)
(* time stamp compared by save() is the one of the POST.                   *)

OpenChangeForm(r) == Load(r, [kind |-> "page"], "page")

PostChangeForm(r, op) ==
  /\ req[r].pc = "page"
  /\ req' = [req EXCEPT ![r].pc = "ready", ![r].op = op, ![r].stamp = updated]
  /\ UNCHANGED <<row, updated, system, tip>>

SubmitChangeForm(r, status) == PostChangeForm(r, [kind |-> "admin_save", status |-> status])

\* "Un Finalise" is offered on the page of a finalised review.
UnFinalise(r) ==
  /\ IsReviewFinalised(req[r].base)
  /\ PostChangeForm(r, [kind |-> "unfinalise"])

BackOffice(r) ==
  \/ OpenChangeForm(r)
  \/ \E status \in Statuses : SubmitChangeForm(r, status)
  \/ UnFinalise(r)

BackOfficeNext == \E r \in Requests : FrontendStep(r) \/ BackOffice(r)

BackOfficeSpec == Init /\ [][BackOfficeNext]_vars

-----------------------------------------------------------------------------
(* Properties.                                                             *)

\* A review says who completed it exactly while it is completed: no stale copy
\* written back, and no reopening, separates the status column from the
\* review_completion entry of review_data.
CompletionRecorded == row.completion # None <=> row.status = "completed"

\* A review stamped as finalised is closed and has the Tip its organisation
\* works on, whatever requests overlap (FinaliseReview, finalise_review).
FinalisedHasTip == row.finalised # None => row.status = "completed" /\ tip

\* The part of it that survives the back office, which can set the status of
\* a finalised review to anything and rolls it back without deleting the Tip.
StampedHasTip == row.finalised # None => tip

\* The requests that are about to write, or have just been refused.
Ends(r) == req[r].pc \in {"ready", "checked"} /\ req'[r].pc = "idle"

\* Of a review a lead writes nothing of its own: its save is refused, or it is
\* the note of a changed System on the current row, which also withdraws the
\* confirmation of the scope, and never on a completed review.  The repository's
\* README (39-46) makes leads read-only; EditReviewSystemView does not: its
\* get_object marks the System and not the review (views/assessor/review.py:383).
LeadsOnlyNoteChanges ==
  [][\A r \in ReadOnly : Ends(r) =>
       \/ row' = row
       \/ row.status # "completed" /\ row' = RecordSystemChange(row)]_vars

\* A finalised review is never rewritten: a save that leaves it completed
\* stores exactly what was there (Review.save refuses any other), also when a
\* superuser posts back a page opened before the review was finalised.
FinalisedNeverRewritten ==
  [][IsReviewFinalised(row) /\ row' # row => row'.status # "completed"]_vars

\* A completed review changes only by being finalised or reopened: "ensures
\* that the review_data field cannot be modified if the status field is
\* already marked as completed" (Review.save).
CompletedOnlyReopens ==
  [][row.status = "completed" /\ row' # row =>
       \/ row' = Reopen(row)
       \/ \E who \in Requests : row' = FinaliseReview(row, who)]_vars

\* The stored row follows the lifecycle of a review on which every operation
\* is applied in one step to its current content.
Lifecycle == INSTANCE ReviewLifecycle WITH review <- row

RefinesLifecycle == Lifecycle!Spec

=============================================================================
