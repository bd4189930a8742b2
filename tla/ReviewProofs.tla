---------------------------- MODULE ReviewProofs ----------------------------
(***************************************************************************)
(* What Review promises for every number of requests, sections, texts and  *)
(* systems, and every bound on the writes.  The first part holds however   *)
(* saves overlap; the second assumes SerialSaves.                          *)
(***************************************************************************)
EXTENDS Review, TLAPS

-----------------------------------------------------------------------------
(* Types.                                                                  *)

\* The mutators take reviews to reviews.
LEMMA MutatorTypes ==
  ASSUME NEW rv \in ReviewRecords
  PROVE  /\ \A s \in Sections, t \in Texts : SetSection(rv, s, t) \in ReviewRecords
         /\ \A sys \in Systems : ConfirmSystemAndScope(rv, sys) \in ReviewRecords
         /\ RecordSystemChange(rv) \in ReviewRecords
         /\ \A r \in Requests : MarkReviewComplete(rv, r) \in ReviewRecords
         /\ Reopen(rv) \in ReviewRecords
         /\ \A r \in Requests : FinaliseReview(rv, r) \in ReviewRecords
         /\ \A st \in Statuses : [rv EXCEPT !.status = st] \in ReviewRecords
         /\ RollbackToInProgress(rv) \in ReviewRecords
  <1>1. /\ rv.response \in [Sections -> Texts \cup {None}]
        /\ rv.actions \in Nat
    BY DEF ReviewRecords
  <1>2. ASSUME NEW s \in Sections, NEW t \in Texts
        PROVE  SetSection(rv, s, t) \in ReviewRecords
    <2>1. [rv.response EXCEPT ![s] = t] \in [Sections -> Texts \cup {None}]
      BY <1>1
    <2> QED
      BY <2>1 DEF ReviewRecords, SetSection
  <1>3. ASSUME NEW sys \in Systems
        PROVE  ConfirmSystemAndScope(rv, sys) \in ReviewRecords
    BY DEF ReviewRecords, Statuses, ConfirmSystemAndScope
  <1>4. RecordSystemChange(rv) \in ReviewRecords
    <2>1. PICK n \in Nat : n = rv.actions + 1
      BY <1>1
    <2>2. [rv EXCEPT !.actions = n, !.scope = None] \in ReviewRecords
      BY DEF ReviewRecords
    <2> QED
      BY <2>1, <2>2 DEF RecordSystemChange
  <1>5. ASSUME NEW r \in Requests
        PROVE  /\ MarkReviewComplete(rv, r) \in ReviewRecords
               /\ FinaliseReview(rv, r) \in ReviewRecords
    BY DEF ReviewRecords, Statuses, MarkReviewComplete, FinaliseReview
  <1>6. Reopen(rv) \in ReviewRecords /\ RollbackToInProgress(rv) \in ReviewRecords
    BY DEF ReviewRecords, Statuses, Reopen, RollbackToInProgress
  <1>7. ASSUME NEW st \in Statuses
        PROVE  [rv EXCEPT !.status = st] \in ReviewRecords
    BY DEF ReviewRecords
  <1> QED
    BY <1>2, <1>3, <1>4, <1>5, <1>6, <1>7

LEMMA NewReviewType == NewReview \in ReviewRecords
  BY DEF NewReview, ReviewRecords, Statuses

\* What an operation carries, by its kind.
LEMMA OperationFields ==
  ASSUME NEW op \in Operations
  PROVE  /\ op.kind = "edit" => op.section \in Sections /\ op.text \in Texts
         /\ op.kind = "confirm" => op.system \in Systems
         /\ op.kind = "admin_save" => op.status \in Statuses
  BY DEF Operations

\* What a request would store is a review.
LEMMA ResultType ==
  ASSUME TypeOK, NEW r \in Requests
  PROVE  Result(r) \in ReviewRecords
  <1> DEFINE rv == req[r].base
             op == req[r].op
  <1>1. rv \in ReviewRecords /\ op \in Operations
    BY DEF TypeOK, RequestRecords
  <1>2. /\ op.kind = "edit" => op.section \in Sections /\ op.text \in Texts
        /\ op.kind = "confirm" => op.system \in Systems
        /\ op.kind = "admin_save" => op.status \in Statuses
    BY <1>1, OperationFields
  <1>3. QED
    BY <1>1, <1>2, MutatorTypes DEF Result

LEMMA NoRequestType == NoRequest \in RequestRecords
  BY NewReviewType DEF NoRequest, RequestRecords, Operations, Phases

LEMMA LoadType ==
  ASSUME TypeOK, NEW r \in Requests, NEW op \in Operations, NEW pc \in Phases,
         Load(r, op, pc)
  PROVE  TypeOK'
  BY DEF TypeOK, Load, RequestRecords

\* Every step of a frontend request keeps the types.
LEMMA FrontendType ==
  ASSUME TypeOK, NEW r \in Requests, FrontendStep(r)
  PROVE  TypeOK'
  <1>1. CASE \E section \in Sections, text \in Texts : EditSection(r, section, text)
    <2> PICK section \in Sections, text \in Texts : EditSection(r, section, text)
      BY <1>1
    <2>1. [kind |-> "edit", section |-> section, text |-> text] \in Operations
      BY DEF Operations
    <2> QED
      BY <2>1, LoadType DEF EditSection, Phases
  <1>2. CASE SystemAndScope(r)
    BY <1>2, LoadType DEF SystemAndScope, Phases, Operations
  <1>3. CASE ReadSummary(r)
    <2>1. [kind |-> "confirm", system |-> system] \in Operations
      BY DEF Operations, TypeOK
    <2> QED
      BY <1>3, <2>1 DEF ReadSummary, TypeOK, RequestRecords, Phases
  <1>4. CASE CreateReport(r)
    BY <1>4, LoadType DEF CreateReport, Phases, Operations
  <1>5. CASE ReopenReview(r)
    BY <1>5, LoadType DEF ReopenReview, Phases, Operations
  <1>6. CASE FinaliseReport(r)
    BY <1>6, LoadType DEF FinaliseReport, Phases, Operations
  <1>7. CASE CreateTip(r)
    BY <1>7 DEF CreateTip, TypeOK, RequestRecords, Phases
  <1>8. CASE \E to \in Systems : SaveSystem(r, to)
    <2>1. [NoRequest EXCEPT !.pc = "rereading", !.op = [kind |-> "system"]] \in RequestRecords
      BY NewReviewType DEF NoRequest, RequestRecords, Operations, Phases
    <2> QED
      BY <1>8, <2>1 DEF SaveSystem, TypeOK
  <1>9. CASE RecordChange(r)
    BY <1>9 DEF RecordChange, TypeOK, RequestRecords, Phases
  <1>10. CASE CheckSave(r)
    BY <1>10 DEF CheckSave, TypeOK, RequestRecords, Phases
  <1>11. CASE RefuseSave(r)
    BY <1>11, NoRequestType DEF RefuseSave, TypeOK
  <1>12. CASE WriteRow(r)
    BY <1>12, NoRequestType, ResultType DEF WriteRow, TypeOK
  <1>13. CASE WriteTouch(r)
    <2>1. row' \in ReviewRecords /\ updated' \in Nat /\ updated + 1 \in Nat
      BY <1>13, ResultType DEF WriteTouch, TypeOK
    <2>2. [req[r] EXCEPT !.pc = "touched", !.stamp = updated + 1] \in RequestRecords
      BY <2>1 DEF TypeOK, RequestRecords, Phases
    <2>3. req' = [req EXCEPT ![r] = [req[r] EXCEPT !.pc = "touched", !.stamp = updated + 1]]
      BY <1>13 DEF WriteTouch, TypeOK
    <2> QED
      BY <1>13, <2>1, <2>2, <2>3 DEF WriteTouch, TypeOK
  <1> QED
    BY <1>1, <1>2, <1>3, <1>4, <1>5, <1>6, <1>7, <1>8, <1>9, <1>10, <1>11,
       <1>12, <1>13 DEF FrontendStep, Save

LEMMA InitType == Init => TypeOK
  <1> SUFFICES ASSUME Init PROVE TypeOK
    OBVIOUS
  <1>1. row \in ReviewRecords /\ updated \in Nat /\ system \in Systems /\ tip \in BOOLEAN
    BY NewReviewType DEF Init
  <1>2. req \in [Requests -> RequestRecords]
    BY NoRequestType DEF Init
  <1> QED
    BY <1>1, <1>2 DEF TypeOK

\* The variables of Review keep their types in every step of the frontend.
THEOREM TypeCorrect == Spec => []TypeOK
  <1>1. TypeOK /\ [Next]_vars => TypeOK'
    <2> SUFFICES ASSUME TypeOK, [Next]_vars PROVE TypeOK'
      OBVIOUS
    <2>1. CASE Next
      BY <2>1, FrontendType DEF Next
    <2>2. CASE UNCHANGED vars
      BY <2>2 DEF vars, TypeOK
    <2> QED
      BY <2>1, <2>2
  <1> QED
    BY InitType, <1>1, PTL DEF Spec

-----------------------------------------------------------------------------
(* However saves overlap.  A stale copy can be written back, so it is not  *)
(* enough to know the row: every instance a request holds was once the row *)
(* and must be as coherent as the row, and fit for what is done to it.     *)

Coherent(rv) ==
  /\ rv.completion # None <=> rv.status = "completed"
  /\ rv.finalised # None => rv.status = "completed" /\ tip

Changed == {"ready", "checked"}

Fit(r) ==
  LET rv == req[r].base
      op == req[r].op
  IN /\ op.kind \notin {"admin_save", "unfinalise"}
     /\ op.kind = "complete" => rv.status = "in_progress"
     /\ op.kind \in {"reopen", "finalise"} => IsReviewComplete(rv)
     /\ op.kind = "reopen" => ~ IsReviewFinalised(rv)
     /\ op.kind = "finalise" /\ req[r].pc \in Changed => tip
     /\ req[r].pc = "rereading" => op.kind = "system"

Coherence ==
  /\ Coherent(row)
  /\ \A r \in Requests : Coherent(req[r].base) /\ Fit(r)

CInv == TypeOK /\ Coherence

\* What a fit request would store is coherent.
LEMMA ResultCoherent ==
  ASSUME CInv, NEW r \in Requests, req[r].pc \in Changed
  PROVE  Coherent(Result(r))
  <1> DEFINE rv == req[r].base
             op == req[r].op
  <1>1. rv \in ReviewRecords /\ Coherent(rv) /\ Fit(r)
    BY DEF CInv, Coherence, TypeOK, RequestRecords
  <1>2. r # None
    BY NoneAssumption
  <1>3. CASE op.kind = "edit"
    BY <1>1, <1>3 DEF Result, SetSection, Coherent, ReviewRecords
  <1>4. CASE op.kind = "confirm"
    BY <1>1, <1>4 DEF Result, ConfirmSystemAndScope, Coherent, ReviewRecords
  <1>5. CASE op.kind = "system"
    BY <1>1, <1>5 DEF Result, RecordSystemChange, Coherent, ReviewRecords
  <1>6. CASE op.kind = "complete"
    BY <1>1, <1>2, <1>6 DEF Result, MarkReviewComplete, Coherent, ReviewRecords, Fit
  <1>7. CASE op.kind = "reopen"
    BY <1>1, <1>7 DEF Result, Reopen, Coherent, ReviewRecords, Fit, IsReviewFinalised
  <1>8. CASE op.kind = "finalise"
    BY <1>1, <1>8 DEF Result, FinaliseReview, Coherent, ReviewRecords, Fit, IsReviewComplete
  <1>9. CASE op.kind \notin {"edit", "confirm", "system", "complete", "reopen", "finalise"}
    BY <1>1, <1>9 DEF Result, Fit
  <1> QED
    BY <1>3, <1>4, <1>5, <1>6, <1>7, <1>8, <1>9

\* A step of one request leaves the instances of the others as they were.
LEMMA OthersKept ==
  ASSUME CInv, NEW r \in Requests, tip => tip', tip' \in BOOLEAN,
         \A q \in Requests : q # r => req'[q] = req[q],
         Coherent(row)', Coherent(req[r].base)', Fit(r)'
  PROVE  Coherence'
  <1> SUFFICES ASSUME NEW q \in Requests, q # r
               PROVE  Coherent(req[q].base)' /\ Fit(q)'
    BY DEF Coherence
  <1>1. Coherent(req[q].base) /\ Fit(q) /\ req'[q] = req[q]
    BY DEF CInv, Coherence
  <1> QED
    BY <1>1 DEF Coherent, Fit, Changed, IsReviewComplete, IsReviewFinalised

LEMMA NewReviewCoherent ==
  /\ Coherent(NewReview)
  /\ ~ IsReviewComplete(NewReview)
  BY DEF Coherent, NewReview, IsReviewComplete

\* Loading takes a coherent row; the guards of the views make it fit.
LEMMA LoadCoherent ==
  ASSUME CInv, NEW r \in Requests, NEW op \in Operations, NEW pc \in Phases,
         Load(r, op, pc),
         op.kind \notin {"admin_save", "unfinalise"},
         op.kind = "complete" => row.status = "in_progress",
         op.kind \in {"reopen", "finalise"} => IsReviewComplete(row),
         op.kind = "reopen" => ~ IsReviewFinalised(row),
         op.kind = "finalise" => pc \notin Changed,
         pc # "rereading"
  PROVE  Coherence'
  <1>1. /\ tip' = tip /\ row' = row
        /\ req'[r].pc = pc /\ req'[r].op = op /\ req'[r].base = row
        /\ \A q \in Requests : q # r => req'[q] = req[q]
    BY DEF Load, CInv, TypeOK
  <1>2. Coherent(row)' /\ Coherent(req[r].base)'
    BY <1>1 DEF CInv, Coherence, Coherent
  <1>3. Fit(r)'
    BY <1>1 DEF Fit, IsReviewComplete, IsReviewFinalised
  <1> QED
    BY <1>1, <1>2, <1>3, OthersKept DEF CInv, TypeOK

LEMMA FrontendCoherent ==
  ASSUME CInv, NEW r \in Requests, FrontendStep(r)
  PROVE  Coherence'
  <1> USE DEF CInv
  <1>0. /\ Coherent(row) /\ Coherent(req[r].base) /\ Fit(r)
        /\ tip \in BOOLEAN /\ tip' \in BOOLEAN
    BY FrontendType DEF Coherence, TypeOK
  <1>1. CASE \E section \in Sections, text \in Texts : EditSection(r, section, text)
    <2> PICK section \in Sections, text \in Texts : EditSection(r, section, text)
      BY <1>1
    <2>1. [kind |-> "edit", section |-> section, text |-> text] \in Operations
      BY DEF Operations
    <2> QED
      BY <2>1, LoadCoherent DEF EditSection, Phases
  <1>2. CASE SystemAndScope(r)
    BY <1>2, LoadCoherent DEF SystemAndScope, Phases, Operations
  <1>3. CASE ReadSummary(r)
    <2>1. /\ tip' = tip /\ row' = row
          /\ req'[r].op.kind = "confirm" /\ req'[r].base = req[r].base
          /\ req'[r].pc = "ready"
          /\ \A q \in Requests : q # r => req'[q] = req[q]
      BY <1>3 DEF ReadSummary, TypeOK, RequestRecords
    <2> QED
      BY <1>0, <2>1, OthersKept DEF Coherent, Fit
  <1>4. CASE CreateReport(r)
    BY <1>4, LoadCoherent DEF CreateReport, Phases, Operations
  <1>5. CASE ReopenReview(r)
    BY <1>5, LoadCoherent DEF ReopenReview, CanReopen, Phases, Operations
  <1>6. CASE FinaliseReport(r)
    BY <1>6, LoadCoherent DEF FinaliseReport, Phases, Operations, Changed
  <1>7. CASE CreateTip(r)
    <2>1. /\ tip' /\ row' = row
          /\ req'[r].op = req[r].op /\ req'[r].base = req[r].base
          /\ req'[r].pc # "rereading"
          /\ \A q \in Requests : q # r => req'[q] = req[q]
      BY <1>7 DEF CreateTip, TypeOK, RequestRecords
    <2> QED
      BY <1>0, <2>1, OthersKept DEF Coherent, Fit, IsReviewComplete, IsReviewFinalised
  <1>8. CASE \E to \in Systems : SaveSystem(r, to)
    <2>1. /\ tip' = tip /\ row' = row
          /\ req'[r].op.kind = "system" /\ req'[r].base = NewReview
          /\ \A q \in Requests : q # r => req'[q] = req[q]
      BY <1>8 DEF SaveSystem, TypeOK, NoRequest
    <2> QED
      BY <1>0, <2>1, OthersKept, NewReviewCoherent DEF Coherent, Fit
  <1>9. CASE RecordChange(r)
    <2>1. /\ tip' = tip /\ row' = row /\ req'[r].op = req[r].op
          /\ req'[r].base = row
          /\ \A q \in Requests : q # r => req'[q] = req[q]
      BY <1>9 DEF RecordChange, TypeOK, RequestRecords
    <2>2. req[r].op.kind = "system"
      BY <1>0, <1>9 DEF RecordChange, Fit
    <2> QED
      BY <1>0, <2>1, <2>2, OthersKept DEF Coherent, Fit
  <1>10. CASE CheckSave(r)
    <2>1. /\ tip' = tip /\ row' = row
          /\ req'[r].op = req[r].op /\ req'[r].base = req[r].base
          /\ req'[r].pc # "rereading"
          /\ req[r].pc \in Changed
          /\ \A q \in Requests : q # r => req'[q] = req[q]
      BY <1>10 DEF CheckSave, TypeOK, RequestRecords, Changed
    <2> QED
      BY <1>0, <2>1, OthersKept DEF Coherent, Fit, IsReviewComplete, IsReviewFinalised
  <1>11. CASE RefuseSave(r)
    <2>1. /\ tip' = tip /\ row' = row /\ req'[r] = NoRequest
          /\ \A q \in Requests : q # r => req'[q] = req[q]
      BY <1>11 DEF RefuseSave, TypeOK
    <2> QED
      BY <1>0, <2>1, OthersKept, NewReviewCoherent DEF Coherent, Fit, NoRequest
  <1>12. CASE WriteRow(r)
    <2>1. /\ tip' = tip /\ row' = Result(r) /\ req'[r] = NoRequest
          /\ req[r].pc \in Changed
          /\ \A q \in Requests : q # r => req'[q] = req[q]
      BY <1>12 DEF WriteRow, TypeOK, Changed
    <2>2. Coherent(row)'
      BY <2>1, ResultCoherent DEF Coherent
    <2> QED
      BY <1>0, <2>1, <2>2, OthersKept, NewReviewCoherent DEF Coherent, Fit, NoRequest
  <1>13. CASE WriteTouch(r)
    <2>1. /\ tip' = tip /\ row' = Result(r)
          /\ req'[r].op = req[r].op /\ req'[r].base = req[r].base
          /\ req'[r].pc # "rereading"
          /\ req[r].pc \in Changed /\ req[r].op.kind = "touch"
          /\ \A q \in Requests : q # r => req'[q] = req[q]
      BY <1>13 DEF WriteTouch, TypeOK, RequestRecords, Changed
    <2>2. Coherent(row)'
      BY <2>1, ResultCoherent DEF Coherent
    <2> QED
      BY <1>0, <2>1, <2>2, OthersKept DEF Coherent, Fit
  <1> QED
    BY <1>1, <1>2, <1>3, <1>4, <1>5, <1>6, <1>7, <1>8, <1>9, <1>10, <1>11,
       <1>12, <1>13 DEF FrontendStep, Save

LEMMA CInvInvariant == Spec => []CInv
  <1>1. Init => CInv
    <2> SUFFICES ASSUME Init PROVE Coherence
      BY InitType DEF CInv
    <2>1. /\ row = NewReview
          /\ \A r \in Requests : req[r] = NoRequest
      BY DEF Init
    <2> QED
      BY <2>1, NewReviewCoherent DEF Coherence, Fit, NoRequest
  <1>2. CInv /\ [Next]_vars => CInv'
    <2> SUFFICES ASSUME CInv, [Next]_vars PROVE CInv'
      OBVIOUS
    <2>1. CASE Next
      BY <2>1, FrontendType, FrontendCoherent DEF Next, CInv
    <2>2. CASE UNCHANGED vars
      BY <2>2 DEF vars, CInv, TypeOK, Coherence, Coherent, Fit, Changed,
                  IsReviewComplete, IsReviewFinalised
    <2> QED
      BY <2>1, <2>2
  <1> QED
    BY <1>1, <1>2, PTL DEF Spec

\* However the saves of requests overlap, the review records its completion
\* exactly while its status says completed.
THEOREM CompletionIsRecorded == Spec => []CompletionRecorded
  <1>1. CInv => CompletionRecorded
    BY DEF CInv, Coherence, Coherent, CompletionRecorded
  <1> QED
    BY <1>1, CInvInvariant, PTL

\* However the saves of requests overlap, a finalised review is completed and
\* its Tip exists.
THEOREM FinalisedReviewHasTip == Spec => []FinalisedHasTip
  <1>1. CInv => FinalisedHasTip
    BY DEF CInv, Coherence, Coherent, FinalisedHasTip
  <1> QED
    BY <1>1, CInvInvariant, PTL

-----------------------------------------------------------------------------
(* When saves do not overlap.  The optimistic lock then makes the row equal *)
(* to the instance that is written back, and every write an operation of    *)
(* the lifecycle on the current review.                                     *)

Loaded == {"finalising", "ready", "checked", "touched"}

\* An instance with the current time stamp is the current row.
Fresh(r) ==
  /\ req[r].stamp <= updated
  /\ req[r].pc \in Loaded /\ req[r].stamp = updated => req[r].base = row

\* A save that passed its checks would pass them still.
Checked(r) == req[r].pc = "checked" => SaveAllowed(r)

Exclusive ==
  \A q, r \in Requests : req[q].pc = "checked" /\ req[r].pc = "checked" => q = r

SInv == \A r \in Requests : Fresh(r) /\ Checked(r)

LInv == CInv /\ SInv /\ Exclusive

\* The lifecycle is built from the same operators.
LEMMA SameOperators ==
  ASSUME NEW rv
  PROVE  /\ Lifecycle!IsReviewComplete(rv) <=> IsReviewComplete(rv)
         /\ Lifecycle!IsReviewFinalised(rv) <=> IsReviewFinalised(rv)
         /\ \A s, t : Lifecycle!SetSection(rv, s, t) = SetSection(rv, s, t)
         /\ \A sys : Lifecycle!ConfirmSystemAndScope(rv, sys) = ConfirmSystemAndScope(rv, sys)
         /\ Lifecycle!RecordSystemChange(rv) = RecordSystemChange(rv)
         /\ \A r : Lifecycle!MarkReviewComplete(rv, r) = MarkReviewComplete(rv, r)
         /\ Lifecycle!Reopen(rv) = Reopen(rv)
         /\ \A r : Lifecycle!FinaliseReview(rv, r) = FinaliseReview(rv, r)
  BY DEF Lifecycle!IsReviewComplete, IsReviewComplete, Lifecycle!IsReviewFinalised,
         IsReviewFinalised, Lifecycle!SetSection, SetSection,
         Lifecycle!ConfirmSystemAndScope, ConfirmSystemAndScope,
         Lifecycle!RecordSystemChange, RecordSystemChange,
         Lifecycle!MarkReviewComplete, MarkReviewComplete, Lifecycle!Reopen, Reopen,
         Lifecycle!FinaliseReview, FinaliseReview

\* A request that passed its checks writes what one operation of the
\* lifecycle makes of the row, or the row itself.
LEMMA WriteIsOperation ==
  ASSUME CInv, NEW r \in Requests, req[r].pc \in Changed,
         req[r].base = row, SaveAllowed(r)
  PROVE  Result(r) = row \/ (row' = Result(r) => Lifecycle!Next)
  <1> DEFINE op == req[r].op
  <1> SUFFICES ASSUME row' = Result(r), Result(r) # row
               PROVE  Lifecycle!Next
    OBVIOUS
  <1>1. /\ row \in ReviewRecords /\ op \in Operations
        /\ Coherent(row) /\ Fit(r) /\ req[r].base = row
    BY DEF CInv, Coherence, TypeOK, RequestRecords
  <1>2. ~ ChangesClosedReview(row, Result(r))
    BY DEF SaveAllowed
  <1>3. /\ op.kind = "edit" => op.section \in Sections /\ op.text \in Texts
        /\ op.kind = "confirm" => op.system \in Systems
    BY <1>1, OperationFields
  <1>4. CASE op.kind = "edit"
    <2>1. Result(r) = SetSection(row, op.section, op.text)
      BY <1>1, <1>4 DEF Result
    <2>2. row.status # "completed"
      <3> SUFFICES ASSUME row.status = "completed" PROVE FALSE
        OBVIOUS
      <3>1. Result(r).response = row.response
        BY <1>2, <2>1, <1>1 DEF ChangesClosedReview, SameAssessorResponse, SetSection, ReviewRecords
      <3>2. Result(r) = row
        BY <2>1, <3>1, <1>1 DEF SetSection, ReviewRecords
      <3> QED
        BY <3>2
    <2>3. Lifecycle!EditSection(op.section, op.text)
      BY <2>1, <2>2, SameOperators DEF Lifecycle!EditSection
    <2> QED
      BY <2>3, <1>3, <1>4 DEF Lifecycle!Next
  <1>5. CASE op.kind = "confirm"
    <2>1. Result(r) = ConfirmSystemAndScope(row, op.system)
      BY <1>1, <1>5 DEF Result
    <2>2. row.status # "completed"
      <3> SUFFICES ASSUME row.status = "completed" PROVE FALSE
        OBVIOUS
      <3>1. Result(r).scope = row.scope
        BY <1>2, <2>1, <1>1 DEF ChangesClosedReview, SameAssessorResponse, ConfirmSystemAndScope, ReviewRecords
      <3>2. Result(r) = row
        BY <2>1, <3>1, <1>1 DEF ConfirmSystemAndScope, ReviewRecords
      <3> QED
        BY <3>2
    <2>3. Lifecycle!ConfirmScope(op.system)
      BY <2>1, <2>2, SameOperators DEF Lifecycle!ConfirmScope
    <2> QED
      BY <2>3, <1>3, <1>5 DEF Lifecycle!Next
  <1>6. CASE op.kind = "system"
    <2>1. Result(r) = RecordSystemChange(row)
      BY <1>1, <1>6 DEF Result
    <2>2. row.status # "completed"
      <3>1. Result(r).actions # row.actions /\ Result(r).status = row.status
        BY <2>1, <1>1 DEF RecordSystemChange, ReviewRecords
      <3> QED
        BY <3>1, <1>2 DEF ChangesClosedReview, SameAssessorResponse
    <2> QED
      BY <2>1, <2>2, SameOperators DEF Lifecycle!Next, Lifecycle!NoteSystemChange
  <1>7. CASE op.kind = "complete"
    <2>1. Result(r) = MarkReviewComplete(row, r) /\ row.status = "in_progress"
      BY <1>1, <1>7 DEF Result, Fit
    <2> QED
      BY <2>1, SameOperators DEF Lifecycle!Next, Lifecycle!Complete
  <1>8. CASE op.kind = "reopen"
    <2>1. /\ Result(r) = Reopen(row)
          /\ IsReviewComplete(row) /\ ~ IsReviewFinalised(row)
      BY <1>1, <1>8 DEF Result, Fit
    <2> QED
      BY <2>1, SameOperators DEF Lifecycle!Next, Lifecycle!ReopenReport
  <1>9. CASE op.kind = "finalise"
    <2>1. Result(r) = FinaliseReview(row, r) /\ IsReviewComplete(row)
      BY <1>1, <1>9 DEF Result, Fit
    <2>2. ~ IsReviewFinalised(row)
      BY <2>1, <1>2, <1>1
         DEF ChangesClosedReview, FinaliseReview, IsReviewComplete, ReviewRecords
    <2> QED
      BY <2>1, <2>2, SameOperators DEF Lifecycle!Next, Lifecycle!Finalise
  <1>10. CASE op.kind \notin {"edit", "confirm", "system", "complete", "reopen", "finalise"}
    BY <1>1, <1>10 DEF Result, Fit
  <1> QED
    BY <1>4, <1>5, <1>6, <1>7, <1>8, <1>9, <1>10

\* The requests other than r keep what they know when the row stays.
LEMMA FreshKept ==
  ASSUME LInv, NEW r \in Requests,
         row' = row, updated' = updated,
         \A q \in Requests : q # r => req'[q] = req[q],
         Fresh(r)', Checked(r)', req'[r].pc = "checked" => req[r].pc = "checked"
  PROVE  (SInv /\ Exclusive)'
  <1>1. ASSUME NEW q \in Requests, q # r
        PROVE  Fresh(q)' /\ Checked(q)'
    <2>1. Fresh(q) /\ Checked(q) /\ req'[q] = req[q]
      BY <1>1 DEF LInv, SInv
    <2>2. Fresh(q)'
      BY <2>1 DEF Fresh
    <2>3. SaveAllowed(q) => SaveAllowed(q)'
      BY <2>1 DEF SaveAllowed, Result, CanEdit
    <2> QED
      BY <2>1, <2>2, <2>3 DEF Checked
  <1>2. Exclusive'
    BY DEF LInv, Exclusive
  <1> QED
    BY <1>1, <1>2 DEF SInv

LEMMA LoadFresh ==
  ASSUME LInv, NEW r \in Requests, NEW op, NEW pc, Load(r, op, pc), pc # "checked"
  PROVE  (SInv /\ Exclusive)'
  <1>1. /\ row' = row /\ updated' = updated /\ updated \in Nat
        /\ req'[r].pc = pc /\ req'[r].base = row /\ req'[r].stamp = updated
        /\ \A q \in Requests : q # r => req'[q] = req[q]
    BY DEF Load, LInv, CInv, TypeOK
  <1>2. Fresh(r)' /\ Checked(r)'
    BY <1>1 DEF Fresh, Checked
  <1> QED
    BY <1>1, <1>2, FreshKept

\* A write takes the time stamp away from every other instance, and no other
\* request is between its check and its write.
LEMMA WriteFresh ==
  ASSUME LInv, NEW r \in Requests, req[r].pc = "checked",
         updated' = updated + 1,
         \A q \in Requests : q # r => req'[q] = req[q],
         req'[r].pc # "checked", Fresh(r)'
  PROVE  (SInv /\ Exclusive)'
  <1>0. updated \in Nat
    BY DEF LInv, CInv, TypeOK
  <1>1. ASSUME NEW q \in Requests, q # r
        PROVE  Fresh(q)' /\ Checked(q)' /\ req'[q].pc # "checked"
    <2>1. Fresh(q) /\ req'[q] = req[q] /\ req[q].pc # "checked"
      BY <1>1 DEF LInv, SInv, Exclusive
    <2>2. req[q].stamp \in Nat
      BY DEF LInv, CInv, TypeOK, RequestRecords
    <2> QED
      BY <1>0, <2>1, <2>2 DEF Fresh, Checked
  <1>2. Checked(r)'
    BY DEF Checked
  <1> QED
    BY <1>1, <1>2 DEF SInv, Exclusive

LEMMA FrontendFresh ==
  ASSUME LInv, SerialSaves, NEW r \in Requests, FrontendStep(r)
  PROVE  (SInv /\ Exclusive)'
  <1>0. TypeOK /\ Fresh(r) /\ Checked(r) /\ Fit(r)
    BY DEF LInv, CInv, SInv, Coherence
  <1>1. CASE \E section \in Sections, text \in Texts : EditSection(r, section, text)
    BY <1>1, LoadFresh DEF EditSection
  <1>2. CASE SystemAndScope(r)
    BY <1>2, LoadFresh DEF SystemAndScope
  <1>3. CASE ReadSummary(r)
    <2>1. /\ row' = row /\ updated' = updated
          /\ req[r].pc = "touched" /\ req'[r].pc = "ready"
          /\ req'[r].base = req[r].base /\ req'[r].stamp = req[r].stamp
          /\ \A q \in Requests : q # r => req'[q] = req[q]
      BY <1>0, <1>3 DEF ReadSummary, TypeOK, RequestRecords
    <2>2. Fresh(r)' /\ Checked(r)'
      BY <1>0, <2>1 DEF Fresh, Checked, Loaded
    <2> QED
      BY <2>1, <2>2, FreshKept
  <1>4. CASE CreateReport(r)
    BY <1>4, LoadFresh DEF CreateReport
  <1>5. CASE ReopenReview(r)
    BY <1>5, LoadFresh DEF ReopenReview
  <1>6. CASE FinaliseReport(r)
    BY <1>6, LoadFresh DEF FinaliseReport
  <1>7. CASE CreateTip(r)
    <2>1. /\ row' = row /\ updated' = updated
          /\ req[r].pc = "finalising" /\ req'[r].pc = "ready"
          /\ req'[r].base = req[r].base /\ req'[r].stamp = req[r].stamp
          /\ \A q \in Requests : q # r => req'[q] = req[q]
      BY <1>0, <1>7 DEF CreateTip, TypeOK, RequestRecords
    <2>2. Fresh(r)' /\ Checked(r)'
      BY <1>0, <2>1 DEF Fresh, Checked, Loaded
    <2> QED
      BY <2>1, <2>2, FreshKept
  <1>8. CASE \E to \in Systems : SaveSystem(r, to)
    <2>1. /\ row' = row /\ updated' = updated /\ updated \in Nat
          /\ req'[r].pc = "rereading" /\ req'[r].stamp = 0
          /\ \A q \in Requests : q # r => req'[q] = req[q]
      BY <1>0, <1>8 DEF SaveSystem, TypeOK, NoRequest
    <2>2. Fresh(r)' /\ Checked(r)'
      BY <2>1 DEF Fresh, Checked, Loaded
    <2> QED
      BY <2>1, <2>2, FreshKept
  <1>9. CASE RecordChange(r)
    <2>1. /\ row' = row /\ updated' = updated /\ updated \in Nat
          /\ req'[r].pc = "ready"
          /\ req'[r].base = row /\ req'[r].stamp = updated
          /\ \A q \in Requests : q # r => req'[q] = req[q]
      BY <1>0, <1>9 DEF RecordChange, TypeOK, RequestRecords
    <2>2. Fresh(r)' /\ Checked(r)'
      BY <2>1 DEF Fresh, Checked
    <2> QED
      BY <2>1, <2>2, FreshKept
  <1>10. CASE CheckSave(r)
    <2>1. /\ row' = row /\ updated' = updated
          /\ req[r].pc = "ready" /\ req'[r].pc = "checked"
          /\ req'[r].op = req[r].op /\ req'[r].base = req[r].base
          /\ req'[r].stamp = req[r].stamp
          /\ \A q \in Requests : q # r => req'[q] = req[q]
          /\ \A q \in Requests : req[q].pc # "checked"
          /\ SaveAllowed(r)
      BY <1>0, <1>10 DEF CheckSave, TypeOK, RequestRecords
    <2>2. SaveAllowed(r)'
      BY <2>1 DEF SaveAllowed, Result, CanEdit
    <2>3. Fresh(r)'
      BY <1>0, <2>1 DEF Fresh, Loaded
    <2>4. ASSUME NEW q \in Requests, q # r
          PROVE  Fresh(q)' /\ Checked(q)' /\ req'[q].pc # "checked"
      BY <2>1, <2>4 DEF LInv, SInv, Fresh, Checked
    <2> QED
      BY <2>2, <2>3, <2>4 DEF SInv, Exclusive, Checked
  <1>11. CASE RefuseSave(r)
    <2>1. /\ row' = row /\ updated' = updated /\ updated \in Nat
          /\ req'[r].pc = "idle" /\ req'[r].stamp = 0
          /\ \A q \in Requests : q # r => req'[q] = req[q]
      BY <1>0, <1>11 DEF RefuseSave, TypeOK, NoRequest
    <2>2. Fresh(r)' /\ Checked(r)'
      BY <2>1 DEF Fresh, Checked, Loaded
    <2> QED
      BY <2>1, <2>2, FreshKept
  <1>12. CASE WriteRow(r)
    <2>1. /\ updated' = updated + 1 /\ updated \in Nat
          /\ req[r].pc = "checked" /\ req'[r].pc = "idle" /\ req'[r].stamp = 0
          /\ \A q \in Requests : q # r => req'[q] = req[q]
      BY <1>0, <1>12 DEF WriteRow, TypeOK, NoRequest
    <2>2. Fresh(r)'
      BY <2>1 DEF Fresh, Loaded
    <2> QED
      BY <2>1, <2>2, WriteFresh
  <1>13. CASE WriteTouch(r)
    <2>1. /\ updated' = updated + 1 /\ updated \in Nat
          /\ req[r].pc = "checked" /\ req'[r].pc = "touched"
          /\ req'[r].stamp = updated + 1
          /\ req'[r].base = req[r].base /\ row' = Result(r)
          /\ \A q \in Requests : q # r => req'[q] = req[q]
      BY <1>0, <1>13 DEF WriteTouch, TypeOK, RequestRecords
    <2>2. Result(r) = req[r].base
      BY <1>13 DEF WriteTouch, Result
    <2>3. Fresh(r)'
      BY <2>1, <2>2 DEF Fresh
    <2> QED
      BY <2>1, <2>3, WriteFresh
  <1> QED
    BY <1>1, <1>2, <1>3, <1>4, <1>5, <1>6, <1>7, <1>8, <1>9, <1>10, <1>11,
       <1>12, <1>13 DEF FrontendStep, Save

LEMMA LInvInvariant ==
  ASSUME SerialSaves
  PROVE  Spec => []LInv
  <1>1. Init => LInv
    <2> SUFFICES ASSUME Init PROVE SInv /\ Exclusive /\ Coherence
      BY InitType DEF LInv, CInv
    <2>1. /\ row = NewReview /\ updated = 1
          /\ \A r \in Requests : req[r] = NoRequest
      BY DEF Init
    <2>2. Coherence
      BY <2>1, NewReviewCoherent DEF Coherence, Fit, NoRequest
    <2> QED
      BY <2>1, <2>2 DEF SInv, Exclusive, Fresh, Checked, Loaded, NoRequest
  <1>2. LInv /\ [Next]_vars => LInv'
    <2> SUFFICES ASSUME LInv, [Next]_vars PROVE LInv'
      OBVIOUS
    <2>1. CASE Next
      BY <2>1, FrontendType, FrontendCoherent, FrontendFresh DEF Next, LInv, CInv
    <2>2. CASE UNCHANGED vars
      <3>1. CInv'
        BY <2>2 DEF LInv, vars, CInv, TypeOK, Coherence, Coherent, Fit, Changed,
                    IsReviewComplete, IsReviewFinalised
      <3>2. (SInv /\ Exclusive)'
        BY <2>2 DEF LInv, vars, SInv, Exclusive, Fresh, Checked, SaveAllowed,
                    Result, CanEdit
      <3> QED
        BY <3>1, <3>2 DEF LInv
    <2> QED
      BY <2>1, <2>2
  <1> QED
    BY <1>1, <1>2, PTL DEF Spec

\* A step changes the row only by writing, and the writer holds the row.
LEMMA StepIsOperation ==
  ASSUME LInv, NEW r \in Requests, FrontendStep(r)
  PROVE  row' = row \/ Lifecycle!Next
  <1>1. CASE WriteRow(r) \/ WriteTouch(r)
    <2>1. row' = Result(r) /\ req[r].pc = "checked"
      BY <1>1 DEF WriteRow, WriteTouch
    <2>2. SaveAllowed(r) /\ req[r].base = row
      BY <2>1 DEF LInv, SInv, Fresh, Checked, SaveAllowed, Loaded
    <2> QED
      BY <2>1, <2>2, WriteIsOperation DEF LInv, Changed
  <1>2. CASE ~ (WriteRow(r) \/ WriteTouch(r))
    BY <1>2 DEF FrontendStep, Save, Load, EditSection, SystemAndScope, ReadSummary,
         CreateReport, ReopenReview, FinaliseReport, CreateTip, SaveSystem,
         RecordChange, CheckSave, RefuseSave
  <1> QED
    BY <1>1, <1>2

\* When no two saves overlap, the stored review follows the lifecycle in which
\* every operation is one step on its current content: no edit is lost, and a
\* completed review changes only by being finalised or reopened.
THEOREM ReviewRefinesLifecycle ==
  ASSUME SerialSaves
  PROVE  Spec => RefinesLifecycle
  <1>1. Init => Lifecycle!Init
    BY DEF Init, Lifecycle!Init, NewReview, Lifecycle!NewReview
  <1>2. LInv /\ [Next]_vars => [Lifecycle!Next]_row
    <2> SUFFICES ASSUME LInv, [Next]_vars PROVE [Lifecycle!Next]_row
      OBVIOUS
    <2>1. CASE Next
      BY <2>1, StepIsOperation DEF Next
    <2>2. CASE UNCHANGED vars
      BY <2>2 DEF vars
    <2> QED
      BY <2>1, <2>2
  <1>3. Spec => []LInv
    BY LInvInvariant
  <1> QED
    BY <1>1, <1>2, <1>3, PTL DEF Spec, RefinesLifecycle, Lifecycle!Spec

-----------------------------------------------------------------------------
(* The back office: superusers take part, who may post back an old page    *)
(* under a new time stamp; and what the checks of Review.save are worth    *)
(* when no two saves overlap.                                              *)

-----------------------------------------------------------------------------
(* Types.                                                                  *)

\* Posting the page back replaces only what the request will do and the time
\* stamp it is compared with.
LEMMA PostType ==
  ASSUME TypeOK, NEW r \in Requests, NEW op \in Operations, PostChangeForm(r, op)
  PROVE  TypeOK'
  BY DEF PostChangeForm, TypeOK, RequestRecords, Phases

LEMMA OfficeOperations ==
  /\ [kind |-> "page"] \in Operations
  /\ [kind |-> "unfinalise"] \in Operations
  /\ \A status \in Statuses : [kind |-> "admin_save", status |-> status] \in Operations
  BY DEF Operations

LEMMA BackOfficeType ==
  ASSUME TypeOK, NEW r \in Requests, BackOffice(r)
  PROVE  TypeOK'
  <1>1. CASE OpenChangeForm(r)
    BY <1>1, OfficeOperations, LoadType DEF OpenChangeForm, Phases
  <1>2. CASE \E status \in Statuses : SubmitChangeForm(r, status)
    BY <1>2, OfficeOperations, PostType DEF SubmitChangeForm
  <1>3. CASE UnFinalise(r)
    BY <1>3, OfficeOperations, PostType DEF UnFinalise
  <1> QED
    BY <1>1, <1>2, <1>3 DEF BackOffice

LEMMA BackOfficeTypeStep == TypeOK /\ [BackOfficeNext]_vars => TypeOK'
  <1> SUFFICES ASSUME TypeOK, [BackOfficeNext]_vars PROVE TypeOK'
    OBVIOUS
  <1>1. CASE BackOfficeNext
    BY <1>1, FrontendType, BackOfficeType DEF BackOfficeNext
  <1>2. CASE UNCHANGED vars
    BY <1>2 DEF vars, TypeOK
  <1> QED
    BY <1>1, <1>2

\* With the back office at work the variables of Review keep their types.
THEOREM BackOfficeTypeCorrect == BackOfficeSpec => []TypeOK
  BY InitType, BackOfficeTypeStep, PTL DEF BackOfficeSpec

-----------------------------------------------------------------------------
(* A stamp is never without its Tip: neither on the row nor on a copy that *)
(* somebody, however late, may still store.                                *)

Stamped(rv) == rv.finalised # None => tip

Fitting(r) ==
  /\ req[r].op.kind = "finalise" /\ req[r].pc \in Changed => tip
  /\ req[r].pc = "rereading" => req[r].op.kind = "system"

Stamping ==
  /\ Stamped(row)
  /\ \A r \in Requests : Stamped(req[r].base) /\ Fitting(r)

OInv == TypeOK /\ Stamping

\* What a request would store has no stamp without a Tip.
LEMMA ResultStamped ==
  ASSUME OInv, NEW r \in Requests, req[r].pc \in Changed
  PROVE  Stamped(Result(r))
  <1> DEFINE rv == req[r].base
             op == req[r].op
  <1>1. rv \in ReviewRecords /\ Stamped(rv) /\ Fitting(r)
    BY DEF OInv, Stamping, TypeOK, RequestRecords
  <1>2. CASE op.kind \in {"edit", "confirm", "system", "complete", "reopen", "admin_save"}
    <2>1. Result(r).finalised = rv.finalised
      BY <1>1, <1>2 DEF Result, ReviewRecords, SetSection, ConfirmSystemAndScope,
           RecordSystemChange, MarkReviewComplete, Reopen
    <2> QED
      BY <1>1, <2>1 DEF Stamped
  <1>3. CASE op.kind = "finalise"
    BY <1>1, <1>3 DEF Fitting, Stamped
  <1>4. CASE op.kind = "unfinalise"
    BY <1>1, <1>4 DEF Result, RollbackToInProgress, Stamped, ReviewRecords
  <1>5. CASE op.kind \notin {"edit", "confirm", "system", "complete", "reopen", "admin_save",
                             "finalise", "unfinalise"}
    BY <1>1, <1>5 DEF Result
  <1> QED
    BY <1>2, <1>3, <1>4, <1>5

\* A Tip is never deleted, so a step of one request does not disturb the others.
LEMMA OthersStamped ==
  ASSUME OInv, NEW r \in Requests, tip => tip', tip' \in BOOLEAN,
         \A q \in Requests : q # r => req'[q] = req[q],
         Stamped(row)', Stamped(req[r].base)', Fitting(r)'
  PROVE  Stamping'
  <1> SUFFICES ASSUME NEW q \in Requests, q # r
               PROVE  Stamped(req[q].base)' /\ Fitting(q)'
    BY DEF Stamping
  <1>1. Stamped(req[q].base) /\ Fitting(q) /\ req'[q] = req[q]
    BY DEF OInv, Stamping
  <1> QED
    BY <1>1 DEF Stamped, Fitting, Changed

LEMMA LoadStamped ==
  ASSUME OInv, NEW r \in Requests, NEW op \in Operations, NEW pc \in Phases,
         Load(r, op, pc),
         op.kind = "finalise" => pc \notin Changed,
         pc # "rereading"
  PROVE  Stamping'
  <1>1. /\ tip' = tip /\ row' = row
        /\ req'[r].pc = pc /\ req'[r].op = op /\ req'[r].base = row
        /\ \A q \in Requests : q # r => req'[q] = req[q]
    BY DEF Load, OInv, TypeOK
  <1>2. Stamped(row)' /\ Stamped(req[r].base)' /\ Fitting(r)'
    BY <1>1 DEF OInv, Stamping, Stamped, Fitting
  <1> QED
    BY <1>1, <1>2, OthersStamped DEF OInv, TypeOK

LEMMA NewReviewStamped == Stamped(NewReview) /\ NoRequest.base = NewReview /\ NoRequest.pc = "idle"
  BY DEF Stamped, NewReview, NoRequest

LEMMA FrontendStamped ==
  ASSUME OInv, NEW r \in Requests, FrontendStep(r)
  PROVE  Stamping'
  <1> USE DEF OInv
  <1>0. /\ Stamped(row) /\ Stamped(req[r].base) /\ Fitting(r)
        /\ tip \in BOOLEAN /\ tip' \in BOOLEAN
    BY FrontendType DEF Stamping, TypeOK
  <1>1. CASE \/ \E section \in Sections, text \in Texts : EditSection(r, section, text)
             \/ SystemAndScope(r) \/ CreateReport(r) \/ ReopenReview(r) \/ FinaliseReport(r)
    <2>1. \A section \in Sections, text \in Texts :
            [kind |-> "edit", section |-> section, text |-> text] \in Operations
      BY DEF Operations
    <2>2. \A k \in {"touch", "complete", "reopen", "finalise"} : [kind |-> k] \in Operations
      BY DEF Operations
    <2> QED
      BY <1>1, <2>1, <2>2, LoadStamped
         DEF EditSection, SystemAndScope, CreateReport, ReopenReview, FinaliseReport, Phases, Changed
  <1>2. CASE ReadSummary(r)
    <2>1. /\ tip' = tip /\ row' = row
          /\ req'[r].op.kind = "confirm" /\ req'[r].base = req[r].base
          /\ req'[r].pc = "ready"
          /\ \A q \in Requests : q # r => req'[q] = req[q]
      BY <1>2 DEF ReadSummary, TypeOK, RequestRecords
    <2> QED
      BY <1>0, <2>1, OthersStamped DEF Stamped, Fitting
  <1>3. CASE CreateTip(r)
    <2>1. /\ tip' /\ row' = row
          /\ req'[r].base = req[r].base /\ req'[r].pc = "ready"
          /\ \A q \in Requests : q # r => req'[q] = req[q]
      BY <1>3 DEF CreateTip, TypeOK, RequestRecords
    <2> QED
      BY <1>0, <2>1, OthersStamped DEF Stamped, Fitting
  <1>4. CASE \E to \in Systems : SaveSystem(r, to)
    <2>1. /\ tip' = tip /\ row' = row
          /\ req'[r].op.kind = "system" /\ req'[r].base = NewReview
          /\ \A q \in Requests : q # r => req'[q] = req[q]
      BY <1>4 DEF SaveSystem, TypeOK, NoRequest
    <2> QED
      BY <1>0, <2>1, OthersStamped, NewReviewStamped DEF Stamped, Fitting
  <1>5. CASE RecordChange(r)
    <2>1. /\ tip' = tip /\ row' = row /\ req'[r].op = req[r].op
          /\ req'[r].base = row /\ req'[r].pc = "ready" /\ req[r].pc = "rereading"
          /\ \A q \in Requests : q # r => req'[q] = req[q]
      BY <1>5 DEF RecordChange, TypeOK, RequestRecords
    <2> QED
      BY <1>0, <2>1, OthersStamped DEF Stamped, Fitting
  <1>6. CASE CheckSave(r)
    <2>1. /\ tip' = tip /\ row' = row /\ req[r].pc \in Changed
          /\ req'[r].op = req[r].op /\ req'[r].base = req[r].base /\ req'[r].pc = "checked"
          /\ \A q \in Requests : q # r => req'[q] = req[q]
      BY <1>6 DEF CheckSave, TypeOK, RequestRecords, Changed
    <2> QED
      BY <1>0, <2>1, OthersStamped DEF Stamped, Fitting
  <1>7. CASE RefuseSave(r)
    <2>1. /\ tip' = tip /\ row' = row /\ req'[r] = NoRequest
          /\ \A q \in Requests : q # r => req'[q] = req[q]
      BY <1>7 DEF RefuseSave, TypeOK
    <2> QED
      BY <1>0, <2>1, OthersStamped, NewReviewStamped DEF Stamped, Fitting, Changed
  <1>8. CASE WriteRow(r)
    <2>1. /\ tip' = tip /\ row' = Result(r) /\ req'[r] = NoRequest /\ req[r].pc \in Changed
          /\ \A q \in Requests : q # r => req'[q] = req[q]
      BY <1>8 DEF WriteRow, TypeOK, Changed
    <2>2. Stamped(row)'
      BY <2>1, ResultStamped DEF Stamped
    <2> QED
      BY <1>0, <2>1, <2>2, OthersStamped, NewReviewStamped DEF Stamped, Fitting, Changed
  <1>9. CASE WriteTouch(r)
    <2>1. /\ tip' = tip /\ row' = Result(r) /\ req[r].pc \in Changed
          /\ req'[r].base = req[r].base /\ req'[r].pc = "touched"
          /\ \A q \in Requests : q # r => req'[q] = req[q]
      BY <1>9 DEF WriteTouch, TypeOK, RequestRecords, Changed
    <2>2. Stamped(row)'
      BY <2>1, ResultStamped DEF Stamped
    <2> QED
      BY <1>0, <2>1, <2>2, OthersStamped DEF Stamped, Fitting, Changed
  <1> QED
    BY <1>1, <1>2, <1>3, <1>4, <1>5, <1>6, <1>7, <1>8, <1>9 DEF FrontendStep, Save

LEMMA PostStamped ==
  ASSUME OInv, NEW r \in Requests, NEW op \in Operations, op.kind # "finalise",
         PostChangeForm(r, op)
  PROVE  Stamping'
  <1>1. /\ tip' = tip /\ row' = row
        /\ req'[r].op = op /\ req'[r].base = req[r].base /\ req'[r].pc = "ready"
        /\ \A q \in Requests : q # r => req'[q] = req[q]
    BY DEF PostChangeForm, OInv, TypeOK, RequestRecords
  <1>2. Stamped(row)' /\ Stamped(req[r].base)' /\ Fitting(r)'
    BY <1>1 DEF OInv, Stamping, Stamped, Fitting
  <1> QED
    BY <1>1, <1>2, OthersStamped DEF OInv, TypeOK

LEMMA BackOfficeStamped ==
  ASSUME OInv, NEW r \in Requests, BackOffice(r)
  PROVE  Stamping'
  <1>1. CASE OpenChangeForm(r)
    BY <1>1, OfficeOperations, LoadStamped DEF OpenChangeForm, Phases
  <1>2. CASE \E status \in Statuses : SubmitChangeForm(r, status)
    BY <1>2, OfficeOperations, PostStamped DEF SubmitChangeForm
  <1>3. CASE UnFinalise(r)
    BY <1>3, OfficeOperations, PostStamped DEF UnFinalise
  <1> QED
    BY <1>1, <1>2, <1>3 DEF BackOffice

\* Whatever superusers post back, and however the saves overlap, a review with
\* the stamp of finalisation has the Tip its organisation works on.
THEOREM StampsHaveTips == BackOfficeSpec => []StampedHasTip
  <1>1. Init => OInv
    <2> SUFFICES ASSUME Init PROVE Stamping
      BY InitType DEF OInv
    <2>1. row = NewReview /\ \A r \in Requests : req[r] = NoRequest
      BY DEF Init
    <2> QED
      BY <2>1, NewReviewStamped DEF Stamping, Fitting, Changed
  <1>2. OInv /\ [BackOfficeNext]_vars => OInv'
    <2> SUFFICES ASSUME OInv, [BackOfficeNext]_vars PROVE Stamping'
      BY BackOfficeTypeStep DEF OInv
    <2>1. CASE BackOfficeNext
      BY <2>1, FrontendStamped, BackOfficeStamped DEF BackOfficeNext
    <2>2. CASE UNCHANGED vars
      BY <2>2 DEF vars, OInv, Stamping, Stamped, Fitting
    <2> QED
      BY <2>1, <2>2
  <1>3. OInv => StampedHasTip
    BY DEF OInv, Stamping, Stamped, StampedHasTip
  <1> QED
    BY <1>1, <1>2, <1>3, PTL DEF BackOfficeSpec

-----------------------------------------------------------------------------
(* What the checks of Review.save are worth when no two saves overlap, also *)
(* for a superuser's page whose content is old and whose stamp is new: the  *)
(* copy may be stale, but what was checked is still so when it is written.  *)

GInv ==
  /\ TypeOK
  /\ Exclusive
  /\ \A r \in Requests : Checked(r)

\* A step that leaves the row and its time stamp alone, and checks nothing.
LEMMA CheckedKept ==
  ASSUME GInv, NEW r \in Requests, row' = row, updated' = updated,
         \A q \in Requests : q # r => req'[q] = req[q],
         req'[r].pc # "checked"
  PROVE  Exclusive' /\ \A q \in Requests : Checked(q)'
  <1>1. ASSUME NEW q \in Requests, q # r PROVE Checked(q)'
    <2>1. Checked(q) /\ req'[q] = req[q]
      BY <1>1 DEF GInv
    <2>2. SaveAllowed(q) => SaveAllowed(q)'
      BY <2>1 DEF SaveAllowed, Result, CanEdit
    <2> QED
      BY <2>1, <2>2 DEF Checked
  <1> QED
    BY <1>1 DEF GInv, Exclusive, Checked

\* A write is alone: it leaves no other save between its check and its write.
LEMMA WriteChecked ==
  ASSUME GInv, NEW r \in Requests, req[r].pc = "checked",
         \A q \in Requests : q # r => req'[q] = req[q],
         req'[r].pc # "checked"
  PROVE  Exclusive' /\ \A q \in Requests : Checked(q)'
  BY DEF GInv, Exclusive, Checked

LEMMA LoadChecked ==
  ASSUME GInv, NEW r \in Requests, NEW op, NEW pc, Load(r, op, pc), pc # "checked"
  PROVE  Exclusive' /\ \A q \in Requests : Checked(q)'
  <1>1. /\ row' = row /\ updated' = updated /\ req'[r].pc = pc
        /\ \A q \in Requests : q # r => req'[q] = req[q]
    BY DEF Load, GInv, TypeOK
  <1> QED
    BY <1>1, CheckedKept

LEMMA FrontendChecked ==
  ASSUME GInv, SerialSaves, NEW r \in Requests, FrontendStep(r)
  PROVE  Exclusive' /\ \A q \in Requests : Checked(q)'
  <1>0. TypeOK
    BY DEF GInv
  <1>1. CASE \/ \E section \in Sections, text \in Texts : EditSection(r, section, text)
             \/ SystemAndScope(r) \/ CreateReport(r) \/ ReopenReview(r) \/ FinaliseReport(r)
    BY <1>1, LoadChecked
       DEF EditSection, SystemAndScope, CreateReport, ReopenReview, FinaliseReport
  <1>2. CASE \/ ReadSummary(r) \/ CreateTip(r) \/ RecordChange(r) \/ RefuseSave(r)
             \/ \E to \in Systems : SaveSystem(r, to)
    <2>1. /\ row' = row /\ updated' = updated
          /\ \A q \in Requests : q # r => req'[q] = req[q]
      BY <1>0, <1>2 DEF ReadSummary, CreateTip, RecordChange, RefuseSave, SaveSystem, TypeOK
    <2>2. CASE ReadSummary(r) \/ CreateTip(r) \/ RecordChange(r)
      <3>1. req'[r].pc = "ready"
        BY <1>0, <2>2 DEF ReadSummary, CreateTip, RecordChange, TypeOK, RequestRecords
      <3> QED
        BY <2>1, <3>1, CheckedKept
    <2>3. CASE RefuseSave(r)
      <3>1. req'[r].pc = "idle"
        BY <1>0, <2>3 DEF RefuseSave, NoRequest, TypeOK
      <3> QED
        BY <2>1, <3>1, CheckedKept
    <2>4. CASE \E to \in Systems : SaveSystem(r, to)
      <3>1. req'[r].pc = "rereading"
        BY <1>0, <2>4 DEF SaveSystem, NoRequest, TypeOK
      <3> QED
        BY <2>1, <3>1, CheckedKept
    <2> QED
      BY <1>2, <2>2, <2>3, <2>4
  <1>3. CASE CheckSave(r)
    <2>1. /\ row' = row /\ updated' = updated
          /\ req'[r].op = req[r].op /\ req'[r].base = req[r].base
          /\ req'[r].stamp = req[r].stamp
          /\ \A q \in Requests : q # r => req'[q] = req[q]
          /\ \A q \in Requests : req[q].pc # "checked"
          /\ SaveAllowed(r)
      BY <1>0, <1>3 DEF CheckSave, TypeOK, RequestRecords
    <2>2. SaveAllowed(r)'
      BY <2>1 DEF SaveAllowed, Result, CanEdit
    <2> QED
      BY <2>1, <2>2 DEF Exclusive, Checked
  <1>4. CASE WriteRow(r) \/ WriteTouch(r)
    <2>1. /\ req[r].pc = "checked" /\ req'[r].pc # "checked"
          /\ \A q \in Requests : q # r => req'[q] = req[q]
      BY <1>0, <1>4 DEF WriteRow, WriteTouch, NoRequest, TypeOK, RequestRecords
    <2> QED
      BY <2>1, WriteChecked
  <1> QED
    BY <1>1, <1>2, <1>3, <1>4 DEF FrontendStep, Save

LEMMA BackOfficeChecked ==
  ASSUME GInv, NEW r \in Requests, BackOffice(r)
  PROVE  Exclusive' /\ \A q \in Requests : Checked(q)'
  <1>1. CASE OpenChangeForm(r)
    BY <1>1, LoadChecked DEF OpenChangeForm
  <1>2. ASSUME NEW op, PostChangeForm(r, op)
        PROVE  Exclusive' /\ \A q \in Requests : Checked(q)'
    <2>1. /\ row' = row /\ updated' = updated /\ req'[r].pc = "ready"
          /\ \A q \in Requests : q # r => req'[q] = req[q]
      BY <1>2 DEF PostChangeForm, GInv, TypeOK, RequestRecords
    <2> QED
      BY <2>1, CheckedKept
  <1> QED
    BY <1>1, <1>2 DEF BackOffice, SubmitChangeForm, UnFinalise

LEMMA GInvInvariant ==
  ASSUME SerialSaves
  PROVE  BackOfficeSpec => []GInv
  <1>1. Init => GInv
    <2> SUFFICES ASSUME Init PROVE Exclusive /\ \A r \in Requests : Checked(r)
      BY InitType DEF GInv
    <2>1. \A r \in Requests : req[r].pc = "idle"
      BY DEF Init, NoRequest
    <2> QED
      BY <2>1 DEF Exclusive, Checked
  <1>2. GInv /\ [BackOfficeNext]_vars => GInv'
    <2> SUFFICES ASSUME GInv, [BackOfficeNext]_vars PROVE GInv'
      OBVIOUS
    <2>1. TypeOK'
      BY BackOfficeTypeStep DEF GInv
    <2>2. CASE BackOfficeNext
      BY <2>1, <2>2, FrontendChecked, BackOfficeChecked DEF BackOfficeNext, GInv
    <2>3. CASE UNCHANGED vars
      BY <2>1, <2>3 DEF vars, GInv, Exclusive, Checked, SaveAllowed, Result, CanEdit
    <2> QED
      BY <2>2, <2>3
  <1> QED
    BY <1>1, <1>2, PTL DEF BackOfficeSpec

\* Only the two writes touch the row.
LEMMA RowIsWritten ==
  ASSUME NEW r \in Requests, FrontendStep(r) \/ BackOffice(r), row' # row
  PROVE  req[r].pc = "checked" /\ row' = Result(r)
  BY DEF FrontendStep, BackOffice, Save, Load, EditSection, SystemAndScope, ReadSummary,
         CreateReport, ReopenReview, FinaliseReport, CreateTip, SaveSystem, RecordChange,
         CheckSave, RefuseSave, WriteRow, WriteTouch, OpenChangeForm, SubmitChangeForm,
         UnFinalise, PostChangeForm

\* When no two saves overlap, nothing rewrites a finalised review and leaves it
\* closed: neither an assessor with an old copy nor a superuser who opened the
\* change form before the review was finalised and submits it afterwards.
THEOREM FinalisedIsFinal ==
  ASSUME SerialSaves
  PROVE  BackOfficeSpec => FinalisedNeverRewritten
  <1>1. ASSUME GInv, [BackOfficeNext]_vars, IsReviewFinalised(row), row' # row
        PROVE  row'.status # "completed"
    <2>1. BackOfficeNext
      BY <1>1 DEF vars
    <2>2. PICK r \in Requests : FrontendStep(r) \/ BackOffice(r)
      BY <2>1 DEF BackOfficeNext
    <2>3. row' = Result(r) /\ SaveAllowed(r)
      BY <1>1, <2>2, RowIsWritten DEF GInv, Checked
    <2> QED
      BY <1>1, <2>3 DEF SaveAllowed, ChangesClosedReview, IsReviewFinalised, IsReviewComplete
  <1>2. GInv /\ [BackOfficeNext]_vars =>
          [IsReviewFinalised(row) /\ row' # row => row'.status # "completed"]_vars
    BY <1>1
  <1>3. BackOfficeSpec => []GInv
    BY GInvInvariant
  <1> QED
    BY <1>2, <1>3, PTL DEF BackOfficeSpec, FinalisedNeverRewritten

-----------------------------------------------------------------------------
(* The frontend alone, when no two saves overlap.                          *)

\* A request ends by its own step.
LEMMA EndsByItself ==
  ASSUME TypeOK, NEW q \in Requests, NEW r \in Requests, FrontendStep(r), Ends(q)
  PROVE  q = r /\ (RefuseSave(r) \/ WriteRow(r))
  <1>1. q = r
    <2> SUFFICES ASSUME q # r PROVE req'[q] = req[q]
      BY DEF Ends
    <2> QED
      BY DEF TypeOK, FrontendStep, Save, Load, EditSection, SystemAndScope, ReadSummary,
         CreateReport, ReopenReview, FinaliseReport, CreateTip, SaveSystem,
         RecordChange, CheckSave, RefuseSave, WriteRow, WriteTouch
  <1>2. req[r].pc \in {"ready", "checked"} /\ req'[r].pc = "idle"
    BY <1>1 DEF Ends
  <1>3. ~ CheckSave(r) /\ ~ WriteTouch(r)
    BY <1>2 DEF CheckSave, WriteTouch, TypeOK, RequestRecords
  <1> QED
    BY <1>1, <1>2, <1>3 DEF FrontendStep, Save, Load, EditSection, SystemAndScope,
       ReadSummary, CreateReport, ReopenReview, FinaliseReport, CreateTip, SaveSystem,
       RecordChange

\* When no two saves overlap, the request of an organisation lead leaves the
\* review as it is, or notes on it, as it is stored by then and while it is not
\* completed, that the system has changed (EditReviewSystemView, record_change).
THEOREM LeadsNote ==
  ASSUME SerialSaves
  PROVE  Spec => LeadsOnlyNoteChanges
  <1>1. ASSUME LInv, [Next]_vars, NEW q \in ReadOnly, Ends(q)
        PROVE  \/ row' = row
               \/ row.status # "completed" /\ row' = RecordSystemChange(row)
    <2>0. TypeOK /\ row \in ReviewRecords /\ q \in Requests
      BY <1>1, ReviewAssumption DEF LInv, CInv, TypeOK
    <2>1. Next
      <3>1. UNCHANGED vars => req'[q] = req[q]
        BY DEF vars
      <3> QED
        BY <1>1, <3>1 DEF Ends
    <2>2. PICK r \in Requests : FrontendStep(r)
      BY <2>1 DEF Next
    <2>3. q = r /\ (RefuseSave(r) \/ WriteRow(r))
      BY <1>1, <2>0, <2>2, EndsByItself
    <2>4. CASE RefuseSave(r)
      BY <2>4 DEF RefuseSave
    <2>5. CASE WriteRow(r)
      <3>1. /\ row' = Result(r) /\ req[r].base = row
            /\ CanEdit(r) /\ Fit(r) /\ ~ ChangesClosedReview(row, Result(r))
        BY <1>1, <2>5 DEF WriteRow, LInv, CInv, Coherence, SInv, Fresh, Checked, SaveAllowed, Loaded
      <3>2. row' = RecordSystemChange(row) /\ Result(r) = RecordSystemChange(row)
        BY <2>3, <3>1 DEF CanEdit, Fit, Result
      <3>3. row.actions \in Nat /\ RecordSystemChange(row).actions = row.actions + 1
        BY <2>0 DEF RecordSystemChange, ReviewRecords
      <3>4. RecordSystemChange(row).status = row.status
        BY <2>0 DEF RecordSystemChange, ReviewRecords
      <3>5. row.status # "completed"
        BY <3>1, <3>2, <3>3, <3>4 DEF ChangesClosedReview, SameAssessorResponse
      <3> QED
        BY <3>2, <3>5
    <2> QED
      BY <2>3, <2>4, <2>5
  <1>2. LInv /\ [Next]_vars =>
          [\A r \in ReadOnly : Ends(r) =>
             \/ row' = row
             \/ row.status # "completed" /\ row' = RecordSystemChange(row)]_vars
    BY <1>1
  <1>3. Spec => []LInv
    BY LInvInvariant
  <1> QED
    BY <1>2, <1>3, PTL DEF Spec, LeadsOnlyNoteChanges

\* Requests that overlap can break it; when no two saves overlap, a completed
\* review changes only by being reopened or finalised, as the comment in
\* Review.save has it.
THEOREM ClosedUntilReopened ==
  ASSUME SerialSaves
  PROVE  Spec => CompletedOnlyReopens
  <1> DEFINE Allowed == \/ row' = Reopen(row)
                        \/ \E who \in Requests : row' = FinaliseReview(row, who)
  <1>1. ASSUME LInv, [Next]_vars, row.status = "completed", row' # row
        PROVE  Allowed
    <2>1. Next
      BY <1>1 DEF vars
    <2>2. Lifecycle!Next
      BY <1>1, <2>1, StepIsOperation DEF Next
    <2> QED
      BY <1>1, <2>2, SameOperators DEF Lifecycle!Next, Lifecycle!EditSection,
         Lifecycle!ConfirmScope, Lifecycle!NoteSystemChange, Lifecycle!Complete,
         Lifecycle!Finalise, Lifecycle!ReopenReport
  <1>2. LInv /\ [Next]_vars => [row.status = "completed" /\ row' # row => Allowed]_vars
    BY <1>1
  <1>3. Spec => []LInv
    BY LInvInvariant
  <1> QED
    BY <1>2, <1>3, PTL DEF Spec, CompletedOnlyReopens

=============================================================================
