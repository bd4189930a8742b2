----------------------------- MODULE TipProofs -----------------------------
(***************************************************************************)
(* What Tip promises for every number of requests, roles, recommendations  *)
(* and texts, however the requests overlap.  Every instance a request      *)
(* holds, and every page of the back office, is a plan as sound as the     *)
(* stored one, so that writing a stale one back keeps the plan sound, until*)
(* a superuser saves a page that showed another status.  What the leads    *)
(* have confirmed and signed stays theirs even then.                       *)
(***************************************************************************)
EXTENDS Tip, TLAPS

Signed(t) ==
  /\ t \in TipRecords
  /\ t.confirmation # None => Role[t.confirmation.by] = "organisation_lead"
  /\ t.finalise # None => Role[t.finalise] = "organisation_lead"

Sound(t) ==
  /\ t \in TipRecords
  /\ t.confirmation # None => t.confirmation.answers = t.answers
  /\ IsSubmitted(t) => AllReviewed(t) /\ t.finalise # None
  /\ t.confirmation # None <=> IsSubmitted(t) \/ t.status = "answers_confirmed"

SignedInv ==
  /\ Signed(tip)
  /\ req \in [Requests -> RequestRecords]
  /\ \A r \in Requests : Signed(req[r].held)
  /\ mixed \in 0..MaxMixed

\* While no page has been saved under another status.
SoundInv ==
  /\ Sound(tip)
  /\ \A r \in Requests : Sound(req[r].held)

Inv ==
  /\ SignedInv
  /\ mixed = 0 => SoundInv

LEMMA BlankAnswers == [rec \in Recommendations |-> Blank] \in Answers
  BY DEF Answers, Actions

LEMMA NewTipSound == Sound(NewTip) /\ Signed(NewTip)
  <1>1. NewTip \in TipRecords
    BY BlankAnswers DEF NewTip, TipRecords, TipStatuses
  <1>2. NewTip.confirmation = None /\ NewTip.finalise = None /\ NewTip.status = "to_do"
    BY DEF NewTip
  <1> QED
    BY <1>1, <1>2 DEF Sound, Signed, IsSubmitted

-----------------------------------------------------------------------------
(* What the methods make of a plan.                                        *)

\* New answers end a confirmation.
LEMMA SetSound ==
  ASSUME NEW t, Sound(t), t.status \in Actionable, NEW answers \in Answers
  PROVE  Sound(SetRecommendationActions(t, answers))
  <1> DEFINE u == SetRecommendationActions(t, answers)
  <1>1. /\ u.status = "in_progress" /\ u.answers = answers /\ u.finalise = t.finalise
        /\ u.confirmation = IF t.status = "answers_confirmed" THEN None ELSE t.confirmation
    BY DEF Sound, SetRecommendationActions, TipRecords
  <1>2. t.confirmation = None \/ t.status = "answers_confirmed"
    BY DEF Sound, Actionable, IsSubmitted
  <1>3. u.confirmation = None
    BY <1>1, <1>2
  <1>4. u \in TipRecords
    BY <1>1, <1>3 DEF Sound, SetRecommendationActions, TipRecords, TipStatuses
  <1> QED
    BY <1>1, <1>3, <1>4 DEF Sound, IsSubmitted

\* The confirmation of a lead, spelt out.
LEMMA ConfirmedBy ==
  ASSUME NEW t \in TipRecords, NEW r \in Requests
  PROVE  \E c \in Confirmations :
           /\ c # None /\ c.by = r /\ c.answers = t.answers
           /\ ConfirmAnswers(t, r) =
                [t EXCEPT !.confirmation = c, !.status = "answers_confirmed"]
  <1> DEFINE c == [by |-> r, answers |-> t.answers]
  <1>1. c \in Confirmations /\ c.answers = t.answers /\ c.by = r /\ c # None
    BY ConfirmationAssumption DEF Confirmations, TipRecords
  <1>2. ConfirmAnswers(t, r) = [t EXCEPT !.confirmation = c, !.status = "answers_confirmed"]
    BY DEF ConfirmAnswers
  <1> HIDE DEF c
  <1> QED
    BY <1>1, <1>2

\* The decisions of the lead and of staff, on the plans they are offered for.
LEMMA DecisionsSound ==
  ASSUME NEW t, Sound(t), NEW r \in Requests
  PROVE  /\ IsReadyToSubmit(t) => Sound(SubmitReport(t, r))
         /\ t.status = "review" => Sound(Approve(t)) /\ Sound(Reject(t))
         /\ t.status = "approved" => Sound(Reopen(t))
         /\ t.status = "in_progress" => Sound(ConfirmAnswers(t, r))
  <1>1. ASSUME IsReadyToSubmit(t)
        PROVE  Sound(SubmitReport(t, r))
    BY <1>1, TipAssumption DEF IsReadyToSubmit, AllReviewed, Sound, SubmitReport, TipRecords,
            TipStatuses, IsSubmitted
  <1>2. ASSUME t.status = "review"
        PROVE  Sound(Approve(t))
    BY <1>2 DEF AllReviewed, Sound, Approve, TipRecords, TipStatuses, IsSubmitted
  <1>3. ASSUME t.status = "review"
        PROVE  Sound(Reject(t))
    BY <1>3 DEF Sound, Reject, TipRecords, TipStatuses, IsSubmitted
  <1>4. ASSUME t.status = "approved"
        PROVE  Sound(Reopen(t))
    BY <1>4 DEF Sound, Reopen, TipRecords, TipStatuses, IsSubmitted
  <1>5. ASSUME t.status = "in_progress"
        PROVE  Sound(ConfirmAnswers(t, r))
    <2>1. t \in TipRecords
      BY DEF Sound
    <2>2. PICK c \in Confirmations :
             /\ c # None /\ c.by = r /\ c.answers = t.answers
             /\ ConfirmAnswers(t, r) =
                  [t EXCEPT !.confirmation = c, !.status = "answers_confirmed"]
      BY <2>1, ConfirmedBy
    <2> QED
      BY <1>5, <2>1, <2>2 DEF Sound, TipRecords, TipStatuses, IsSubmitted
  <1> QED
    BY <1>1, <1>2, <1>3, <1>4, <1>5

\* Whatever the plan, the methods leave what is signed to the leads.
LEMMA MethodsSigned ==
  ASSUME NEW t, Signed(t), NEW r \in Requests
  PROVE  /\ \A answers \in Answers : Signed(SetRecommendationActions(t, answers))
         /\ Role[r] = "organisation_lead" => Signed(SubmitReport(t, r))
         /\ Role[r] = "organisation_lead" => Signed(ConfirmAnswers(t, r))
         /\ Signed(Approve(t)) /\ Signed(Reject(t)) /\ Signed(Reopen(t))
  <1>0. t \in TipRecords
    BY DEF Signed
  <1>1. ASSUME NEW answers \in Answers
        PROVE  Signed(SetRecommendationActions(t, answers))
    <2> DEFINE kept == IF t.status = "answers_confirmed" THEN None ELSE t.confirmation
    <2>1. kept \in Confirmations \cup {None} /\ (kept = t.confirmation \/ kept = None)
      BY <1>0 DEF TipRecords
    <2>2. SetRecommendationActions(t, answers) =
            [t EXCEPT !.answers = answers, !.status = "in_progress", !.confirmation = kept]
      BY <1>0 DEF SetRecommendationActions, TipRecords
    <2> HIDE DEF kept
    <2> QED
      BY <1>0, <2>1, <2>2 DEF Signed, TipRecords, TipStatuses
  <1>2. ASSUME Role[r] = "organisation_lead"
        PROVE  Signed(SubmitReport(t, r))
    BY <1>0, <1>2 DEF Signed, SubmitReport, TipRecords, TipStatuses
  <1>3. ASSUME Role[r] = "organisation_lead"
        PROVE  Signed(ConfirmAnswers(t, r))
    <2>1. PICK c \in Confirmations :
             /\ c # None /\ c.by = r /\ c.answers = t.answers
             /\ ConfirmAnswers(t, r) =
                  [t EXCEPT !.confirmation = c, !.status = "answers_confirmed"]
      BY <1>0, ConfirmedBy
    <2> QED
      BY <1>0, <1>3, <2>1 DEF Signed, TipRecords, TipStatuses
  <1>4. Signed(Approve(t)) /\ Signed(Reject(t)) /\ Signed(Reopen(t))
    BY <1>0 DEF Signed, Approve, Reject, Reopen, TipRecords, TipStatuses
  <1> QED
    BY <1>1, <1>2, <1>3, <1>4

-----------------------------------------------------------------------------
(* Steps.                                                                  *)

\* What a page posts back is signed as the page was.
LEMMA PostedSigned ==
  ASSUME SignedInv, NEW r \in Requests
  PROVE  /\ Signed(Posted(r))
         /\ req[r].held.status = tip.status => Posted(r) = req[r].held
  BY DEF SignedInv, Signed, Posted, TipRecords

\* A request that takes hold of an instance.
LEMMA HoldKeeps ==
  ASSUME SignedInv, NEW r \in Requests, NEW new, Signed(new), Hold(r, new),
         mixed' \in 0..MaxMixed
  PROVE  /\ SignedInv'
         /\ SoundInv /\ Sound(new) => SoundInv'
  <1>1. new \in TipRecords
    BY DEF Signed
  <1>2. req' = [req EXCEPT ![r].pc = "loaded", ![r].held = new] /\ tip' = tip
    BY DEF Hold
  <1>3. req' \in [Requests -> RequestRecords]
    BY <1>1, <1>2 DEF SignedInv, RequestRecords, Phases
  <1>4. ASSUME NEW q \in Requests
        PROVE  req'[q].held = IF q = r THEN new ELSE req[q].held
    BY <1>2 DEF SignedInv, RequestRecords
  <1>5. SignedInv'
    BY <1>2, <1>3, <1>4 DEF SignedInv, Signed
  <1>6. ASSUME SoundInv, Sound(new)
        PROVE  SoundInv'
    <2>1. Sound(tip)'
      BY <1>2, <1>6 DEF SoundInv, Sound, IsSubmitted, AllReviewed, Reviewed
    <2>2. ASSUME NEW q \in Requests
          PROVE  Sound(req[q].held)'
      <3>1. req'[q].held = new \/ req'[q].held = req[q].held
        BY <1>4
      <3> QED
        BY <1>6, <3>1 DEF SoundInv, Sound, IsSubmitted, AllReviewed, Reviewed
    <2> QED
      BY <2>1, <2>2 DEF SoundInv
  <1> QED
    BY <1>5, <1>6

\* A page shows the stored plan.
LEMMA ShowKeeps ==
  ASSUME SignedInv, NEW r \in Requests, OpenChangeForm(r), mixed' = mixed
  PROVE  /\ SignedInv'
         /\ SoundInv => SoundInv'
  <1>1. [pc |-> "form", held |-> tip] \in RequestRecords
    BY DEF SignedInv, Signed, TipRecords, RequestRecords, Phases
  <1>2. tip' = tip /\ req' = [req EXCEPT ![r] = [pc |-> "form", held |-> tip]]
    BY DEF OpenChangeForm
  <1>3. req' \in [Requests -> RequestRecords]
    BY <1>1, <1>2 DEF SignedInv
  <1>4. ASSUME NEW q \in Requests
        PROVE  req'[q].held = IF q = r THEN tip ELSE req[q].held
    BY <1>2 DEF SignedInv
  <1> QED
    BY <1>2, <1>3, <1>4 DEF SignedInv, SoundInv, Signed, Sound, IsSubmitted, AllReviewed, Reviewed

LEMMA NoRequestSound ==
  /\ NoRequest \in RequestRecords
  /\ NoRequest.held = NewTip
  BY NewTipSound, BlankAnswers DEF NoRequest, RequestRecords, Phases, Sound, NewTip

\* The instance is written, or the page left.
LEMMA EndKeeps ==
  ASSUME SignedInv, NEW r \in Requests, Leave(r) \/ Save(r), mixed' = mixed
  PROVE  /\ SignedInv'
         /\ SoundInv => SoundInv'
  <1>1. /\ tip' = tip \/ tip' = req[r].held
        /\ req' = [req EXCEPT ![r] = NoRequest]
    BY DEF Leave, Save
  <1>2. req' \in [Requests -> RequestRecords]
    BY <1>1, NoRequestSound DEF SignedInv
  <1>3. ASSUME NEW q \in Requests
        PROVE  req'[q].held = IF q = r THEN NewTip ELSE req[q].held
    BY <1>1, NoRequestSound DEF SignedInv
  <1>4. SignedInv'
    BY <1>1, <1>2, <1>3, NewTipSound DEF SignedInv, Signed
  <1>5. ASSUME SoundInv
        PROVE  SoundInv'
    BY <1>1, <1>3, <1>5, NewTipSound DEF SoundInv, Sound, IsSubmitted, AllReviewed, Reviewed
  <1> QED
    BY <1>4, <1>5

LEMMA StepKeeps ==
  ASSUME SignedInv, NEW r \in Requests, Step(r), mixed' = mixed
  PROVE  /\ SignedInv'
         /\ SoundInv => SoundInv'
  <1>0. /\ Signed(tip) /\ Signed(req[r].held) /\ tip.answers \in Answers
        /\ mixed' \in 0..MaxMixed
        /\ SoundInv => Sound(tip) /\ Sound(req[r].held)
    BY DEF SignedInv, SoundInv, Signed, TipRecords
  <1>1. CASE \E rec \in Recommendations, text \in Texts, reviewed \in BOOLEAN :
               ActOnRecommendation(r, rec, text, reviewed)
    <2> PICK rec \in Recommendations, text \in Texts, reviewed \in BOOLEAN :
               ActOnRecommendation(r, rec, text, reviewed)
      BY <1>1
    <2> DEFINE answers == [tip.answers EXCEPT ![rec] =
                             [kind |-> "action", text |-> text, reviewed |-> reviewed]]
               new == SetRecommendationActions(tip, answers)
    <2>1. [kind |-> "action", text |-> text, reviewed |-> reviewed] \in Actions
      BY DEF Actions
    <2>2. answers \in Answers
      BY <1>0, <2>1 DEF Answers
    <2>3. tip.status \in Actionable /\ Hold(r, new)
      BY DEF ActOnRecommendation
    <2> HIDE DEF answers
    <2>4. Signed(new)
      BY <1>0, <2>2, MethodsSigned
    <2>5. SoundInv => Sound(new)
      BY <1>0, <2>2, <2>3, SetSound
    <2> HIDE DEF new
    <2> QED
      BY <1>0, <2>3, <2>4, <2>5, HoldKeeps
  <1>2. CASE \E page \in SUBSET Other : BulkReview(r, page)
    <2> PICK page \in SUBSET Other : BulkReview(r, page)
      BY <1>2
    <2> DEFINE open == {rec \in page : tip.answers[rec] = Blank}
               entry == [kind |-> "action", text |-> NotProvided, reviewed |-> TRUE]
               answers == [rec \in Recommendations |->
                             IF rec \in open THEN entry ELSE tip.answers[rec]]
               new == IF open = {} THEN tip ELSE SetRecommendationActions(tip, answers)
    <2>1. entry \in Actions
      BY TipAssumption DEF Actions
    <2>2. answers \in Answers
      BY <1>0, <2>1 DEF Answers
    <2>3. CanEdit(r) /\ Hold(r, new)
      BY DEF BulkReview
    <2>4. tip.status \in Actionable
      BY <1>0, <2>3 DEF CanEdit, IsSubmitted, Actionable, Signed, TipRecords, TipStatuses
    <2> HIDE DEF open, answers
    <2>5. Signed(new)
      BY <1>0, <2>2, MethodsSigned
    <2>6. SoundInv => Sound(new)
      BY <1>0, <2>2, <2>4, SetSound
    <2> HIDE DEF new
    <2> QED
      BY <1>0, <2>3, <2>5, <2>6, HoldKeeps
  <1>3. CASE ConfirmStoredAnswers(r)
    <2>1. /\ Role[r] = "organisation_lead" /\ tip.status = "in_progress"
          /\ Hold(r, ConfirmAnswers(tip, r))
      BY <1>3 DEF ConfirmStoredAnswers
    <2> QED
      BY <1>0, <2>1, MethodsSigned, DecisionsSound, HoldKeeps
  <1>4. CASE SubmitTip(r)
    <2>1. /\ Role[r] = "organisation_lead" /\ IsReadyToSubmit(tip)
          /\ Hold(r, SubmitReport(tip, r))
      BY <1>4 DEF SubmitTip
    <2> QED
      BY <1>0, <2>1, MethodsSigned, DecisionsSound, HoldKeeps
  <1>5. CASE OpenChangeForm(r)
    BY <1>5, ShowKeeps
  <1>6. CASE ApproveTip(r) \/ RejectTip(r) \/ ReopenTip(r)
    <2>1. Posted(r) = req[r].held
      BY <1>6, PostedSigned DEF ApproveTip, RejectTip, ReopenTip
    <2>2. \/ req[r].held.status = "review" /\ Hold(r, Approve(req[r].held))
          \/ req[r].held.status = "review" /\ Hold(r, Reject(req[r].held))
          \/ req[r].held.status = "approved" /\ Hold(r, Reopen(req[r].held))
      BY <1>6, <2>1 DEF ApproveTip, RejectTip, ReopenTip
    <2>3. /\ Signed(Approve(req[r].held)) /\ Signed(Reject(req[r].held))
          /\ Signed(Reopen(req[r].held))
      BY <1>0, MethodsSigned
    <2>4. SoundInv => /\ req[r].held.status = "review" =>
                           Sound(Approve(req[r].held)) /\ Sound(Reject(req[r].held))
                      /\ req[r].held.status = "approved" => Sound(Reopen(req[r].held))
      BY <1>0, DecisionsSound
    <2> QED
      BY <1>0, <2>2, <2>3, <2>4, HoldKeeps
  <1>7. CASE Leave(r) \/ Save(r)
    BY <1>7, EndKeeps
  <1> QED
    BY <1>1, <1>2, <1>3, <1>4, <1>5, <1>6, <1>7 DEF Step

\* A page saved under the status it showed is as sound as it was.
LEMMA SavePageKeeps ==
  ASSUME Inv, NEW r \in Requests, SavePage(r)
  PROVE  Inv'
  <1>1. /\ Hold(r, Posted(r))
        /\ mixed \in 0..MaxMixed
        /\ mixed' = IF req[r].held.status = tip.status THEN mixed ELSE mixed + 1
        /\ mixed' <= MaxMixed
    BY DEF SavePage, Inv, SignedInv
  <1>2. mixed' \in 0..MaxMixed
    BY <1>1, TipAssumption
  <1>3. mixed' = 0 => mixed = 0 /\ req[r].held.status = tip.status
    BY <1>1
  <1>4. mixed' = 0 => Sound(Posted(r))
    BY <1>3, PostedSigned DEF Inv, SoundInv
  <1> DEFINE new == Posted(r)
  <1>5. Signed(new) /\ Hold(r, new) /\ (mixed' = 0 => Sound(new))
    BY <1>1, <1>4, PostedSigned DEF Inv
  <1> HIDE DEF new
  <1> QED
    BY <1>2, <1>3, <1>5, HoldKeeps DEF Inv

LEMMA InvInvariant == Spec => []Inv
  <1>1. Init => Inv
    <2> SUFFICES ASSUME Init PROVE Inv
      OBVIOUS
    <2>1. tip = NewTip /\ req = [r \in Requests |-> NoRequest] /\ mixed = 0
      BY DEF Init
    <2> QED
      BY <2>1, NewTipSound, NoRequestSound, TipAssumption DEF Inv, SignedInv, SoundInv
  <1>2. Inv /\ [Next]_vars => Inv'
    <2> SUFFICES ASSUME Inv, [Next]_vars PROVE Inv'
      OBVIOUS
    <2>1. CASE \E r \in Requests : Step(r) /\ UNCHANGED mixed
      BY <2>1, StepKeeps DEF Inv
    <2>2. CASE \E r \in Requests : SavePage(r)
      BY <2>2, SavePageKeeps
    <2>3. CASE UNCHANGED vars
      BY <2>3 DEF vars, Inv, SignedInv, SoundInv, Signed, Sound, IsSubmitted, AllReviewed,
              Reviewed
    <2> QED
      BY <2>1, <2>2, <2>3 DEF Next
  <1> QED
    BY <1>1, <1>2, PTL DEF Spec

\* The plan and the requests keep their types.
THEOREM TipTypeCorrect == Spec => []TypeOK
  <1>1. Inv => TypeOK
    BY DEF Inv, SignedInv, Signed, TypeOK
  <1> QED
    BY <1>1, InvInvariant, PTL

\* However requests overlap, a stored confirmation is about the stored answers,
\* as long as no page has been saved under a status it did not show.
THEOREM ConfirmationIsOfAnswers == Spec => []ConfirmsItsAnswers
  <1>1. Inv => ConfirmsItsAnswers
    BY DEF Inv, SoundInv, Sound, ConfirmsItsAnswers
  <1> QED
    BY <1>1, InvInvariant, PTL

\* However requests overlap, a plan that has been submitted is complete,
\* confirmed and signed off, and stays so when superusers save pages that show
\* the status of the plan.
THEOREM SubmittedPlanIsComplete == Spec => []SubmittedIsComplete
  <1>1. Inv => SubmittedIsComplete
    BY DEF Inv, SoundInv, Sound, SubmittedIsComplete
  <1> QED
    BY <1>1, InvInvariant, PTL

\* However requests overlap, and whatever pages superusers save, leads have
\* confirmed and signed what staff decide on.
THEOREM SubmissionIsSigned == Spec => []SignedByLead
  <1>1. Inv => SignedByLead
    BY DEF Inv, SignedInv, Signed, SignedByLead
  <1> QED
    BY <1>1, InvInvariant, PTL

=============================================================================
