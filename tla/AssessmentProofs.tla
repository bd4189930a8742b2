-------------------------- MODULE AssessmentProofs --------------------------
(***************************************************************************)
(* What Assessment promises for every number of users, systems, outcomes   *)
(* and assessments.  However the requests overlap, each instance that is   *)
(* going to be saved is as sound as the stored rows.                       *)
(***************************************************************************)
EXTENDS Assessment, TLAPS

Sound(a) ==
  /\ a \in AssessmentRecords
  /\ a.status = "submitted" => \A o \in Outcomes : a.outcomes[o].confirmed # None

\* A session is about an assessment that exists.
SessionsInv == \A u \in Users : session[u].id # None => rows[session[u].id] # None

RequestInv(r) ==
  /\ r.pc # "idle" => r.id \in Ids /\ rows[r.id] # None
  /\ r.pc \in {"loaded", "submitting", "initiating"} => Sound(r.held)
  /\ r.pc = "judged" => r.outcome \in Outcomes /\ r.status \in OutcomeStatuses

Inv ==
  /\ TypeOK
  /\ \A id \in Ids : rows[id] # None => Sound(rows[id])
  /\ SessionsInv
  /\ \A u \in Users : RequestInv(req[u])

LEMMA IdleRequest ==
  /\ NoRequest \in RequestRecords
  /\ NoRequest.pc = "idle"
  BY DEF NoRequest, RequestRecords, Phases

LEMMA InitInv == Init => Inv
  <1> SUFFICES ASSUME Init PROVE Inv
    OBVIOUS
  <1>1. EmptySession \in Sessions
    BY DEF EmptySession, Sessions
  <1>2. TypeOK
    BY <1>1, IdleRequest DEF Init, TypeOK
  <1>3. \A u \in Users : session[u].id = None /\ req[u].pc = "idle"
    BY IdleRequest DEF Init, EmptySession
  <1> QED
    BY <1>2, <1>3 DEF Init, Inv, SessionsInv, RequestInv

-----------------------------------------------------------------------------
(* The operations on an instance.                                          *)

LEMMA StatusIsAStatus == \A answer : GetStatus(answer) \in OutcomeStatuses
  BY DEF GetStatus, OutcomeStatuses

LEMMA IndicatorsSound ==
  ASSUME NEW a, Sound(a), a.status = "draft", NEW o \in Outcomes, NEW answer \in Answers
  PROVE  Sound(SetIndicators(a, o, answer)) /\ SetIndicators(a, o, answer).status = "draft"
  BY DEF Sound, SetIndicators, AssessmentRecords, OutcomeRecords

LEMMA ConfirmationSound ==
  ASSUME NEW a, Sound(a), a.status = "draft", NEW o \in Outcomes, NEW st \in OutcomeStatuses
  PROVE  Sound(SetConfirmation(a, o, st)) /\ SetConfirmation(a, o, st).status = "draft"
  BY DEF Sound, SetConfirmation, AssessmentRecords, OutcomeRecords

LEMMA DetailsSound ==
  ASSUME NEW a, Sound(a), NEW s \in Sessions, HasDetails(s)
  PROVE  /\ Sound(ChangeDetails(a, s))
         /\ ChangeDetails(a, s).status = a.status
         /\ ChangeDetails(a, s).outcomes = a.outcomes
  BY DEF Sound, ChangeDetails, Sessions, HasDetails, AssessmentRecords

LEMMA NewSound ==
  ASSUME NEW s \in Sessions, HasDetails(s)
  PROVE  /\ Sound(NewAssessment(s))
         /\ NewAssessment(s).status = "draft"
         /\ \A o \in Outcomes : NewAssessment(s).outcomes[o].confirmed = None
  BY DEF Sound, NewAssessment, NoAnswer, Sessions, HasDetails, AssessmentRecords, OutcomeRecords

LEMMA SubmissionSound ==
  ASSUME NEW a, Sound(a), IsComplete(a)
  PROVE  /\ Sound([a EXCEPT !.status = "submitted"])
         /\ [a EXCEPT !.status = "submitted"].status = "submitted"
         /\ [a EXCEPT !.status = "submitted"].outcomes = a.outcomes
  BY DEF Sound, IsComplete, AssessmentRecords

LEMMA ChoicesTyped ==
  ASSUME NEW s \in Sessions, NEW t \in Choices(s)
  PROVE  t \in Sessions /\ t.id = s.id
  <1>1. CASE \E system \in Systems : t = ChooseSystem(s, system)
    BY <1>1 DEF ChooseSystem, Sessions
  <1>2. CASE \E profile \in Profiles : t = ChooseProfile(s, profile)
    BY <1>2, AssessmentAssumption DEF ChooseProfile, Sessions
  <1>3. CASE \E type \in ReviewTypes : t = ChooseReviewType(s, type)
    BY <1>3 DEF ChooseReviewType, Sessions
  <1> QED
    BY <1>1, <1>2, <1>3 DEF Choices

-----------------------------------------------------------------------------
(* The steps.                                                              *)

\* A step that leaves the rows alone keeps what is said of them.
LEMMA SameRows ==
  ASSUME Inv, rows' = rows, reviews' = reviews, session' = session,
         NEW u \in Users, NEW r, r \in RequestRecords, RequestInv(r),
         req' = [req EXCEPT ![u] = r]
  PROVE  Inv'
  <1>1. \A v \in Users : req'[v] = IF v = u THEN r ELSE req[v]
    BY DEF Inv, TypeOK
  <1>2. TypeOK'
    BY DEF Inv, TypeOK
  <1>3. (\A v \in Users : RequestInv(req[v]))'
    BY <1>1 DEF Inv, RequestInv, Sound
  <1>4. (\A id \in Ids : rows[id] # None => Sound(rows[id]))'
    BY DEF Inv, Sound
  <1>5. SessionsInv'
    BY DEF Inv, SessionsInv
  <1> QED
    BY <1>2, <1>3, <1>4, <1>5 DEF Inv

\* So does a step that only changes the session, to one of an existing row.
LEMMA SameRequests ==
  ASSUME Inv, rows' = rows, reviews' = reviews, req' = req,
         NEW u \in Users, NEW s \in Sessions, s.id # None => rows[s.id] # None,
         session' = [session EXCEPT ![u] = s]
  PROVE  Inv'
  <1>1. \A v \in Users : session'[v] = IF v = u THEN s ELSE session[v]
    BY DEF Inv, TypeOK
  <1>2. TypeOK'
    BY DEF Inv, TypeOK
  <1>3. SessionsInv'
    BY <1>1 DEF Inv, SessionsInv
  <1> QED
    BY <1>2, <1>3 DEF Inv, RequestInv, Sound

\* A sound row stored in the place of another, or of none.
LEMMA StoreSound ==
  ASSUME Inv, NEW id \in Ids, NEW a, Sound(a), rows' = [rows EXCEPT ![id] = a]
  PROVE  /\ rows' \in [Ids -> AssessmentRecords \cup {None}]
         /\ \A other \in Ids : rows[other] # None => rows'[other] # None
         /\ rows'[id] = a /\ a # None
         /\ (\A other \in Ids : rows[other] # None => Sound(rows[other]))'
  <1>1. a \in AssessmentRecords /\ a # None
    BY RowAssumption DEF Sound
  <1>2. \A other \in Ids : rows'[other] = IF other = id THEN a ELSE rows[other]
    BY DEF Inv, TypeOK
  <1>3. rows' \in [Ids -> AssessmentRecords \cup {None}]
    BY <1>1 DEF Inv, TypeOK
  <1> QED
    BY <1>1, <1>2, <1>3 DEF Inv, Sound

LEMMA AccountInv == ASSUME Inv, NEW u \in Users, Account(u) PROVE Inv'
  <1>1. EmptySession \in Sessions /\ EmptySession.id = None
    BY DEF EmptySession, Sessions
  <1> QED
    BY <1>1, SameRequests DEF Account

LEMMA OpenDraftInv ==
  ASSUME Inv, NEW u \in Users, NEW id \in Ids, OpenDraft(u, id) PROVE Inv'
  <1> DEFINE s == [id |-> id, system |-> rows[id].system, caf_profile |-> rows[id].caf_profile,
                   review_type |-> rows[id].review_type]
  <1>1. rows[id] \in AssessmentRecords
    BY DEF OpenDraft, IsDraft, Inv, Sound
  <1>2. s \in Sessions /\ s.id = id
    BY <1>1 DEF Sessions, AssessmentRecords
  <1>3. rows[s.id] # None
    BY <1>2 DEF OpenDraft, IsDraft
  <1>4. rows' = rows /\ reviews' = reviews /\ req' = req /\ session' = [session EXCEPT ![u] = s]
    BY DEF OpenDraft
  <1> QED
    BY <1>2, <1>3, <1>4, SameRequests

LEMMA CreateDraftInv == ASSUME Inv, NEW u \in Users, CreateDraft(u) PROVE Inv'
  <1>1. PICK s \in Choices(session[u]) : CreateDraft(u)!(s)
    BY DEF CreateDraft
  <1>2. s \in Sessions /\ s.id = session[u].id
    BY ChoicesTyped DEF Inv, TypeOK
  <1>3. CASE HasDetails(s) /\ DraftsOf(s.system) = {}
    <2>1. PICK id \in Ids : /\ rows[id] = None
                           /\ rows' = [rows EXCEPT ![id] = NewAssessment(s)]
                           /\ session' = [session EXCEPT ![u] = [s EXCEPT !.id = id]]
      BY <1>1, <1>3
    <2>2. Sound(NewAssessment(s))
      BY <1>2, <1>3, NewSound
    <2>3. [s EXCEPT !.id = id] \in Sessions /\ [s EXCEPT !.id = id].id = id
      BY <1>2 DEF Sessions
    <2>4. TypeOK' /\ req' = req
      BY <1>1, <2>1, <2>2, <2>3, StoreSound DEF Inv, TypeOK
    <2>5. /\ \A other \in Ids : rows[other] # None => rows'[other] # None
          /\ rows'[id] # None
          /\ (\A other \in Ids : rows[other] # None => Sound(rows[other]))'
      BY <2>1, <2>2, StoreSound
    <2>6. \A v \in Users : session'[v].id = IF v = u THEN id ELSE session[v].id
      BY <2>1, <2>3 DEF Inv, TypeOK
    <2>7. \A v \in Users : session[v].id \in Ids \cup {None}
      BY DEF Inv, TypeOK, Sessions
    <2>8. SessionsInv'
      BY <2>5, <2>6, <2>7 DEF Inv, SessionsInv
    <2>9. (\A v \in Users : RequestInv(req[v]))'
      BY <2>4, <2>5 DEF Inv, RequestInv, Sound
    <2> QED
      BY <2>4, <2>5, <2>8, <2>9 DEF Inv
  <1>4. CASE ~ (HasDetails(s) /\ DraftsOf(s.system) = {})
    <2>1. PICK id \in IF HasDetails(s) THEN DraftsOf(s.system) ELSE {s.id} :
            session' = [session EXCEPT ![u] = [s EXCEPT !.id = id]]
      BY <1>1, <1>4
    <2>2. id \in Ids \cup {None} /\ (id # None => rows[id] # None)
      BY <1>2, <2>1 DEF DraftsOf, IsDraft, Inv, SessionsInv, Sessions
    <2>3. [s EXCEPT !.id = id] \in Sessions /\ [s EXCEPT !.id = id].id = id
      BY <1>2, <2>2 DEF Sessions
    <2>4. rows' = rows /\ reviews' = reviews /\ req' = req
      BY <1>1, <1>4
    <2> QED
      BY <2>1, <2>2, <2>3, <2>4, SameRequests
  <1> QED
    BY <1>3, <1>4

\* A request that has loaded a row and holds a sound instance of it.
LEMMA HoldInv ==
  ASSUME Inv, rows' = rows, reviews' = reviews, session' = session,
         NEW u \in Users, NEW pc \in {"loaded", "submitting"},
         NEW id \in Ids, rows[id] # None, NEW new, Sound(new), Hold(u, pc, id, new)
  PROVE  Inv'
  <1> DEFINE r == [NoRequest EXCEPT !.pc = pc, !.id = id, !.held = new]
  <1>1. r \in RequestRecords /\ r.pc = pc /\ r.id = id /\ r.held = new
    BY DEF NoRequest, RequestRecords, Phases, Sound
  <1>2. RequestInv(r)
    BY <1>1 DEF RequestInv
  <1>3. req' = [req EXCEPT ![u] = r]
    BY DEF Hold
  <1> HIDE DEF r
  <1> QED
    BY <1>1, <1>2, <1>3, SameRows

LEMMA EditDetailsInv == ASSUME Inv, NEW u \in Users, EditDetails(u) PROVE Inv'
  <1>1. PICK s \in Choices(session[u]), url \in Ids : EditDetails(u)!(s, url)
    BY DEF EditDetails
  <1>2. s \in Sessions /\ s.id = session[u].id
    BY ChoicesTyped DEF Inv, TypeOK
  <1>3. s.id # None => s.id \in Ids /\ rows[s.id] # None
    BY <1>2 DEF Inv, SessionsInv, Sessions
  <1>4. rows' = rows /\ reviews' = reviews /\ session' = [session EXCEPT ![u] = s]
    BY <1>1
  <1>5. CASE HasDetails(s) /\ s.id # None
    <2> DEFINE new == ChangeDetails(rows[s.id], s)
               r == [NoRequest EXCEPT !.pc = "loaded", !.id = s.id, !.held = new]
    <2>1. Sound(rows[s.id])
      BY <1>3, <1>5 DEF Inv
    <2>2. Sound(new)
      BY <1>2, <1>5, <2>1, DetailsSound
    <2> HIDE DEF new
    <2>3. r \in RequestRecords /\ r.pc = "loaded" /\ r.id = s.id /\ r.held = new
      BY <1>3, <1>5, <2>2 DEF NoRequest, RequestRecords, Phases, Sound
    <2>4. req' = [req EXCEPT ![u] = r]
      BY <1>1, <1>5 DEF Hold, new
    <2> HIDE DEF r
    <2>5. RequestInv(r)
      BY <1>3, <1>5, <2>2, <2>3 DEF RequestInv
    <2>6. \A v \in Users : /\ req'[v] = IF v = u THEN r ELSE req[v]
                          /\ session'[v] = IF v = u THEN s ELSE session[v]
      BY <1>4, <2>4 DEF Inv, TypeOK
    <2>7. TypeOK'
      BY <1>2, <1>4, <2>3, <2>4 DEF Inv, TypeOK
    <2>8. SessionsInv'
      BY <1>3, <1>4, <2>6 DEF Inv, SessionsInv
    <2>9. (\A v \in Users : RequestInv(req[v]))'
      BY <1>4, <2>5, <2>6 DEF Inv, RequestInv, Sound
    <2> QED
      BY <1>4, <2>7, <2>8, <2>9 DEF Inv, Sound
  <1>6. CASE ~ (HasDetails(s) /\ s.id # None)
    <2>1. req' = req
      BY <1>1, <1>6
    <2> QED
      BY <1>2, <1>3, <1>4, <2>1, SameRequests
  <1> QED
    BY <1>5, <1>6

\* The draft a session is about.
LEMMA DraftOfSession ==
  ASSUME Inv, NEW u \in Users, IsDraft(session[u].id)
  PROVE  /\ session[u].id \in Ids
         /\ rows[session[u].id] # None
         /\ Sound(rows[session[u].id])
         /\ rows[session[u].id].status = "draft"
  <1>1. session[u].id \in Ids \cup {None}
    BY DEF Inv, TypeOK, Sessions
  <1> QED
    BY <1>1 DEF IsDraft, Inv

LEMMA AnswerOutcomeInv ==
  ASSUME Inv, NEW u \in Users, NEW o \in Outcomes, NEW answer \in Answers,
         AnswerOutcome(u, o, answer)
  PROVE  Inv'
  <1>1. IsDraft(session[u].id)
    BY DEF AnswerOutcome
  <1>2. Sound(SetIndicators(rows[session[u].id], o, answer))
    BY <1>1, DraftOfSession, IndicatorsSound
  <1> QED
    BY <1>1, <1>2, DraftOfSession, HoldInv DEF AnswerOutcome

LEMMA JudgeOutcomeInv ==
  ASSUME Inv, NEW u \in Users, NEW o \in Outcomes, JudgeOutcome(u, o) PROVE Inv'
  <1> DEFINE id == session[u].id
             r == [pc |-> "judged", id |-> id, held |-> None, outcome |-> o,
                   status |-> GetStatus(rows[id].outcomes[o].indicators)]
  <1>1. id \in Ids /\ rows[id] # None
    BY DraftOfSession DEF JudgeOutcome
  <1>2. r \in RequestRecords /\ RequestInv(r)
    BY <1>1, StatusIsAStatus DEF RequestRecords, RequestInv, Phases
  <1>3. /\ rows' = rows /\ reviews' = reviews /\ session' = session
        /\ req' = [req EXCEPT ![u] = r]
    BY DEF JudgeOutcome
  <1> HIDE DEF r
  <1> QED
    BY <1>2, <1>3, SameRows

LEMMA ConfirmOutcomeInv == ASSUME Inv, NEW u \in Users, ConfirmOutcome(u) PROVE Inv'
  <1> DEFINE new == SetConfirmation(rows[req[u].id], req[u].outcome, req[u].status)
             r == [req[u] EXCEPT !.pc = "loaded", !.held = new]
  <1>1. req[u] \in RequestRecords /\ req[u].pc = "judged"
    BY DEF ConfirmOutcome, Inv, TypeOK
  <1>2. RequestInv(req[u])
    BY DEF Inv
  <1>3. /\ req[u].id \in Ids /\ rows[req[u].id] # None
        /\ req[u].outcome \in Outcomes /\ req[u].status \in OutcomeStatuses
    BY <1>1, <1>2 DEF RequestInv
  <1>4. Sound(rows[req[u].id]) /\ rows[req[u].id].status = "draft"
    BY <1>3 DEF ConfirmOutcome, IsDraft, Inv
  <1>5. Sound(new)
    BY <1>3, <1>4, ConfirmationSound
  <1>6. rows' = rows /\ reviews' = reviews /\ session' = session
    BY DEF ConfirmOutcome
  <1>7. req' = [req EXCEPT ![u] = r]
    BY <1>1 DEF ConfirmOutcome, Inv, TypeOK
  <1> HIDE DEF new
  <1>8. r \in RequestRecords /\ r.pc = "loaded" /\ r.id = req[u].id /\ r.held = new
    BY <1>1, <1>5 DEF RequestRecords, Phases, Sound
  <1>9. RequestInv(r)
    BY <1>3, <1>5, <1>8 DEF RequestInv
  <1> HIDE DEF r
  <1> QED
    BY <1>6, <1>7, <1>8, <1>9, SameRows

LEMMA SubmitInv == ASSUME Inv, NEW u \in Users, Submit(u) PROVE Inv'
  <1>1. IsDraft(session[u].id) /\ IsComplete(rows[session[u].id])
    BY DEF Submit
  <1>2. Sound([rows[session[u].id] EXCEPT !.status = "submitted"])
    BY <1>1, DraftOfSession, SubmissionSound
  <1> QED
    BY <1>1, <1>2, DraftOfSession, HoldInv DEF Submit

\* A request that has saved its instance and is done, or goes on.
LEMMA StoreInv ==
  ASSUME Inv, NEW u \in Users, req[u].pc \in {"loaded", "submitting"}, Store(u),
         reviews' = reviews, session' = session,
         NEW r, r \in RequestRecords, req' = [req EXCEPT ![u] = r],
         r.pc = "idle" \/ (r.pc = "initiating" /\ r.id = req[u].id /\ r.held = req[u].held)
  PROVE  Inv'
  <1>1. req[u].id \in Ids /\ Sound(req[u].held)
    BY DEF Inv, RequestInv
  <1>2. rows' = [rows EXCEPT ![req[u].id] = req[u].held]
    BY DEF Store
  <1>3. /\ rows' \in [Ids -> AssessmentRecords \cup {None}]
        /\ \A other \in Ids : rows[other] # None => rows'[other] # None
        /\ rows'[req[u].id] # None
        /\ (\A other \in Ids : rows[other] # None => Sound(rows[other]))'
    BY <1>1, <1>2, StoreSound
  <1>4. \A v \in Users : req'[v] = IF v = u THEN r ELSE req[v]
    BY DEF Inv, TypeOK
  <1>5. TypeOK'
    BY <1>3 DEF Inv, TypeOK
  <1>6. SessionsInv'
    BY <1>3 DEF Inv, SessionsInv, TypeOK, Sessions
  <1>7. (\A v \in Users : RequestInv(req[v]))'
    BY <1>1, <1>3, <1>4 DEF Inv, RequestInv, Sound
  <1> QED
    BY <1>3, <1>5, <1>6, <1>7 DEF Inv

LEMMA SaveDraftInv == ASSUME Inv, NEW u \in Users, SaveDraft(u) PROVE Inv'
  BY IdleRequest, StoreInv DEF SaveDraft

LEMMA SaveSubmissionInv == ASSUME Inv, NEW u \in Users, SaveSubmission(u) PROVE Inv'
  <1> DEFINE r == [req[u] EXCEPT !.pc = "initiating"]
  <1>1. req[u] \in RequestRecords /\ req[u].pc = "submitting"
    BY DEF SaveSubmission, Inv, TypeOK
  <1>2. r \in RequestRecords /\ r.pc = "initiating" /\ r.id = req[u].id /\ r.held = req[u].held
    BY <1>1 DEF RequestRecords, Phases
  <1>3. /\ Store(u) /\ reviews' = reviews /\ session' = session
        /\ req' = [req EXCEPT ![u] = r]
    BY <1>1 DEF SaveSubmission, Inv, TypeOK
  <1> HIDE DEF r
  <1> QED
    BY <1>1, <1>2, <1>3, StoreInv

LEMMA InitiateReviewInv == ASSUME Inv, NEW u \in Users, InitiateReview(u) PROVE Inv'
  <1>1. req[u].id \in Ids
    BY DEF InitiateReview, Inv, RequestInv
  <1>2. req' = [req EXCEPT ![u] = NoRequest] /\ rows' = rows /\ session' = session
    BY DEF InitiateReview
  <1>3. \A v \in Users : req'[v] = IF v = u THEN NoRequest ELSE req[v]
    BY <1>2 DEF Inv, TypeOK
  <1>4. TypeOK'
    BY <1>1, <1>2, IdleRequest DEF InitiateReview, Inv, TypeOK
  <1>5. (\A v \in Users : RequestInv(req[v]))'
    BY <1>2, <1>3, IdleRequest DEF Inv, RequestInv, Sound
  <1>6. SessionsInv'
    BY <1>2 DEF Inv, SessionsInv
  <1> QED
    BY <1>2, <1>4, <1>5, <1>6 DEF Inv, Sound

LEMMA AbandonInv == ASSUME Inv, NEW u \in Users, Abandon(u) PROVE Inv'
  <1>1. RequestInv(NoRequest)
    BY IdleRequest DEF RequestInv
  <1> QED
    BY <1>1, IdleRequest, SameRows DEF Abandon

LEMMA StepInv == Inv /\ [Next]_vars => Inv'
  <1> SUFFICES ASSUME Inv, [Next]_vars PROVE Inv'
    OBVIOUS
  <1>1. CASE UNCHANGED vars
    BY <1>1 DEF vars, Inv, TypeOK, SessionsInv, RequestInv, Sound
  <1>2. ASSUME NEW u \in Users, Step(u) PROVE Inv'
    <2>1. CASE Account(u)
      BY <2>1, AccountInv
    <2>2. CASE CreateDraft(u)
      BY <2>2, CreateDraftInv
    <2>3. CASE \E id \in Ids : OpenDraft(u, id)
      BY <2>3, OpenDraftInv
    <2>4. CASE EditDetails(u)
      BY <2>4, EditDetailsInv
    <2>5. CASE \E o \in Outcomes, answer \in Answers : AnswerOutcome(u, o, answer)
      BY <2>5, AnswerOutcomeInv
    <2>6. CASE \E o \in Outcomes : JudgeOutcome(u, o)
      BY <2>6, JudgeOutcomeInv
    <2>7. CASE ConfirmOutcome(u)
      BY <2>7, ConfirmOutcomeInv
    <2>8. CASE Submit(u)
      BY <2>8, SubmitInv
    <2>9. CASE SaveDraft(u)
      BY <2>9, SaveDraftInv
    <2>10. CASE SaveSubmission(u)
      BY <2>10, SaveSubmissionInv
    <2>11. CASE InitiateReview(u)
      BY <2>11, InitiateReviewInv
    <2>12. CASE Abandon(u)
      BY <2>12, AbandonInv
    <2> QED
      BY <1>2, <2>1, <2>2, <2>3, <2>4, <2>5, <2>6, <2>7, <2>8, <2>9, <2>10, <2>11, <2>12
         DEF Step
  <1> QED
    BY <1>1, <1>2 DEF Next

LEMMA Invariance == Spec => []Inv
  BY InitInv, StepInv, PTL DEF Spec

-----------------------------------------------------------------------------
(* The theorems.                                                           *)

\* Whatever the requests of the sessions do to the rows, every assessment that
\* is stored or about to be is a well-formed one (class Assessment).
THEOREM AssessmentTypeCorrect == Spec => []TypeOK
  <1>1. Inv => TypeOK
    BY DEF Inv
  <1> QED
    BY <1>1, Invariance, PTL

\* A submitted assessment has all its outcomes confirmed, even though stale
\* drafts are saved over it (SectionConfirmationView, Assessment.save).
THEOREM SubmissionIsComplete == Spec => []SubmittedIsComplete
  <1>1. Inv => SubmittedIsComplete
    BY DEF Inv, Sound, SubmittedIsComplete, Submitted, Stored
  <1> QED
    BY <1>1, Invariance, PTL

-----------------------------------------------------------------------------
(* One request at a time.  What Assessment promises when no request loads  *)
(* an assessment while another holds one: the instance that is saved is    *)
(* made of the row as it stands, it has the status of the row, or submits  *)
(* it, and what it says of an outcome is said of the answers the row has.  *)

\* What is confirmed of each outcome follows from its answers.
Current(a) ==
  \A o \in Outcomes :
    a.outcomes[o].confirmed # None =>
      a.outcomes[o].confirmed = GetStatus(a.outcomes[o].indicators)

Alone == \A u, v \in Users : Busy(u) /\ Busy(v) => u = v

\* What a request knows is still so.
UpToDate(r) ==
  /\ r.pc = "judged" =>
       /\ rows[r.id].status = "draft"
       /\ r.status = GetStatus(rows[r.id].outcomes[r.outcome].indicators)
  /\ r.pc = "loaded" => r.held.status = rows[r.id].status
  /\ r.pc = "submitting" => r.held.status = "submitted"
  /\ r.pc \in {"loaded", "submitting"} => Current(r.held)
  /\ r.pc = "initiating" => rows[r.id].status = "submitted"

Orderly ==
  /\ Alone
  /\ \A u \in Users : UpToDate(req[u])
  /\ \A id \in Stored : Current(rows[id])
  /\ ReviewedIsSubmitted

SerialInv == Inv /\ Orderly

-----------------------------------------------------------------------------
(* The operations on an instance.                                          *)

LEMMA IndicatorsCurrent ==
  ASSUME NEW a, Sound(a), Current(a), NEW o \in Outcomes, NEW answer \in Answers
  PROVE  Current(SetIndicators(a, o, answer))
  BY DEF Sound, Current, SetIndicators, AssessmentRecords, OutcomeRecords

LEMMA ConfirmationCurrent ==
  ASSUME NEW a, Sound(a), Current(a), NEW o \in Outcomes,
         NEW st, st = GetStatus(a.outcomes[o].indicators)
  PROVE  Current(SetConfirmation(a, o, st))
  BY DEF Sound, Current, SetConfirmation, AssessmentRecords, OutcomeRecords

LEMMA SameOutcomesCurrent ==
  ASSUME NEW a, NEW b, Current(a), b.outcomes = a.outcomes
  PROVE  Current(b)
  BY DEF Current

-----------------------------------------------------------------------------
(* The steps.                                                              *)

\* A step of one request that leaves the rows and the reviews alone.
LEMMA RequestStep ==
  ASSUME SerialInv, rows' = rows, reviews' = reviews,
         NEW u \in Users, NEW r, req' = [req EXCEPT ![u] = r], UpToDate(r),
         r.pc \in {"judged", "loaded", "submitting"} =>
           \A v \in Users : Busy(v) => v = u
  PROVE  Orderly'
  <1>1. \A v \in Users : req'[v] = IF v = u THEN r ELSE req[v]
    BY DEF SerialInv, Inv, TypeOK
  <1>2. Alone'
    BY <1>1 DEF SerialInv, Orderly, Alone, Busy
  <1>3. UpToDate(r)'
    BY DEF UpToDate, Current
  <1>4. ASSUME NEW v \in Users, v # u PROVE UpToDate(req[v])'
    <2>1. UpToDate(req[v]) /\ req'[v] = req[v]
      BY <1>1, <1>4 DEF SerialInv, Orderly
    <2> QED
      BY <2>1 DEF UpToDate, Current
  <1>5. (\A v \in Users : UpToDate(req[v]))'
    <2> SUFFICES ASSUME NEW v \in Users PROVE UpToDate(req[v])'
      OBVIOUS
    <2>1. CASE v = u
      BY <1>1, <1>3, <2>1 DEF UpToDate, Current
    <2> QED
      BY <1>4, <2>1
  <1>6. (\A id \in Stored : Current(rows[id]))' /\ ReviewedIsSubmitted'
    BY DEF SerialInv, Orderly, Stored, Submitted, ReviewedIsSubmitted, Current
  <1> QED
    BY <1>2, <1>5, <1>6 DEF Orderly

\* A request loads when nobody else is busy.
LEMMA HoldOrderly ==
  ASSUME SerialInv, SerialRequests, rows' = rows, reviews' = reviews,
         NEW u \in Users, NEW pc \in {"loaded", "submitting"}, NEW id, NEW new,
         Hold(u, pc, id, new), Current(new),
         pc = "loaded" => new.status = rows[id].status,
         pc = "submitting" => new.status = "submitted"
  PROVE  Orderly'
  <1> DEFINE r == [NoRequest EXCEPT !.pc = pc, !.id = id, !.held = new]
  <1>1. r.pc = pc /\ r.id = id /\ r.held = new
    BY DEF NoRequest
  <1>2. req' = [req EXCEPT ![u] = r] /\ \A v \in Users : ~ Busy(v)
    BY DEF Hold, MayLoad
  <1> HIDE DEF r
  <1>3. UpToDate(r)
    BY <1>1 DEF UpToDate
  <1> QED
    BY <1>2, <1>3, RequestStep

\* A request stores what it holds: no other request is busy, and one that has
\* submitted the same assessment finds it submitted still.
LEMMA StoreOrderly ==
  ASSUME SerialInv, NEW u \in Users, req[u].pc \in {"loaded", "submitting"}, Store(u),
         reviews' = reviews, NEW r, req' = [req EXCEPT ![u] = r],
         \/ r.pc = "idle"
         \/ r.pc = "initiating" /\ r.id = req[u].id /\ req[u].pc = "submitting"
  PROVE  Orderly' /\ Submitted \subseteq Submitted'
  <1> DEFINE id == req[u].id
             new == req[u].held
  <1>1. /\ id \in Ids /\ rows[id] # None /\ Sound(new)
        /\ UpToDate(req[u])
    BY DEF SerialInv, Orderly, Inv, RequestInv
  <1>2. Current(new) /\ (new.status = rows[id].status \/ new.status = "submitted")
    BY <1>1 DEF UpToDate
  <1>3. new # None
    BY <1>1, RowAssumption DEF Sound
  <1>4. /\ \A other \in Ids : rows'[other] = IF other = id THEN new ELSE rows[other]
        /\ \A v \in Users : req'[v] = IF v = u THEN r ELSE req[v]
    BY DEF Store, SerialInv, Inv, TypeOK
  <1> HIDE DEF id, new
  <1>5. Submitted \subseteq Submitted'
    BY <1>1, <1>2, <1>3, <1>4 DEF Submitted, Stored
  <1>6. Busy(u)
    BY DEF Busy
  <1>7. \A v \in Users \ {u} : ~ Busy(v)
    BY <1>6 DEF SerialInv, Orderly, Alone
  <1>8. Alone'
    BY <1>4, <1>7 DEF Alone, Busy
  <1>9. ASSUME NEW v \in Users PROVE UpToDate(req[v])'
    <2>1. CASE v = u
      <3>1. req'[v] = r
        BY <1>4, <2>1
      <3>2. CASE r.pc = "idle"
        BY <3>1, <3>2 DEF UpToDate
      <3>3. CASE r.pc = "initiating" /\ r.id = id /\ req[u].pc = "submitting"
        <4>1. rows'[r.id].status = "submitted"
          BY <1>1, <1>4, <3>3 DEF UpToDate, new
        <4> QED
          BY <3>1, <3>3, <4>1 DEF UpToDate
      <3> QED
        BY <3>2, <3>3 DEF id
    <2>2. CASE v # u
      <3>1. req'[v] = req[v] /\ ~ Busy(v) /\ RequestInv(req[v]) /\ UpToDate(req[v])
        BY <1>4, <1>7, <2>2 DEF SerialInv, Orderly, Inv
      <3>2. CASE req[v].pc = "initiating"
        <4>1. req[v].id \in Submitted
          BY <3>1, <3>2 DEF RequestInv, UpToDate, Submitted, Stored
        <4>2. rows'[req[v].id].status = "submitted"
          BY <1>5, <4>1 DEF Submitted
        <4> QED
          BY <3>1, <3>2, <4>2 DEF UpToDate
      <3>3. CASE req[v].pc # "initiating"
        BY <3>1, <3>3 DEF UpToDate, Busy
      <3> QED
        BY <3>2, <3>3
    <2> QED
      BY <2>1, <2>2
  <1>10. (\A other \in Stored : Current(rows[other]))'
    <2> SUFFICES ASSUME NEW other \in Stored' PROVE Current(rows'[other])
      BY DEF Current
    <2>1. CASE other = id
      BY <1>1, <1>2, <1>4, <2>1
    <2>2. CASE other # id
      BY <1>4, <2>2 DEF Stored, SerialInv, Orderly
    <2> QED
      BY <2>1, <2>2
  <1>11. ReviewedIsSubmitted'
    BY <1>5 DEF ReviewedIsSubmitted, SerialInv, Orderly
  <1> QED
    BY <1>5, <1>8, <1>9, <1>10, <1>11 DEF Orderly

\* A draft that is created disturbs nobody: its row was empty.
LEMMA CreateDraftOrderly ==
  ASSUME SerialInv, NEW u \in Users, CreateDraft(u)
  PROVE  Orderly' /\ Submitted \subseteq Submitted'
  <1>1. PICK s \in Choices(session[u]) : CreateDraft(u)!(s)
    BY DEF CreateDraft
  <1>2. s \in Sessions /\ req' = req /\ reviews' = reviews
    BY <1>1, ChoicesTyped DEF SerialInv, Inv, TypeOK
  <1>3. CASE rows' = rows
    BY <1>2, <1>3 DEF SerialInv, Orderly, Alone, Busy, UpToDate, Current, Stored, Submitted,
         ReviewedIsSubmitted
  <1>4. CASE HasDetails(s) /\ DraftsOf(s.system) = {}
    <2>1. PICK id \in Ids : rows[id] = None /\ rows' = [rows EXCEPT ![id] = NewAssessment(s)]
      BY <1>1, <1>4
    <2>2. /\ Sound(NewAssessment(s)) /\ Current(NewAssessment(s))
          /\ \A other \in Ids : rows'[other] = IF other = id THEN NewAssessment(s)
                                               ELSE rows[other]
      BY <1>2, <1>4, <2>1, NewSound DEF Current, SerialInv, Inv, TypeOK
    <2>3. Submitted \subseteq Submitted'
      BY <2>1, <2>2 DEF Submitted, Stored
    <2>4. Alone'
      BY <1>2 DEF SerialInv, Orderly, Alone, Busy
    <2>5. ASSUME NEW v \in Users PROVE UpToDate(req[v])'
      <3>1. UpToDate(req[v]) /\ RequestInv(req[v]) /\ req'[v] = req[v]
        BY <1>2 DEF SerialInv, Orderly, Inv
      <3>2. CASE req[v].pc = "idle"
        BY <3>1, <3>2 DEF UpToDate
      <3>3. CASE req[v].pc # "idle"
        <4>1. rows'[req[v].id] = rows[req[v].id]
          BY <2>1, <2>2, <3>1, <3>3 DEF RequestInv
        <4> QED
          BY <3>1, <4>1 DEF UpToDate, Current
      <3> QED
        BY <3>2, <3>3
    <2>6. (\A other \in Stored : Current(rows[other]))'
      <3> SUFFICES ASSUME NEW other \in Stored' PROVE Current(rows'[other])
        BY DEF Current
      <3> QED
        BY <2>2 DEF Stored, SerialInv, Orderly
    <2>7. ReviewedIsSubmitted'
      BY <1>2, <2>3 DEF ReviewedIsSubmitted, SerialInv, Orderly
    <2> QED
      BY <2>3, <2>4, <2>5, <2>6, <2>7 DEF Orderly
  <1> QED
    BY <1>1, <1>3, <1>4

\* A request is idle again, or was never one: the rows are as they were.
LEMMA IdleOrderly ==
  ASSUME SerialInv, NEW u \in Users, rows' = rows, reviews' = reviews,
         req' = req \/ req' = [req EXCEPT ![u] = NoRequest]
  PROVE  Orderly'
  <1>1. UpToDate(NoRequest) /\ NoRequest.pc = "idle"
    BY IdleRequest DEF UpToDate
  <1>2. CASE req' = req
    BY <1>2 DEF SerialInv, Orderly, Alone, Busy, UpToDate, Current, Stored, Submitted,
         ReviewedIsSubmitted
  <1>3. CASE req' = [req EXCEPT ![u] = NoRequest]
    BY <1>1, <1>3, RequestStep
  <1> QED
    BY <1>2, <1>3

LEMMA EditDetailsOrderly ==
  ASSUME SerialInv, SerialRequests, NEW u \in Users, EditDetails(u)
  PROVE  Orderly'
  <1>1. PICK s \in Choices(session[u]), url \in Ids : EditDetails(u)!(s, url)
    BY DEF EditDetails
  <1>2. s \in Sessions /\ s.id = session[u].id
    BY ChoicesTyped DEF SerialInv, Inv, TypeOK
  <1>3. rows' = rows /\ reviews' = reviews
    BY <1>1
  <1>4. CASE HasDetails(s) /\ s.id # None
    <2> DEFINE new == ChangeDetails(rows[s.id], s)
    <2>1. s.id \in Stored /\ Sound(rows[s.id])
      BY <1>2, <1>4 DEF SerialInv, Inv, SessionsInv, Sessions, Stored
    <2>2. new.status = rows[s.id].status /\ new.outcomes = rows[s.id].outcomes
      BY <1>2, <1>4, <2>1, DetailsSound
    <2>3. Current(new)
      BY <2>1, <2>2, SameOutcomesCurrent DEF SerialInv, Orderly
    <2>4. Hold(u, "loaded", s.id, new)
      BY <1>1, <1>4
    <2> HIDE DEF new
    <2> QED
      BY <1>3, <2>2, <2>3, <2>4, HoldOrderly
  <1>5. CASE ~ (HasDetails(s) /\ s.id # None)
    <2>1. req' = req
      BY <1>1, <1>5
    <2> QED
      BY <1>3, <2>1, IdleOrderly
  <1> QED
    BY <1>4, <1>5

\* The draft of a session, as the rows have it.
LEMMA CurrentDraft ==
  ASSUME SerialInv, NEW u \in Users, IsDraft(session[u].id)
  PROVE  /\ Sound(rows[session[u].id])
         /\ rows[session[u].id].status = "draft"
         /\ Current(rows[session[u].id])
  <1>1. Inv
    BY DEF SerialInv
  <1>2. session[u].id \in Stored
    BY <1>1, DraftOfSession DEF Stored
  <1> QED
    BY <1>1, <1>2, DraftOfSession DEF SerialInv, Orderly

LEMMA AnswerOutcomeOrderly ==
  ASSUME SerialInv, SerialRequests, NEW u \in Users, NEW o \in Outcomes,
         NEW answer \in Answers, AnswerOutcome(u, o, answer)
  PROVE  Orderly'
  <1> DEFINE id == session[u].id
             new == SetIndicators(rows[id], o, answer)
  <1>1. Sound(rows[id]) /\ Current(rows[id]) /\ rows[id].status = "draft"
    BY CurrentDraft DEF AnswerOutcome
  <1>2. Current(new) /\ new.status = "draft"
    BY <1>1, IndicatorsCurrent, IndicatorsSound
  <1>3. rows' = rows /\ reviews' = reviews /\ Hold(u, "loaded", id, new)
    BY DEF AnswerOutcome
  <1> HIDE DEF id, new
  <1> QED
    BY <1>1, <1>2, <1>3, HoldOrderly

LEMMA JudgeOutcomeOrderly ==
  ASSUME SerialInv, SerialRequests, NEW u \in Users, NEW o \in Outcomes, JudgeOutcome(u, o)
  PROVE  Orderly'
  <1> DEFINE id == session[u].id
             r == [pc |-> "judged", id |-> id, held |-> None, outcome |-> o,
                   status |-> GetStatus(rows[id].outcomes[o].indicators)]
  <1>1. rows[id].status = "draft"
    BY CurrentDraft DEF JudgeOutcome
  <1>2. UpToDate(r)
    BY <1>1 DEF UpToDate
  <1>3. /\ rows' = rows /\ reviews' = reviews /\ req' = [req EXCEPT ![u] = r]
        /\ \A v \in Users : ~ Busy(v)
    BY DEF JudgeOutcome, MayLoad
  <1> HIDE DEF r
  <1> QED
    BY <1>2, <1>3, RequestStep

\* The status was worked out from the answers that are stored still.
LEMMA ConfirmOutcomeOrderly ==
  ASSUME SerialInv, NEW u \in Users, ConfirmOutcome(u)
  PROVE  Orderly'
  <1> DEFINE old == rows[req[u].id]
             new == SetConfirmation(old, req[u].outcome, req[u].status)
             r == [req[u] EXCEPT !.pc = "loaded", !.held = new]
  <1>1. req[u] \in RequestRecords /\ req[u].pc = "judged"
    BY DEF ConfirmOutcome, SerialInv, Inv, TypeOK
  <1>2. RequestInv(req[u]) /\ UpToDate(req[u])
    BY DEF SerialInv, Inv, Orderly
  <1>3. /\ req[u].id \in Stored /\ req[u].outcome \in Outcomes
        /\ req[u].status \in OutcomeStatuses
        /\ req[u].status = GetStatus(old.outcomes[req[u].outcome].indicators)
    BY <1>1, <1>2 DEF RequestInv, UpToDate, Stored
  <1>4. Sound(old) /\ Current(old) /\ old.status = "draft"
    BY <1>1, <1>2, <1>3 DEF SerialInv, Inv, Orderly, Stored, UpToDate
  <1>5. Current(new) /\ new.status = old.status
    BY <1>3, <1>4, ConfirmationCurrent, ConfirmationSound
  <1>6. rows' = rows /\ reviews' = reviews /\ req' = [req EXCEPT ![u] = r]
    BY <1>1 DEF ConfirmOutcome, SerialInv, Inv, TypeOK
  <1> HIDE DEF new
  <1>7. r.pc = "loaded" /\ r.id = req[u].id /\ r.held = new
    BY <1>1 DEF RequestRecords
  <1>8. \A v \in Users : Busy(v) => v = u
    BY <1>1 DEF SerialInv, Orderly, Alone, Busy
  <1>9. UpToDate(r)
    BY <1>5, <1>7 DEF UpToDate
  <1> HIDE DEF r
  <1> QED
    BY <1>6, <1>8, <1>9, RequestStep

LEMMA SubmitOrderly ==
  ASSUME SerialInv, SerialRequests, NEW u \in Users, Submit(u)
  PROVE  Orderly'
  <1> DEFINE id == session[u].id
             new == [rows[id] EXCEPT !.status = "submitted"]
  <1>1. Sound(rows[id]) /\ Current(rows[id]) /\ IsComplete(rows[id])
    BY CurrentDraft DEF Submit
  <1>2. new.status = "submitted" /\ new.outcomes = rows[id].outcomes
    BY <1>1, SubmissionSound
  <1>3. Current(new)
    BY <1>1, <1>2, SameOutcomesCurrent
  <1>4. rows' = rows /\ reviews' = reviews /\ Hold(u, "submitting", id, new)
    BY DEF Submit
  <1> HIDE DEF id, new
  <1> QED
    BY <1>2, <1>3, <1>4, HoldOrderly

LEMMA SaveDraftOrderly ==
  ASSUME SerialInv, NEW u \in Users, SaveDraft(u)
  PROVE  Orderly' /\ Submitted \subseteq Submitted'
  BY IdleRequest, StoreOrderly DEF SaveDraft

LEMMA SaveSubmissionOrderly ==
  ASSUME SerialInv, NEW u \in Users, SaveSubmission(u)
  PROVE  Orderly' /\ Submitted \subseteq Submitted'
  <1> DEFINE r == [req[u] EXCEPT !.pc = "initiating"]
  <1>1. req[u] \in RequestRecords /\ req[u].pc = "submitting"
    BY DEF SaveSubmission, SerialInv, Inv, TypeOK
  <1>2. r.pc = "initiating" /\ r.id = req[u].id
    BY <1>1 DEF RequestRecords
  <1>3. Store(u) /\ reviews' = reviews /\ req' = [req EXCEPT ![u] = r]
    BY <1>1 DEF SaveSubmission, SerialInv, Inv, TypeOK
  <1> HIDE DEF r
  <1> QED
    BY <1>1, <1>2, <1>3, StoreOrderly

\* The Review is created for an assessment that is stored as submitted.
LEMMA InitiateReviewOrderly ==
  ASSUME SerialInv, NEW u \in Users, InitiateReview(u)
  PROVE  Orderly'
  <1>1. req[u].pc = "initiating" /\ RequestInv(req[u]) /\ UpToDate(req[u])
    BY DEF InitiateReview, SerialInv, Inv, Orderly
  <1>2. req[u].id \in Submitted
    BY <1>1 DEF RequestInv, UpToDate, Submitted, Stored
  <1>3. /\ rows' = rows /\ req' = [req EXCEPT ![u] = NoRequest]
        /\ reviews' \subseteq reviews \cup {req[u].id}
    BY DEF InitiateReview
  <1>4. \A v \in Users : req'[v] = IF v = u THEN NoRequest ELSE req[v]
    BY <1>3 DEF SerialInv, Inv, TypeOK
  <1>5. Alone'
    BY <1>4, IdleRequest DEF SerialInv, Orderly, Alone, Busy
  <1>6. (\A v \in Users : UpToDate(req[v]))'
    BY <1>3, <1>4, IdleRequest DEF SerialInv, Orderly, UpToDate, Current
  <1>7. ReviewedIsSubmitted'
    BY <1>2, <1>3 DEF SerialInv, Orderly, ReviewedIsSubmitted, Submitted, Stored
  <1>8. (\A id \in Stored : Current(rows[id]))'
    BY <1>3 DEF SerialInv, Orderly, Stored, Current
  <1> QED
    BY <1>5, <1>6, <1>7, <1>8 DEF Orderly

LEMMA StepOrderly ==
  ASSUME SerialInv, SerialRequests, [Next]_vars
  PROVE  Orderly' /\ Submitted \subseteq Submitted'
  <1>1. CASE UNCHANGED vars
    BY <1>1 DEF vars, SerialInv, Orderly, Alone, Busy, UpToDate, Current, Stored, Submitted,
         ReviewedIsSubmitted
  <1>2. ASSUME NEW u \in Users, Step(u) PROVE Orderly' /\ Submitted \subseteq Submitted'
    <2>1. rows' = rows => Submitted \subseteq Submitted'
      BY DEF Submitted, Stored
    <2>2. CASE Account(u) \/ Abandon(u) \/ \E id \in Ids : OpenDraft(u, id)
      <3>1. rows' = rows /\ reviews' = reviews
            /\ (req' = req \/ req' = [req EXCEPT ![u] = NoRequest])
        BY <2>2 DEF Account, Abandon, OpenDraft
      <3> QED
        BY <2>1, <3>1, IdleOrderly
    <2>3. CASE CreateDraft(u)
      BY <2>3, CreateDraftOrderly
    <2>4. CASE EditDetails(u)
      BY <2>1, <2>4, EditDetailsOrderly DEF EditDetails
    <2>5. CASE \E o \in Outcomes, answer \in Answers : AnswerOutcome(u, o, answer)
      BY <2>1, <2>5, AnswerOutcomeOrderly DEF AnswerOutcome
    <2>6. CASE \E o \in Outcomes : JudgeOutcome(u, o)
      BY <2>1, <2>6, JudgeOutcomeOrderly DEF JudgeOutcome
    <2>7. CASE ConfirmOutcome(u)
      BY <2>1, <2>7, ConfirmOutcomeOrderly DEF ConfirmOutcome
    <2>8. CASE Submit(u)
      BY <2>1, <2>8, SubmitOrderly DEF Submit
    <2>9. CASE SaveDraft(u) \/ SaveSubmission(u)
      BY <2>9, SaveDraftOrderly, SaveSubmissionOrderly
    <2>10. CASE InitiateReview(u)
      BY <2>1, <2>10, InitiateReviewOrderly DEF InitiateReview
    <2> QED
      BY <1>2, <2>2, <2>3, <2>4, <2>5, <2>6, <2>7, <2>8, <2>9, <2>10 DEF Step
  <1> QED
    BY <1>1, <1>2 DEF Next

LEMMA SerialInvariance ==
  ASSUME SerialRequests
  PROVE  Spec => []SerialInv
  <1>1. Init => SerialInv
    <2> SUFFICES ASSUME Init PROVE Orderly
      BY InitInv DEF SerialInv
    <2>1. /\ \A u \in Users : req[u].pc = "idle"
          /\ \A id \in Ids : rows[id] = None
          /\ reviews = {}
      BY IdleRequest DEF Init
    <2> QED
      BY <2>1 DEF Orderly, Alone, Busy, UpToDate, Stored, ReviewedIsSubmitted
  <1>2. SerialInv /\ [Next]_vars => SerialInv'
    BY StepInv, StepOrderly DEF SerialInv
  <1> QED
    BY <1>1, <1>2, PTL DEF Spec

-----------------------------------------------------------------------------
(* The theorems.                                                           *)

\* When no request loads an assessment that another is changing, the status an
\* outcome was confirmed with is the one its present answers give
\* (OutcomeConfirmationView, BaseIndicatorsFormView).
THEOREM ConfirmationIsCurrent ==
  ASSUME SerialRequests
  PROVE  Spec => []ConfirmedStatusIsCurrent
  <1>1. SerialInv => ConfirmedStatusIsCurrent
    BY DEF SerialInv, Orderly, Current, ConfirmedStatusIsCurrent
  <1>2. Spec => []SerialInv
    BY SerialInvariance
  <1> QED
    BY <1>1, <1>2, PTL

\* When no request loads an assessment that another is changing, what is under
\* review is submitted and stays so, also when the submitting request is killed
\* between the two saves (SectionConfirmationView.form_valid).
THEOREM ReviewsAreOfSubmissions ==
  ASSUME SerialRequests
  PROVE  Spec => []ReviewedIsSubmitted
  <1>1. SerialInv => ReviewedIsSubmitted
    BY DEF SerialInv, Orderly
  <1>2. Spec => []SerialInv
    BY SerialInvariance
  <1> QED
    BY <1>1, <1>2, PTL

\* When no request loads an assessment that another is changing, none saves a
\* submitted assessment as a draft again.
THEOREM SubmittedStaysSubmitted ==
  ASSUME SerialRequests
  PROVE  Spec => SubmissionIsFinal
  <1>1. SerialInv /\ [Next]_vars => [Submitted \subseteq Submitted']_rows
    BY StepOrderly
  <1>2. Spec => []SerialInv
    BY SerialInvariance
  <1> QED
    BY <1>1, <1>2, PTL DEF Spec, SubmissionIsFinal

=============================================================================
