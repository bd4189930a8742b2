--------------------------- MODULE Questionnaire ---------------------------
(***************************************************************************)
(* The answers of one self-assessment (Assessment.assessments_data) and    *)
(* what the pages of the framework do to them: the indicators page of an   *)
(* outcome, where its statements are ticked, and its confirmation page,    *)
(* where the status they amount to is confirmed with a summary.            *)
(*                                                                         *)
(* Comments beside the statements are kept as a whole, one of Comments.  A *)
(* form always sends them; a workbook has none (None), so that the first   *)
(* form saved over imported answers differs from them whatever it ticks.   *)
(***************************************************************************)
EXTENDS Framework, FiniteSets

CONSTANT Comments   \* what can be written beside the statements of an outcome

ASSUME CommentsAssumption == None \notin Comments

\* assessments_data[o]: the indicators and the confirmation of an outcome.  The
\* latter counts when confirm_outcome is "confirm"; its outcome_status is None
\* when the key is missing.
Entries(o) ==
  [ticked    : SUBSET Fields(o),
   comments  : Comments \cup {None},
   confirmed : BOOLEAN,
   status    : Levels \cup {None}]

Data ==
  {data \in [Outcomes -> (UNION {Entries(o) : o \in Outcomes}) \cup {None}] :
     \A o \in Outcomes : data[o] = None \/ data[o] \in Entries(o)}

NoData == [o \in Outcomes |-> None]

\* What the forms of an outcome can send: at least one statement is ticked.
Selections(o) == (SUBSET Fields(o)) \ {{}}

\* BaseIndicatorsFormView.form_valid on the indicators page: answers that
\* differ from the stored ones take the confirmation away.
SetIndicators(data, o, ticked, comments) ==
  LET same == /\ data[o] # None
              /\ data[o].ticked = ticked
              /\ data[o].comments = comments
  IN [data EXCEPT ![o] =
        [ticked    |-> ticked,
         comments  |-> comments,
         confirmed |-> same /\ data[o].confirmed,
         status    |-> IF same THEN data[o].status ELSE None]]

\* OutcomeConfirmationView.form_valid: the status is worked out and stored.
Confirm(data, o) ==
  [data EXCEPT ![o].confirmed = TRUE, ![o].status = StatusOf(o, data[o].ticked)]

---------------------------------------------------------------------------
(* Progress.                                                               *)

Confirmed(data) == {o \in Outcomes : data[o] # None /\ data[o].confirmed}

\* Assessment.is_objective_complete: an objective none of whose outcomes has an
\* entry is not complete.
IsObjectiveComplete(data, b) ==
  /\ \E o \in OutcomesOfObjective(b) : data[o] # None
  /\ OutcomesOfObjective(b) \subseteq Confirmed(data)

IsComplete(data) == \A b \in ToSet(Objectives) : IsObjectiveComplete(data, b)

\* Every outcome that was answered counts, confirmed or not.
PercentageAnswered(data) ==
  (100 * Cardinality({o \in Outcomes : data[o] # None})) \div Cardinality(Outcomes)

\* generate_assessment_progress_indicators: the percentage the pages show.
Percentage(data) == (100 * Cardinality(Confirmed(data))) \div Cardinality(Outcomes)

=============================================================================
