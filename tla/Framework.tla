----------------------------- MODULE Framework -----------------------------
(***************************************************************************)
(* The shape of a Cyber Assessment Framework as CAFLoader reads it from    *)
(* its YAML file (webcaf/caf/routers.py): objectives, each with its        *)
(* principles, each with its contributing outcomes, each with its          *)
(* statements (indicators of good practice) of three levels.  Everything   *)
(* that walks the framework in order - the pages of a self-assessment, the *)
(* template spreadsheet, the report of a review - walks this one.          *)
(***************************************************************************)
EXTENDS Naturals, Sequences, SequencesExt

CONSTANTS
  Objectives,    \* the codes of the objectives, in order
  PrinciplesOf,  \* the principles of each objective, in order
  OutcomesOf,    \* the outcomes of each principle, in order
  StatementsOf,  \* the statements of each outcome and level, in order
  Requirement,   \* min_profile_requirement: the level asked of each profile
  None           \* an absent entry

Levels == {"achieved", "partially-achieved", "not-achieved"}

Profiles == {"baseline", "enhanced"}

Principles == UNION {ToSet(PrinciplesOf[b]) : b \in ToSet(Objectives)}

Outcomes == UNION {ToSet(OutcomesOf[p]) : p \in Principles}

\* The fields of an outcome's page: one tick box per statement of each level.
Fields(o) == UNION {{level} \X ToSet(StatementsOf[o][level]) : level \in Levels}

\* Levels are met in this order; an outcome with no requirement has None.
Score == [level \in Levels |->
            CASE level = "achieved" -> 3
              [] level = "partially-achieved" -> 2
              [] OTHER -> 1]

IsASequence(s) == s \in Seq(ToSet(s))

ASSUME FrameworkAssumption ==
  /\ IsASequence(Objectives) /\ Objectives # <<>>
  /\ \A b \in ToSet(Objectives) : IsASequence(PrinciplesOf[b]) /\ PrinciplesOf[b] # <<>>
  /\ \A p \in Principles : IsASequence(OutcomesOf[p]) /\ OutcomesOf[p] # <<>>
  /\ \A o \in Outcomes :
       /\ DOMAIN StatementsOf[o] = Levels
       /\ \A l \in Levels : IsASequence(StatementsOf[o][l])
       /\ \A l \in {"achieved", "not-achieved"} : StatementsOf[o][l] # <<>>
       /\ Requirement[o] \in [Profiles -> Levels] \cup {None}
  /\ None \notin Levels \cup Outcomes \cup ToSet(Objectives)

\* The codes are keys of the YAML file and make the names of the pages' URLs.
ASSUME CodesAssumption ==
  /\ IsInjective(Objectives)
  /\ \A b \in ToSet(Objectives) : IsInjective(PrinciplesOf[b])
  /\ \A p \in Principles : IsInjective(OutcomesOf[p])
  /\ \A b, c \in ToSet(Objectives) :
       ToSet(PrinciplesOf[b]) \cap ToSet(PrinciplesOf[c]) # {} => b = c
  /\ \A p, q \in Principles : ToSet(OutcomesOf[p]) \cap ToSet(OutcomesOf[q]) # {} => p = q

---------------------------------------------------------------------------
(* The pages, in the order CAFLoader._traverse_framework yields them.      *)

OutcomePages(o) ==
  << [type |-> "indicators", code |-> o], [type |-> "confirmation", code |-> o] >>

PrinciplePages(p) ==
  << [type |-> "principle", code |-> p] >>
    \o FlattenSeq([i \in DOMAIN OutcomesOf[p] |-> OutcomePages(OutcomesOf[p][i])])

ObjectivePages(b) ==
  << [type |-> "objective", code |-> b] >>
    \o FlattenSeq([i \in DOMAIN PrinciplesOf[b] |-> PrinciplePages(PrinciplesOf[b][i])])

Elements == FlattenSeq([i \in DOMAIN Objectives |-> ObjectivePages(Objectives[i])])

\* The page of the draft itself: the list of the objectives.
DraftPage == [type |-> "draft", code |-> None]

\* CAFLoader._get_success_url: the page after this one.
NextPage(page) ==
  LET i == CHOOSE n \in DOMAIN Elements : Elements[n] = page
  IN IF i < Len(Elements) THEN Elements[i + 1] ELSE DraftPage

\* next_objective of the objective page; the last one has no successor.
NextObjective(b) ==
  LET i == CHOOSE n \in DOMAIN Objectives : Objectives[n] = b
  IN IF i < Len(Objectives) THEN Objectives[i + 1] ELSE None

PrincipleOf(o) == CHOOSE p \in Principles : o \in ToSet(OutcomesOf[p])

ObjectiveOf(o) == CHOOSE b \in ToSet(Objectives) : PrincipleOf(o) \in ToSet(PrinciplesOf[b])

OutcomesOfObjective(b) == {o \in Outcomes : ObjectiveOf(o) = b}

\* The outcomes in the order every report lists them.
OutcomeOrder ==
  FlattenSeq([i \in DOMAIN Objectives |->
    FlattenSeq([j \in DOMAIN PrinciplesOf[Objectives[i]] |-> OutcomesOf[PrinciplesOf[Objectives[i]][j]]])])

---------------------------------------------------------------------------
(* IndicatorStatusChecker.                                                 *)

\* calculate_profile_met: what is not required is met, what is not known is not.
ProfileMet(o, profile, level) ==
  \/ Requirement[o] = None
  \/ level \in Levels /\ Score[level] >= Score[Requirement[o][profile]]

\* get_status_for_indicator with the assessment-rules of the frameworks: a
\* statement of the third level spoils everything, else all of the statements
\* of a level are needed for it.
StatusOf(o, ticked) ==
  LET All(level) == /\ Len(StatementsOf[o][level]) > 0
                    /\ \A s \in ToSet(StatementsOf[o][level]) : <<level, s>> \in ticked
  IN CASE \E f \in ticked : f[1] = "not-achieved" -> "not-achieved"
       [] OTHER -> IF All("achieved") THEN "achieved"
                   ELSE IF All("partially-achieved") THEN "partially-achieved"
                   ELSE "not-achieved"

=============================================================================
