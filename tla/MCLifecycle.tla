---------------------------- MODULE MCLifecycle ----------------------------
(***************************************************************************)
(* A framework of two objectives with an outcome each: A1.a has no         *)
(* statement of the second level, B1.a has all three and two that are      *)
(* needed together.                                                        *)
(***************************************************************************)
EXTENDS Lifecycle

TwoObjectives == <<"A", "B">>

Principles2 == ("A" :> <<"A1">>) @@ ("B" :> <<"B1">>)

Outcomes2 == ("A1" :> <<"A1.a">>) @@ ("B1" :> <<"B1.a">>)

Statements2 ==
  ("A1.a" :> ("achieved" :> <<1>> @@ "partially-achieved" :> <<>> @@ "not-achieved" :> <<1>>))
  @@ ("B1.a" :> ("achieved" :> <<1, 2>> @@ "partially-achieved" :> <<1>> @@ "not-achieved" :> <<1>>))

Requirement2 ==
  ("A1.a" :> ("baseline" :> "achieved" @@ "enhanced" :> "achieved"))
  @@ ("B1.a" :> ("baseline" :> "partially-achieved" @@ "enhanced" :> "achieved"))

BaselinePlans ==
  {<<"baseline", "independent">>, <<"baseline", "peer_review">>, <<"baseline", "self_assessment">>}

\* The enhanced profile imposes an independent review.
OneStalePlan == {<<"enhanced", "independent">>}

PicksOf ==
  ("A1.a" :> {{<<"achieved", 1>>}, {<<"not-achieved", 1>>}})
  @@ ("B1.a" :> {{<<"achieved", 1>>, <<"partially-achieved", 1>>}})

BothAgreed == [cell \in Cells |->
  CASE RowOf(cell).kind = "indicator_answer" -> IF RowOf(cell).field[1] = "achieved" THEN "yes" ELSE "no"
    [] RowOf(cell).kind = "outcome_status" -> "achieved"
    [] RowOf(cell).kind = "text" -> None]

Misspelt == [cell \in Cells |-> "maybe"]

ThreeBooks == {BlankWorkbook, BothAgreed, Misspelt}

TwoImportStatuses == {"in_progress", "completed"}

JudgementsOf ==
  ("A1.a" :> {"achieved", "not-achieved"}) @@ ("B1.a" :> {"partially-achieved"})

TwoTitles == {"risk1", "risk2"}

ListsOf ==
  ("independent" :> (("A1.a" :> {<<>>, <<"risk1", "risk2", "risk2">>}) @@ ("B1.a" :> {<<>>, <<"risk2">>})))
  @@ ("peer_review" :> (("A1.a" :> {<<>>, <<"risk1", "risk1">>}) @@ ("B1.a" :> {<<>>, <<"risk1">>})))
  @@ ("self_assessment" :> (("A1.a" :> {}) @@ ("B1.a" :> {})))

Needed ==
  << <<None, "iar_period">>, <<None, "company_details">>, <<None, "review_method">>,
     <<None, "quality_of_evidence">> >>

Commented ==
  << <<"A", "objective-areas-of-good-practice">>, <<"A", "objective-areas-of-improvement">>,
     <<"B", "objective-areas-of-good-practice">>, <<"B", "objective-areas-of-improvement">> >>

OrderOf ==
  ("independent" :> (Commented \o Needed))
  @@ ("peer_review" :> (Needed \o << <<None, "areas_of_good_practice">>, <<None, "areas_for_improvement">> >>))
  @@ ("self_assessment" :> <<>>)

ReworkedOutcomes == {"A1.a"}

SomeComments == {"blank"}

=============================================================================
