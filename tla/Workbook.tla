------------------------------ MODULE Workbook ------------------------------
(***************************************************************************)
(* The template workbook of a framework (utils/excel_exporter.py) and its  *)
(* way back (utils/excel_importer.py).  The exporter lays the framework    *)
(* out, one sheet per objective, and writes for every cell that can be     *)
(* answered a row of a hidden mapping sheet: the cell, the place of its    *)
(* value in assessments_data, the kind of value and whether it is          *)
(* required.  The importer knows nothing of the layout, it follows those   *)
(* rows.                                                                   *)
(*                                                                         *)
(* A workbook is the values of its mapped cells: "yes" or "no" of a        *)
(* statement (case and spaces aside), a level of an outcome, any text of a *)
(* comment, None when blank.                                               *)
(***************************************************************************)
EXTENDS Questionnaire

CONSTANT Refused   \* the outcome of an import that raises ExcelImportError

ASSUME RefusedAssumption == Refused \notin Data

Longest(o) ==
  CHOOSE n \in {Len(StatementsOf[o][l]) : l \in Levels} :
    \A l \in Levels : Len(StatementsOf[o][l]) <= n

\* The answers of the third level in the column of the second.
CrowdedColumn(level) == CASE level = "achieved" -> 4 [] OTHER -> 6

\* _write_indicator_rows: a statement and its answer for each of the levels.
Column(level) ==
  CASE level = "achieved" -> 4
    [] level = "partially-achieved" -> 6
    [] level = "not-achieved" -> 8

\* build_assessment_template_workbook: the heading of an objective ends at row
\* 16, that of a principle takes 4 rows, that of an outcome 4 more; the status,
\* the comment and 4 empty rows follow its statements.
LayOut(at, page) ==
  CASE page.type = "principle"  -> [at EXCEPT !.row = @ + 4]
    [] page.type = "indicators" ->
         [row |-> at.row + 10 + Longest(page.code),
          top |-> [o \in DOMAIN at.top \cup {page.code} |->
                     IF o = page.code THEN at.row ELSE at.top[o]]]
    [] OTHER -> at

\* The row of the heading of each outcome of an objective's sheet.
TopRows(b) == FoldLeft(LayOut, [row |-> 17, top |-> <<>>], ObjectivePages(b)).top

\* The statements of an outcome: a level and a place in it.
Places(o) == {at \in Levels \X (1 .. Longest(o)) : at[2] <= Len(StatementsOf[o][at[1]])}

Rows(b) ==
  LET top == TopRows(b)
      status(o) == top[o] + 4 + Longest(o)
  IN UNION {
       {[cell |-> <<b, top[o] + 3 + at[2], Column(at[1])>>, outcome |-> o, required |-> FALSE,
         kind |-> "indicator_answer", field |-> <<at[1], StatementsOf[o][at[1]][at[2]]>>] :
           at \in Places(o)}
       \cup {[cell |-> <<b, status(o), 9>>, outcome |-> o, required |-> TRUE,
              kind |-> "outcome_status", field |-> None],
             [cell |-> <<b, status(o) + 1, 9>>, outcome |-> o, required |-> FALSE,
              kind |-> "text", field |-> None]} : o \in OutcomesOfObjective(b)}

\* The mapping sheet.
JsonMap == UNION {Rows(b) : b \in ToSet(Objectives)}

Cells == {r.cell : r \in JsonMap}

RowOf(cell) == CHOOSE r \in JsonMap : r.cell = cell

\* The template as it is downloaded.
BlankWorkbook == [cell \in Cells |-> None]

\* A workbook filled in by hand with the answers of an assessment.
Typed(r, entry) ==
  CASE entry = None -> None
    [] entry # None /\ r.kind = "indicator_answer" -> IF r.field \in entry.ticked THEN "yes" ELSE "no"
    [] entry # None /\ r.kind = "outcome_status"   -> entry.status
    [] entry # None /\ r.kind = "text"             -> None

Filled(data) == [cell \in Cells |-> Typed(RowOf(cell), data[RowOf(cell).outcome])]

---------------------------------------------------------------------------
(* The importer.                                                           *)

MissingRequired(book) == {r \in JsonMap : r.required /\ book[r.cell] = None}

\* _transform_value accepts it.
IsValid(r, value) ==
  CASE r.kind = "indicator_answer" -> value \in {None, "yes", "no"}
    [] r.kind = "outcome_status"   -> value \in Levels
    [] r.kind = "text"             -> TRUE

\* The statements agreed with; a blank one is not.
Agreed(book, o) ==
  {r.field : r \in {s \in JsonMap : s.outcome = o /\ s.kind = "indicator_answer" /\ book[s.cell] = "yes"}}

ChosenStatus(book, o) ==
  LET r == CHOOSE s \in JsonMap : s.outcome = o /\ s.kind = "outcome_status"
  IN book[r.cell]

\* excel_to_assessment_json_with_raw: blank required cells are left out of the
\* data.  The comment cell alone makes a confirmation, and every confirmation
\* is given confirm_outcome = "confirm".
Parse(book) ==
  IF \E r \in JsonMap \ MissingRequired(book) : ~ IsValid(r, book[r.cell])
    THEN Refused
    ELSE [o \in Outcomes |->
            [ticked    |-> Agreed(book, o),
             comments  |-> None,
             confirmed |-> TRUE,
             status    |-> ChosenStatus(book, o)]]

\* excel_to_assessment_json: blank required cells are refused as well.
ParseStrictly(book) == IF MissingRequired(book) # {} THEN Refused ELSE Parse(book)

=============================================================================
