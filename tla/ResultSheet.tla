------------------------------ MODULE ResultSheet ------------------------------
(***************************************************************************)
(* One tab of a spreadsheet, as a sheets task sees it: the columns its     *)
(* dialog accepts (SheetsTaskDialog.validate), the ranges a run reads by   *)
(* letters (readDonorRows, buildA1Range) and the blocks it writes by index *)
(* (writeResultsBack, colLetterToIndex), with users who fill cells and     *)
(* change the task meanwhile.  SheetsRun models what happens to the links  *)
(* between reading and writing; here every row that became a link has one  *)
(* when the results are written.                                           *)
(*                                                                         *)
(* A column letter is a sequence of numbers: <<1>> is A, <<1, 2>> is AB.   *)
(***************************************************************************)
EXTENDS Naturals, Sequences

CONSTANTS InputColumns,  \* letters users may enter for the donor and the acceptor
          ResultColumns, \* letters they may enter for the results
          LastRow,       \* the sheet's rows are 1..LastRow
          LastColumn,    \* its columns are 0..LastColumn
          NoTask,        \* no task is saved yet
          MaxUserActs    \* bound on what users do

Rows == 1..LastRow
Columns == 0..LastColumn

\* The columns that have a shorter letter, and those before it of the same length: the
\* column a letter names in a spreadsheet, which Google counts.
ColumnNumber(s) ==
    CASE Len(s) = 1 -> s[1] - 1
      [] Len(s) = 2 -> 26 + (s[1] - 1) * 26 + (s[2] - 1)
      [] Len(s) = 3 -> 26 + 26 * 26 + (s[1] - 1) * 26 * 26 + (s[2] - 1) * 26 + (s[3] - 1)

ASSUME ResultSheetAssumption ==
    /\ \A s \in InputColumns \cup ResultColumns :
          s \in Seq(1..26) /\ Len(s) \in 1..3
    /\ \A s \in InputColumns : ColumnNumber(s) \in Columns
    /\ \A s \in ResultColumns : ColumnNumber(s) + 5 \in Columns
    /\ LastRow \in Nat /\ LastColumn \in Nat /\ MaxUserActs \in Nat

VARIABLES
    task,  \* the row of the task: its columns and rows
    sheet, \* sheet[r][c]: what the cell holds: nothing, input, a result or a heading
    run,   \* the run under way: its task and the rows of its links, and acts then (history)
    acts,  \* how often a user did something
    again  \* the rows of the last run's links, while no user has done anything since (history)

sheetVars == <<task, sheet, run, acts, again>>

Forms == [donor : InputColumns, acceptor : InputColumns, result : ResultColumns,
          headerRow : 0..LastRow, dataStartRow : Rows]

NoRun == [at |-> "idle", task |-> NoTask, rows |-> {}, since |-> 0]

SheetInit ==
    /\ task = NoTask
    /\ sheet = [r \in Rows |-> [c \in Columns |-> ""]]
    /\ run = NoRun
    /\ acts = 0
    /\ again = {}

------------------------------------------------------------------------------
(* Users.                                                                  *)

\* The letters are right by the choice of the constants; nothing compares the columns.
validate(form) == form.dataStartRow > form.headerRow

UserActs == acts < MaxUserActs /\ acts' = acts + 1 /\ again' = {}

\* The dialog saves all fields.
SaveTask(form) ==
    /\ UserActs /\ validate(form) /\ form # task
    /\ task' = form
    /\ UNCHANGED <<sheet, run>>

\* Somebody fills both of a row's cells in the task's input columns or one, or empties them.
Fill(r) ==
    /\ UserActs /\ task # NoTask
    /\ \E v \in {"", "input"}, S \in SUBSET {ColumnNumber(task.donor), ColumnNumber(task.acceptor)} :
          sheet' = [sheet EXCEPT ![r] = [c \in Columns |-> IF c \in S THEN v ELSE sheet[r][c]]]
    /\ sheet' # sheet
    /\ UNCHANGED <<task, run>>

------------------------------------------------------------------------------
(* SheetsTaskService.run and SheetsClientService.                          *)

\* A bug: the numbering has a zero, as decimal digits do.
colLetterToIndex_zero(s) ==
    LET n[i \in 0..Len(s)] == IF i = 0 THEN 0 ELSE n[i - 1] * 26 + s[i] - 1
    IN n[Len(s)]

colLetterToIndex(s) ==
    LET n[i \in 0..Len(s)] == IF i = 0 THEN 0 ELSE n[i - 1] * 26 + s[i]
    IN n[Len(s)] - 1

\* The cells of a range like 'Tab'!AB2:AB: Google reads the letters.
A1Range(letters, fromRow) == {<<r, ColumnNumber(letters)>> : r \in fromRow..LastRow}

Filled(letters, fromRow) ==
    {p[1] : p \in {q \in A1Range(letters, fromRow) : sheet[q[1]][q[2]] # ""}}

\* A bug: half-filled rows become links too.
LinkRows_half(t) == Filled(t.donor, t.dataStartRow) \cup Filled(t.acceptor, t.dataStartRow)

\* readDonorRows and the filter after it: a row becomes a link if both cells are filled.
LinkRows(t) == Filled(t.donor, t.dataStartRow) \cap Filled(t.acceptor, t.dataStartRow)

\* A run without links completes and writes nothing, not even the heading.
ReadSheet ==
    /\ run.at = "idle" /\ task # NoTask
    /\ LinkRows(task) # {}
    /\ run' = [at |-> "read", task |-> task, rows |-> LinkRows(task), since |-> acts]
    /\ UNCHANGED <<task, sheet, acts, again>>

\* writeFormattedBlock: a matrix from its upper left cell on.
Block(row, column, height) == (row..(row + height - 1)) \X (column..(column + 5))

\* The rows from the first to the last that has a link; the others among them are blanked.
WriteBlock ==
    /\ run.at = "read"
    /\ LET minRow == CHOOSE r \in run.rows : \A q \in run.rows : r <= q
           maxRow == CHOOSE r \in run.rows : \A q \in run.rows : r >= q
           block == Block(minRow, colLetterToIndex(run.task.result), maxRow - minRow + 1)
       IN sheet' = [r \in Rows |-> [c \in Columns |->
                       IF <<r, c>> \in block THEN IF r \in run.rows THEN "result" ELSE ""
                       ELSE sheet[r][c]]]
    /\ run' = [run EXCEPT !.at = "written"]
    /\ UNCHANGED <<task, acts, again>>

WriteHeader ==
    /\ run.at = "written"
    /\ LET block == Block(run.task.headerRow, colLetterToIndex(run.task.result), 1)
       IN sheet' = IF run.task.headerRow = 0 THEN sheet
                   ELSE [r \in Rows |-> [c \in Columns |->
                            IF <<r, c>> \in block THEN "heading" ELSE sheet[r][c]]]
    /\ again' = IF run.since = acts THEN run.rows ELSE {}
    /\ run' = NoRun
    /\ UNCHANGED <<task, acts>>

\* An error of Google's API between the two writes, or a crash.
RunFails ==
    /\ run.at \in {"read", "written"}
    /\ run' = NoRun
    /\ UNCHANGED <<task, sheet, acts, again>>

SheetNext ==
    \/ \E form \in Forms : SaveTask(form)
    \/ \E r \in Rows : Fill(r)
    \/ ReadSheet \/ WriteBlock \/ WriteHeader \/ RunFails

SheetSpec == SheetInit /\ [][SheetNext]_sheetVars

------------------------------------------------------------------------------
(* Properties.                                                             *)

\* Nothing in validate (SheetsTaskDialog.tsx:332) or in the API's schema keeps the six
\* columns of the results away from the two the task reads.
Apart(t) ==
    \A s \in {t.donor, t.acceptor} :
        ColumnNumber(s) \notin ColumnNumber(t.result)..(ColumnNumber(t.result) + 5)

\* A run never writes into the columns it reads, when the dialog was given columns that
\* are apart: reading goes by letters, which Google counts, and writing by an index that
\* columns.ts counts, so they must count alike on both sides of Z.
KeepsInputs ==
    run.at # "idle" /\ Apart(run.task) /\ task' = task /\ acts' = acts =>
        \A r \in Rows : \A s \in {run.task.donor, run.task.acceptor} :
            sheet'[r][ColumnNumber(s)] = sheet[r][ColumnNumber(s)]

\* A run that finished has a result beside every row whose two cells were filled and beside
\* no other row from its first to its last, half-filled or empty, a heading over none of
\* them, and the next run makes links of the same rows again, until a user changes the
\* sheet or the task.
ResultsBesideRows ==
    again # {} /\ Apart(task) /\ run.at \in {"idle", "read"} =>
        /\ \A r \in Rows : \A c \in ColumnNumber(task.result)..(ColumnNumber(task.result) + 5) :
              /\ r \in again => sheet[r][c] = "result"
              /\ (\E q \in again : q < r) /\ (\E q \in again : r < q) /\ r \notin again
                    => sheet[r][c] = ""
        /\ run.at = "read" => run.rows = again

\* Both at every step: the sheet survives its runs, whatever letters around Z, rows and
\* changes of the task users come up with (columns.ts:14-58, sheets-task.service.ts:284-323).
SheetIntact == [][KeepsInputs /\ ResultsBesideRows']_sheetVars
=============================================================================
