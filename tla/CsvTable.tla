------------------------------ MODULE CsvTable ------------------------------
(***************************************************************************)
(* The table view of a CSV tab (src/src/fulgur/ui/tabs/editor_tab/         *)
(* csv_table, ui/bars/csv_toolbar.rs, files/csv_support.rs).               *)
(*                                                                         *)
(* The text of the tab is the document; the table is a copy of it, parsed  *)
(* when a frame is drawn, edited in place, and written back whole after    *)
(* every edit.  Two fingerprints say whether the copy is still one: that   *)
(* of the text it was parsed from or last seen with, and that of the text  *)
(* its last edit wrote.  The dialog that edits a cell holds the table it   *)
(* was opened on, even once the tab has another one.                       *)
(*                                                                         *)
(* A text is the sequence of its records, a record the sequence of its     *)
(* cells: how a cell is quoted and delimited is left out, and so are the   *)
(* widths of columns.  A fingerprint is the text itself.  The reader is    *)
(* flexible and reads a string, so no record fails to parse: the warning   *)
(* about malformed rows, and its fallback to text, cannot occur.  Tabs of  *)
(* large files, which never have a table, are left out.                    *)
(***************************************************************************)
EXTENDS Integers, Sequences
LOCAL INSTANCE SequencesExt

CONSTANTS
    Blank,                \* the empty cell
    Cells,                \* what a cell may hold
    CsvTexts,             \* texts the tab may load, reload or be given by typing
    ReloadsBeforeFrame,   \* a reload may land between an edit and its frame
    MaxRecords,           \* bound: records of a table
    MaxColumns,           \* bound: columns of a table
    MaxCsvEdits,          \* bound: edits made in the table
    MaxCsvTexts           \* bound: texts typed or reloaded

ASSUME CsvTableAssumption ==
    /\ Blank \in Cells
    /\ \A t \in CsvTexts : \A i \in DOMAIN t : Len(t[i]) > 0
    /\ ReloadsBeforeFrame \in BOOLEAN
    /\ {MaxRecords, MaxColumns, MaxCsvEdits, MaxCsvTexts} \subseteq Nat

VARIABLES
    csv,        \* the text of the tab
    mode,       \* csv_view_mode
    table,      \* csv_table: [grid, selection, committed], or NoTable
    source,     \* csv_table_source_hash
    dialog,     \* the edit dialog: [open, row, col, stale]
    drawn,      \* the view has been drawn since the text or the mode changed
    csvEdits,   \* edits made in the table so far
    csvTexts    \* texts typed or reloaded so far

csvVars == <<csv, mode, table, source, dialog, drawn, csvEdits, csvTexts>>

NoTable == [grid |-> <<>>]
NoHash == <<<<>>>>      \* no text: a text has no record without cells
Unselected == 0
NoSelection == [row |-> Unselected, col |-> Unselected]
NoDialog == [open |-> FALSE, row |-> 0, col |-> 0, stale |-> NoTable]

\* parse_csv: every record is padded to the widest; the first is the headers,
\* and an empty text has headers without columns.
Width(t) == Len(t[1])
Padded(record, n) == record \o [i \in 1 .. n - Len(record) |-> Blank]
Widest(t) == CHOOSE n \in {Len(t[i]) : i \in DOMAIN t} : \A i \in DOMAIN t : Len(t[i]) <= n
Parsed(t) == IF t = <<>> THEN <<<<>>>>
             ELSE [i \in DOMAIN t |-> Padded(t[i], Widest(t))]

\* serialize_csv: a record without cells is written as one empty cell.
Serialized(grid) ==
    [i \in DOMAIN grid |-> IF grid[i] = <<>> THEN <<Blank>> ELSE grid[i]]

NewTable(t) == [grid |-> Parsed(t), selection |-> NoSelection, committed |-> NoHash]

CsvInit ==
    /\ csv \in CsvTexts
    /\ mode = "table"
    /\ table = NoTable
    /\ source = NoHash
    /\ dialog = NoDialog
    /\ drawn = FALSE
    /\ csvEdits = 0 /\ csvTexts = 0
-----------------------------------------------------------------------------
(* ensure_csv_table *)

Current == table # NoTable /\ (source = csv \/ table.committed = csv)

\* A table that is replaced stays with the dialog opened on it.
KeepsItsTable ==
    IF dialog.open /\ dialog.stale = NoTable THEN [dialog EXCEPT !.stale = table] ELSE dialog

Ensure ==
    /\ source' = csv
    /\ IF Current
       THEN UNCHANGED <<table, dialog>>
       ELSE table' = NewTable(csv) /\ dialog' = KeepsItsTable

\* render_content_area, for the active tab.
Frame ==
    /\ mode = "table" /\ ~drawn
    /\ drawn' = TRUE
    /\ Ensure
    /\ UNCHANGED <<csv, mode, csvEdits, csvTexts>>

ToggleCsvViewMode ==
    /\ drawn /\ ~dialog.open
    /\ IF mode = "table"
       THEN mode' = "text" /\ UNCHANGED <<table, source, dialog>>
       ELSE mode' = "table" /\ Ensure
    /\ UNCHANGED <<csv, drawn, csvEdits, csvTexts>>
-----------------------------------------------------------------------------
(* The edits.  A user acts on a table that is drawn. *)

Visible == mode = "table" /\ drawn /\ ~dialog.open
Rows == Len(table.grid) - 1
Columns == Width(table.grid)

\* SelectCell, SelectColumn, SelectRow and ClearSelection; the column of the
\* row numbers selects no column.
Select(r, c) ==
    /\ Visible
    /\ r \in {Unselected} \cup 1 .. Rows /\ c \in {Unselected} \cup 1 .. Columns
    /\ table' = [table EXCEPT !.selection = [row |-> r, col |-> c]]
    /\ UNCHANGED <<csv, mode, source, dialog, drawn, csvEdits, csvTexts>>

\* commit_to_buffer: the table tb, edited to grid, replaces the text.
Edited(tb, grid) == [tb EXCEPT !.grid = grid, !.committed = Serialized(grid)]

Commits(grid) ==
    /\ csvEdits < MaxCsvEdits
    /\ Len(grid) <= MaxRecords /\ Width(grid) <= MaxColumns
    /\ csvEdits' = csvEdits + 1
    /\ csv' = Serialized(grid)
    /\ drawn' = FALSE
    /\ UNCHANGED <<mode, source, csvTexts>>

ToolbarEdit(grid) ==
    /\ Visible
    /\ Commits(grid)
    /\ table' = Edited(table, grid)
    /\ UNCHANGED dialog

Least(a, b) == IF a < b THEN a ELSE b
EmptyRow == [i \in 1 .. Columns |-> Blank]

\* insert_row_at_in; record 1 of the grid is the headers.
RowInserted(r) == InsertAt(table.grid, Least(r, Rows + 1) + 1, EmptyRow)
InsertRowAbove ==
    ToolbarEdit(RowInserted(IF table.selection.row = Unselected
                            THEN Rows + 1 ELSE table.selection.row))
InsertRowBelow ==
    ToolbarEdit(RowInserted(IF table.selection.row = Unselected
                            THEN Rows + 1 ELSE table.selection.row + 1))

DeleteRow ==
    /\ Visible /\ Rows > 0
    /\ ToolbarEdit(RemoveAt(table.grid,
            1 + (IF table.selection.row = Unselected THEN Rows
                 ELSE Least(table.selection.row, Rows))))

\* insert_column_at_in, in the headers and in every row.
HeaderInserted(c) ==
    [table.grid EXCEPT ![1] = InsertAt(@, Least(c, Columns + 1), Blank)]
ColumnInserted(c) ==
    [i \in DOMAIN table.grid |->
        InsertAt(table.grid[i], Least(c, Columns + 1), Blank)]
InsertColumnBefore ==
    ToolbarEdit(ColumnInserted(IF table.selection.col = Unselected
                               THEN Columns + 1 ELSE table.selection.col))
InsertColumnAfter ==
    ToolbarEdit(ColumnInserted(IF table.selection.col = Unselected
                               THEN Columns + 1 ELSE table.selection.col + 1))

DeleteColumn ==
    /\ Visible /\ Columns > 0
    /\ LET c == IF table.selection.col = Unselected THEN Columns
                ELSE Least(table.selection.col, Columns)
       IN ToolbarEdit([i \in DOMAIN table.grid |-> RemoveAt(table.grid[i], c)])

\* move_column: a column is dragged to where another one stands.
Moved(record, from, to) == InsertAt(RemoveAt(record, from), to, record[from])
MoveColumn(from, to) ==
    /\ Visible
    /\ from \in 1 .. Columns /\ to \in 1 .. Columns \ {from}
    /\ ToolbarEdit([i \in DOMAIN table.grid |-> Moved(table.grid[i], from, to)])

\* open_edit_dialog, on a header (row 0) or on a cell.
OpenEditDialog(r, c) ==
    /\ Visible /\ csvEdits < MaxCsvEdits
    /\ r \in 0 .. Rows /\ c \in 1 .. Columns
    /\ dialog' = [open |-> TRUE, row |-> r, col |-> c, stale |-> NoTable]
    /\ UNCHANGED <<csv, mode, table, source, drawn, csvEdits, csvTexts>>

\* apply_edit, on the table the dialog was opened on.
DialogOk(value) ==
    /\ dialog.open /\ drawn
    /\ LET stale == dialog.stale # NoTable
           tb    == IF stale THEN dialog.stale ELSE table
           grid  == [tb.grid EXCEPT ![dialog.row + 1][dialog.col] = value]
       IN /\ Commits(grid)
          /\ table' = IF stale THEN table ELSE Edited(table, grid)
    /\ dialog' = NoDialog

DialogCancel ==
    /\ dialog.open /\ drawn
    /\ dialog' = NoDialog
    /\ UNCHANGED <<csv, mode, table, source, drawn, csvEdits, csvTexts>>
-----------------------------------------------------------------------------
(* The text changes by other hands: the user types in the text view, the    *)
(* file is reloaded, replacements are made from the search bar.             *)

TextChanged(t) ==
    /\ csvTexts < MaxCsvTexts
    /\ t # csv
    /\ drawn \/ ReloadsBeforeFrame
    /\ csvTexts' = csvTexts + 1
    /\ csv' = t
    /\ drawn' = (mode = "text")
    /\ UNCHANGED <<mode, table, source, dialog, csvEdits>>
-----------------------------------------------------------------------------
CsvNext ==
    \/ Frame \/ ToggleCsvViewMode
    \/ \E r \in 0 .. MaxRecords, c \in 0 .. MaxColumns : Select(r, c) \/ OpenEditDialog(r, c)
    \/ InsertRowAbove \/ InsertRowBelow \/ DeleteRow
    \/ InsertColumnBefore \/ InsertColumnAfter \/ DeleteColumn
    \/ \E from, to \in 1 .. MaxColumns : MoveColumn(from, to)
    \/ \E value \in Cells : DialogOk(value)
    \/ DialogCancel
    \/ \E t \in CsvTexts : TextChanged(t)

CsvSpec == CsvInit /\ [][CsvNext]_csvVars
-----------------------------------------------------------------------------
(* What must hold. *)

CsvTypeOK ==
    /\ mode \in {"table", "text"}
    /\ csvEdits \in 0 .. MaxCsvEdits /\ csvTexts \in 0 .. MaxCsvTexts
    /\ \A i \in DOMAIN csv : csv[i] \in Seq(Cells)
    /\ dialog.open => table # NoTable

\* What one edit may do to the text: one empty row or column more, one row or
\* column less, columns in another order, one cell changed.
EmptyAt(grid, i) == \A c \in DOMAIN grid[i] : grid[i][c] = Blank
WithoutColumn(grid, c) == [i \in DOMAIN grid |-> RemoveAt(grid[i], c)]
RowAdded(old, new) ==
    \E i \in 2 .. Len(new) : EmptyAt(new, i) /\ RemoveAt(new, i) = old
ColumnAdded(old, new) ==
    \E c \in 1 .. Width(new) :
        /\ \A i \in DOMAIN new : new[i][c] = Blank
        /\ WithoutColumn(new, c) = old
ColumnMoved(old, new) ==
    \E from, to \in 1 .. Width(old) : new = [i \in DOMAIN old |-> Moved(old[i], from, to)]
CellChanged(old, new) ==
    \E i \in DOMAIN old : \E c \in DOMAIN old[i], v \in Cells :
        new = [old EXCEPT ![i][c] = v]

\* An edit made in the tab's table changes one thing in the text and keeps
\* every other cell where its neighbours are, although the selection it acts on
\* may be that of a row or a column that is gone.
EditKeepsCells ==
    [][csvEdits' # csvEdits /\ dialog.stale = NoTable /\ Columns > 0 /\ Width(table'.grid) > 0 =>
         LET old == Parsed(csv)
             new == Parsed(csv')
         IN \/ RowAdded(old, new)
            \/ \E i \in 2 .. Len(old) : RemoveAt(old, i) = new
            \/ ColumnAdded(old, new)
            \/ \E c \in 1 .. Width(old) : WithoutColumn(old, c) = new
            \/ ColumnMoved(old, new)
            \/ CellChanged(old, new)]_csvVars
=============================================================================
