---------------------------- MODULE EditorViews ----------------------------
(***************************************************************************)
(* What an editor tab may show instead of its text, or over it: the table  *)
(* of a CSV file, the log view that follows the end of a file, and the     *)
(* search bar (src/src/fulgur/content_area.rs chooses between the first    *)
(* two: the log view when its flag is set, else the table of a CSV tab).   *)
(*                                                                         *)
(* The table and the log view share nothing: a CSV tab and a log tab have  *)
(* buffers of their own, and the search bar is hidden by neither.  A       *)
(* behaviour is therefore that of one of them, the others standing where   *)
(* they began, and the properties of each are those of its module.         *)
(***************************************************************************)
EXTENDS CsvTable, LogView, SearchBar

VARIABLE view     \* the view this behaviour is about

vars == <<view, csvVars, logVars, searchVars>>

TypeOK == CsvTypeOK /\ LogTypeOK /\ SearchTypeOK

\* A component the behaviour is not about has one initial state.
AnyOf(S) == CHOOSE x \in S : TRUE

Init ==
    /\ view \in {"table", "log", "search"}
    /\ CsvInit /\ LogInit /\ SearchInit
    /\ view # "table" => csv = AnyOf(CsvTexts)
    /\ view # "log" => ~active /\ file = <<1>>
    /\ view # "search" =>
          shownTab = AnyOf(Editors) /\ \A t \in Editors : text[t] = AnyOf(Texts)

Next ==
    \/ view = "table"  /\ CsvNext        /\ UNCHANGED <<view, logVars, searchVars>>
    \/ view = "log"    /\ LogNext        /\ UNCHANGED <<view, csvVars, searchVars>>
    \/ view = "search" /\ SearchNextStep /\ UNCHANGED <<view, csvVars, logVars>>

\* The polling tasks of the log run, and nothing else need happen.
Spec == Init /\ [][Next]_vars /\ LogFairness
=============================================================================
