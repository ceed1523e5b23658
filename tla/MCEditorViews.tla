--------------------------- MODULE MCEditorViews ---------------------------
(***************************************************************************)
(* Values for a run of EditorViews: a CSV text whose second record is      *)
(* shorter than its first, an empty one and one of a single cell; a text   *)
(* in which matches of "aa" overlap, one in which they are told apart by   *)
(* case, one with a match behind a letter whose lower case is longer, and  *)
(* one where a match would end within the lower case of such a letter; a   *)
(* replacement in which the query is found again.                          *)
(***************************************************************************)
EXTENDS EditorViews

MCCsvTexts == {<<<<"a", "b">>, <<"b">>>>, <<>>, <<<<"a">>>>}
MCTexts == {<<"a", "A", "-">>, <<"a", "a", "a">>, <<"E", "a", "A">>, <<"a", "E">>}
MCQueries == {<<>>, <<"a", "a">>}
MCReplacements == {<<"a", "A">>}
=============================================================================
