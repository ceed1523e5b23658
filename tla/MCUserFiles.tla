----------------------------- MODULE MCUserFiles ----------------------------
(***************************************************************************)
(* TLC instances of UserFiles.  Between the two layouts a save has one of  *)
(* each thing to reconcile: a tab that is gone or new, one whose place and *)
(* title changed, one whose content changed, another active tab.           *)
(***************************************************************************)
EXTENDS UserFiles

LayoutTab(id, meta, content) == [id |-> id, meta |-> meta, content |-> content]

TwoLayouts ==
    {[tabs |-> <<LayoutTab(0, "a.txt", "none"), LayoutTab(1, "b.txt", "none"),
                 LayoutTab(2, "c.txt", "none")>>,
      active |-> 1],
     [tabs |-> <<LayoutTab(1, "renamed.txt", "none"), LayoutTab(2, "c.txt", "edited")>>,
      active |-> 2]}

ProcessSymmetry == Permutations(Processes)
=============================================================================
