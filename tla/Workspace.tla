----------------------------- MODULE Workspace -----------------------------
(***************************************************************************)
(* The tabs of the windows of one process: opening, activating, reordering *)
(* and closing them one by one or in bulk, with a question for each        *)
(* modified one; Markdown previews that live and die with their source;    *)
(* tabs sent to another window, which travel through two slots that each   *)
(* window empties when it renders; and closing windows and quitting, with  *)
(* warnings about files too large to be persisted and saves that fail.     *)
(*                                                                         *)
(* A document stands for what an editor tab holds, of which only three     *)
(* things are kept: whether it is modified, whether it has a file, and     *)
(* whether an untitled one has only white space in it.  A window has one   *)
(* editor and one preview for it at the most, so the two stand for their   *)
(* tab ids as well.                                                        *)
(* The user acts on a window that has rendered; a window in the background *)
(* renders when the system asks it to.  Left out: the settings tab, which  *)
(* is never modified, and failures to create a window.                     *)
(***************************************************************************)
EXTENDS Naturals, FiniteSets, SequencesExt

CONSTANTS
  Window,    \* bound: the windows of the process
  Small,     \* bound: documents that the state database can keep
  Markdown,  \* bound: small documents that are previewed
  Large,     \* bound: local files above LARGE_FILE_THRESHOLD_BYTES
  MaxTabs,   \* bound: tabs in a window
  Busy       \* bound: windows where tabs are dragged and where saves fail twice

ASSUME BoundsAssumption ==
  /\ Window \subseteq Nat /\ IsFiniteSet(Window) /\ 1 \in Window /\ Busy \subseteq Window
  /\ Small \subseteq Nat \ {0} /\ IsFiniteSet(Small)
  /\ Large \subseteq Nat \ {0} /\ IsFiniteSet(Large)
  /\ Small \cap Large = {} /\ Markdown \subseteq Small
  /\ MaxTabs \in Nat

Doc == Small \cup Large
None == 0

VARIABLES
  open,         \* windows on the screen
  registered,   \* WindowManager.windows
  win,          \* what each window keeps
  opening,      \* the document whose new window is being created
  modified,     \* documents with changes neither saved nor given up
  untitled,     \* documents that have no file
  blank,        \* untitled documents with nothing but white space in them
  saved,        \* history: documents in the save the session ended with
  lost,         \* history: a modified document was lost on its way
  used          \* bound: documents opened so far

textVars == <<untitled, blank>>
vars == <<open, registered, win, opening, modified, textVars, saved, lost, used>>
historyVars == <<saved, lost, used>>
screenVars == <<open, registered, opening, saved, lost>>
windowVars == <<screenVars, textVars, used>>

Tab == [doc : Doc, preview : BOOLEAN]
Editor(d) == [doc |-> d, preview |-> FALSE]
Preview(d) == [doc |-> d, preview |-> TRUE]
NoTab == Editor(None)

Dialog ==
  [kind : {"none", "quit"}, tab : {NoTab}, keep : {NoTab}]
  \cup [kind : {"close", "all", "left", "right", "others"}, tab : Tab,
        keep : Tab \cup {NoTab}]
  \cup [kind : {"large quit", "large window"}, tab : Tab, keep : {NoTab}]
NoDialog == [kind |-> "none", tab |-> NoTab, keep |-> NoTab]
NoWindow == [tabs |-> <<>>, active |-> NoTab, transfer |-> None,
             removal |-> NoTab, dialog |-> NoDialog, answered |-> {},
             failed |-> FALSE]

-----------------------------------------------------------------------------
(* The list of tabs                                                         *)

Docs(tabs) == {tabs[i].doc : i \in {j \in DOMAIN tabs : ~tabs[j].preview}}
Position(tabs, tab) == CHOOSE i \in DOMAIN tabs : tabs[i] = tab
Lesser(a, b) == IF a < b THEN a ELSE b
First(positions) == CHOOSE i \in positions : \A j \in positions : i <= j

\* Mutant: the active tab is kept when it is the one that was closed.
AnchoredNowhere(tabs, active, pos) ==
  IF tabs = <<>> THEN NoTab ELSE active

\* close_tab_manage_focus: another tab becomes active without set_active_tab.
Anchored(tabs, active, pos) ==
  IF tabs = <<>> THEN NoTab
  ELSE IF Contains(tabs, active) THEN active
  ELSE tabs[Lesser(pos, Len(tabs))]

Without(rec, tab) ==
  LET pos == Position(rec.tabs, tab)
      left == RemoveAt(rec.tabs, pos)
  IN [rec EXCEPT !.tabs = left, !.active = Anchored(left, rec.active, pos)]

\* Mutant: the preview of a removed editor stays.
RemoveTabAlone(rec, tab) ==
  IF ~Contains(rec.tabs, tab) THEN rec ELSE Without(rec, tab)

\* remove_tab_by_id: the first preview of a removed editor goes with it.
RemoveTab(rec, tab) ==
  LET left == Without(rec, tab)
  IN IF ~Contains(rec.tabs, tab) THEN rec
     ELSE IF ~tab.preview /\ Contains(left.tabs, Preview(tab.doc))
     THEN Without(left, Preview(tab.doc))
     ELSE left

RemoveTabs(rec, list) ==
  LET after[n \in 0 .. Len(list)] ==
        IF n = 0 THEN rec ELSE RemoveTab(after[n - 1], list[n])
  IN after[Len(list)]

\* Shows a tab at a position, pushed or inserted, and makes it active.
Shown(rec, pos, tab) ==
  [rec EXCEPT !.tabs = InsertAt(@, pos, tab), !.active = tab]

-----------------------------------------------------------------------------
(* Start                                                                    *)

\* Fulgur::new with an initial untitled tab.
FirstTab(d) == Shown(NoWindow, 1, Editor(d))

Init ==
  /\ open = {1} /\ registered = {1}
  /\ \E d \in Small :
       /\ \A e \in Small : d <= e
       /\ win = [w \in Window |-> IF w = 1 THEN FirstTab(d) ELSE NoWindow]
       /\ used = {d} /\ untitled = {d} /\ blank = {d}
  /\ opening = None /\ modified = {} /\ saved = {} /\ lost = FALSE

DocsOf(w) == Docs(win[w].tabs)
InSlots == {win[w].transfer : w \in open} \ {None}
\* Bound: a document is opened once.
Fresh(docs) == {d \in docs \ used : \A e \in docs \ used : d <= e}
Opens(d) == used' = used \cup {d}
OpensBlank(d) == /\ Opens(d)
                 /\ untitled' = untitled \cup {d} /\ blank' = blank \cup {d}

\* The user acts on a window that shows what it was last told to show.
Rendered(w) == /\ w \in open
               /\ win[w].transfer = None /\ win[w].removal = NoTab
Ready(w) == Rendered(w) /\ win[w].dialog = NoDialog
Room(w) == Len(win[w].tabs) < MaxTabs
Set(w, rec) == win' = [win EXCEPT ![w] = rec]

\* Documents that a slot held are lost, others are given up by the user.
LoseOrGive(gone, given) ==
  /\ lost' = (lost \/ modified \cap (gone \ given) # {})
  /\ modified' = modified \ (gone \cup given)
Lose(gone) == LoseOrGive(gone, {})

-----------------------------------------------------------------------------
(* Opening, activating, ordering                                            *)

NewTab(w) ==
  /\ Ready(w) /\ Room(w)
  /\ \E d \in Fresh(Small) :
       /\ Set(w, Shown(win[w], Len(win[w].tabs) + 1, Editor(d)))
       /\ OpensBlank(d)
  /\ UNCHANGED <<screenVars, modified>>

\* A duplicate is an untitled tab that counts as modified.  That of a file has
\* any text, that of an untitled document is as blank as the document.
DuplicateTab(w) ==
  /\ Ready(w) /\ Room(w)
  /\ \E i \in DOMAIN win[w].tabs, d \in Fresh(Small) :
       LET source == win[w].tabs[i]
       IN /\ ~source.preview
          /\ Set(w, Shown(win[w], i + 1, Editor(d)))
          /\ \/ source.doc \notin untitled \ blank /\ blank' = blank \cup {d}
             \/ source.doc \notin blank /\ blank' = blank
          /\ modified' = modified \cup {d} /\ untitled' = untitled \cup {d}
          /\ Opens(d)
  /\ UNCHANGED screenVars

\* The last tab is reused when it is an untitled one with nothing but white
\* space in it.  Whether it counts as modified is not looked at.
ReusingScratch(rec) ==
  IF rec.tabs = <<>> THEN rec
  ELSE LET final == Last(rec.tabs)
       IN IF ~final.preview /\ final.doc \in blank
          THEN RemoveTab(rec, final) ELSE rec

\* A file that was read in the background is placed whatever is on display;
\* a Markdown file brings its preview when the settings say so.
FileOpened(w) ==
  /\ w \in open /\ Room(w)
  /\ \E d \in Fresh(Small) \cup Fresh(Large) :
       LET reused == ReusingScratch(win[w])
           placed == Shown(reused, Len(reused.tabs) + 1, Editor(d))
       IN /\ Opens(d)
          /\ \/ Set(w, placed)
             \/ /\ Len(placed.tabs) < MaxTabs /\ d \in Markdown
                /\ Set(w, [placed EXCEPT !.tabs = Append(@, Preview(d))])
  /\ UNCHANGED <<screenVars, modified, textVars>>

\* open_markdown_preview_tab opens the preview of the active tab or closes it.
TogglePreview(w) ==
  LET tab == win[w].active
      preview == Preview(tab.doc)
  IN /\ Ready(w) /\ Contains(win[w].tabs, tab)
     /\ \/ /\ Contains(win[w].tabs, preview)
           /\ Set(w, RemoveTab(win[w], preview))
        \/ /\ ~Contains(win[w].tabs, preview) /\ tab.doc \in Markdown /\ Room(w)
           /\ Set(w, Shown(win[w], Position(win[w].tabs, tab) + 1, preview))
     /\ UNCHANGED <<windowVars, modified>>

SetActiveTab(w) ==
  /\ Ready(w)
  /\ \E tab \in ToSet(win[w].tabs) \ {win[w].active} :
       Set(w, [win[w] EXCEPT !.active = tab])
  /\ UNCHANGED <<windowVars, modified>>

\* A tab dropped on the slot before position to, or after the last one.
ReorderTab(w) ==
  /\ Ready(w) /\ w \in Busy
  /\ \E from \in DOMAIN win[w].tabs, to \in 1 .. (Len(win[w].tabs) + 1) :
       LET tab == win[w].tabs[from]
           rest == RemoveAt(win[w].tabs, from)
       IN /\ to \notin {from, from + 1}
          /\ Set(w, [win[w] EXCEPT
               !.tabs = InsertAt(rest, IF to > from THEN to - 1 ELSE to, tab)])
  /\ UNCHANGED <<windowVars, modified>>

ActiveDoc(w) ==
  IF Contains(win[w].tabs, win[w].active) /\ ~win[w].active.preview
  THEN win[w].active.doc ELSE None

\* White space is a change like any other.
Edit(w) ==
  LET d == ActiveDoc(w)
  IN /\ Ready(w) /\ d # None
     /\ modified' = modified \cup {d}
     /\ \/ blank' = blank \ {d}
        \/ d \in untitled /\ blank' = blank \cup {d}
     /\ UNCHANGED <<screenVars, used, win, untitled>>

\* The save itself is the subject of FileSync.  An untitled document gets a file.
SaveFile(w) ==
  LET d == ActiveDoc(w)
  IN /\ Ready(w) /\ d # None
     /\ modified' = modified \ {d}
     /\ untitled' = untitled \ {d} /\ blank' = blank \ {d}
     /\ UNCHANGED <<screenVars, used, win>>

-----------------------------------------------------------------------------
(* Closing tabs                                                             *)

IsModified(tab) == ~tab.preview /\ tab.doc \in modified

Asking(kind, tab, keep) == [kind |-> kind, tab |-> tab, keep |-> keep]

\* Mutant: only the first tab of a bulk operation is asked about.
SweptAfterOne(rec, tabs, kind, keep) ==
  IF tabs # <<>> /\ IsModified(tabs[1])
  THEN [rec EXCEPT !.active = tabs[1], !.dialog = Asking(kind, tabs[1], keep)]
  ELSE RemoveTabs(rec, tabs)

\* The loop of the bulk operations: it removes tabs up to the first modified
\* one, which it shows and asks about.
Swept(rec, tabs, kind, keep) ==
  LET toAsk == {i \in 1 .. Len(tabs) : IsModified(tabs[i])}
      stop == First(toAsk)
  IN IF toAsk = {} THEN RemoveTabs(rec, tabs)
     ELSE [RemoveTabs(rec, SubSeq(tabs, 1, stop - 1)) EXCEPT
             !.active = tabs[stop], !.dialog = Asking(kind, tabs[stop], keep)]

ClosedAll(rec) == Swept(rec, rec.tabs, "all", NoTab)

ClosedLeft(rec, keep) ==
  IF ~Contains(rec.tabs, keep) THEN rec
  ELSE Swept(rec, SubSeq(rec.tabs, 1, Position(rec.tabs, keep) - 1),
             "left", keep)

ClosedRight(rec, keep) ==
  IF ~Contains(rec.tabs, keep) THEN rec
  ELSE Swept(rec, SubSeq(rec.tabs, Position(rec.tabs, keep) + 1, Len(rec.tabs)),
             "right", keep)

\* The active tab is made active again even when it went with its source.
ClosedOthers(rec) ==
  IF rec.active = NoTab \/ Len(rec.tabs) <= 1 THEN rec
  ELSE LET others == IF Contains(rec.tabs, rec.active)
                     THEN RemoveAt(rec.tabs, Position(rec.tabs, rec.active))
                     ELSE rec.tabs
           swept == Swept(rec, others, "others", rec.active)
       IN IF swept.dialog # NoDialog THEN swept
          ELSE [swept EXCEPT !.active = rec.active]

CloseTab(w) ==
  /\ Ready(w)
  /\ \E tab \in ToSet(win[w].tabs) :
       IF IsModified(tab)
       THEN Set(w, [win[w] EXCEPT !.dialog = Asking("close", tab, NoTab)])
       ELSE Set(w, RemoveTab(win[w], tab))
  /\ UNCHANGED <<windowVars, modified>>

CloseMany(w) ==
  /\ Ready(w) /\ win[w].tabs # <<>>
  /\ \/ Set(w, ClosedAll(win[w]))
     \/ \E tab \in ToSet(win[w].tabs) : \/ Set(w, ClosedLeft(win[w], tab))
                                        \/ Set(w, ClosedRight(win[w], tab))
     \/ Set(w, ClosedOthers(win[w]))
  /\ UNCHANGED <<windowVars, modified>>

\* What the question was asked for goes on after the tab is removed.
Continued(rec, dialog) ==
  CASE dialog.kind = "close" -> rec
    [] dialog.kind = "all" -> ClosedAll(rec)
    [] dialog.kind = "left" -> ClosedLeft(rec, dialog.keep)
    [] dialog.kind = "right" -> ClosedRight(rec, dialog.keep)
    [] dialog.kind = "others" ->
         ClosedOthers([rec EXCEPT !.active =
           IF Contains(rec.tabs, dialog.keep) THEN dialog.keep ELSE @])

ConfirmClose(w) ==
  LET dialog == win[w].dialog
      rec == [win[w] EXCEPT !.dialog = NoDialog]
  IN /\ w \in open
     /\ dialog.kind \in {"close", "all", "left", "right", "others"}
     /\ Set(w, Continued(RemoveTab(rec, dialog.tab), dialog))
     /\ modified' = IF Contains(rec.tabs, dialog.tab)
                    THEN modified \ {dialog.tab.doc} ELSE modified
     /\ UNCHANGED windowVars

CancelDialog(w) ==
  /\ w \in open /\ win[w].dialog # NoDialog
  /\ Set(w, [win[w] EXCEPT !.dialog = NoDialog, !.answered = {}])
  /\ UNCHANGED <<windowVars, modified>>

-----------------------------------------------------------------------------
(* Sending a tab to another window                                          *)

\* The window that gets the tab may not have rendered since it got another.
SendTo(w) ==
  /\ Ready(w)
  /\ \E d \in DocsOf(w), v \in (registered \cap open) \ {w} :
       /\ win' = [win EXCEPT ![v].transfer = d, ![w].removal = Editor(d)]
       /\ Lose({win[v].transfer})
  /\ UNCHANGED <<open, registered, opening, saved, used, textVars>>

\* Bound: one window is being created at a time.
SendToNewWindow(w) ==
  /\ Ready(w) /\ opening = None
  /\ \E d \in DocsOf(w) :
       /\ Set(w, [win[w] EXCEPT !.removal = Editor(d)])
       /\ opening' = d
  /\ UNCHANGED <<open, registered, modified, textVars, historyVars>>

\* Window ids are never used again: one that is still registered is taken.
Free == {v \in Window : /\ v \notin open \cup registered
                        /\ \A u \in Window \ (open \cup registered) : v <= u}

Register(v, rec) ==
  /\ open' = open \cup {v}
  /\ registered' = registered \cup {v}
  /\ Set(v, rec)

WindowOpens ==
  /\ open # {} /\ opening # None
  /\ \E v \in Free : Register(v, [NoWindow EXCEPT !.transfer = opening])
  /\ opening' = None
  /\ UNCHANGED <<modified, textVars, historyVars>>

NewWindow(w) ==
  /\ Ready(w)
  /\ \E v \in Free, d \in Fresh(Small) : Register(v, FirstTab(d)) /\ OpensBlank(d)
  /\ UNCHANGED <<opening, modified, saved, lost>>

-----------------------------------------------------------------------------
(* Rendering                                                                *)

\* handle_pending_tab_transfer and handle_pending_tab_removal, in either order:
\* a document may come back before the tab it left is gone, which has another
\* id.  A window whose last tab was sent away goes; the manager is not told.
Received(rec) ==
  IF rec.transfer = None THEN rec
  ELSE [Shown(rec, Len(rec.tabs) + 1, Editor(rec.transfer))
          EXCEPT !.transfer = None]
Released(rec) ==
  IF rec.removal = NoTab THEN rec
  ELSE [RemoveTab(rec, rec.removal) EXCEPT !.removal = NoTab]
Settled(rec) == [rec EXCEPT !.active = IF rec.tabs = <<>> THEN NoTab ELSE @]

Render(w) ==
  LET rec == Received(Released(Settled(win[w])))
      gone == win[w].removal # NoTab /\ rec.tabs = <<>>
  IN /\ w \in open /\ rec # win[w]
     /\ win[w].transfer # None => Room(w)
     /\ Set(w, IF gone THEN NoWindow ELSE rec)
     /\ open' = IF gone THEN open \ {w} ELSE open
     /\ UNCHANGED <<registered, opening, modified, textVars, historyVars>>

-----------------------------------------------------------------------------
(* Closing windows and quitting                                             *)

\* What build_windows_state finds: the tabs of windows that are registered and
\* still there, without the contents of large files.
Persisted == (UNION {DocsOf(v) : v \in registered \cap open}) \cap Small

LargeModified(rec) ==
  {i \in DOMAIN rec.tabs : /\ rec.tabs[i].doc \in Large \cap modified
                           /\ rec.tabs[i].doc \notin rec.answered}

\* drive_large_file_close_warnings: the next tab to ask about becomes active.
Warned(rec, kind) ==
  LET i == First(LargeModified(rec))
  IN [rec EXCEPT !.active = rec.tabs[i],
                 !.dialog = Asking(kind, rec.tabs[i], NoTab)]

\* The window stays, with the record, and the documents keep what they have.
Stay(w, rec) == Set(w, rec) /\ UNCHANGED windowVars

\* The last window or, with cx.quit, all of them go, and what is on its way.
Ended(kept, given) ==
  /\ open' = {} /\ registered' = {} /\ opening' = None
  /\ win' = [w \in Window |-> NoWindow]
  /\ saved' = kept
  /\ LoseOrGive((InSlots \cup {opening}) \ kept, given)
  /\ UNCHANGED <<used, textVars>>

\* One window goes, and others stay: what it held is in no later save, and
\* what was sent to it is lost, as the window it came from lets go of it next.
Leave(w, kept, given) ==
  IF open = {w} THEN Ended(kept, given)
  ELSE /\ open' = open \ {w}
       /\ registered' = registered \ {w}
       /\ win' = [win EXCEPT ![w] = NoWindow]
       /\ LoseOrGive({win[w].transfer}, DocsOf(w))
       /\ UNCHANGED <<opening, saved, used, textVars>>

\* quit_inner: the setting confirm_exit asks first, otherwise the save comes at
\* once.  A save that fails keeps the window.
QuitNow(w, rec) ==
  \/ /\ Stay(w, [rec EXCEPT !.dialog = [NoDialog EXCEPT !.kind = "quit"]])
     /\ UNCHANGED modified
  \/ Ended(Persisted, rec.answered)
  \/ Stay(w, [rec EXCEPT !.answered = {}]) /\ UNCHANGED modified

Warn(w, rec, kind) == Stay(w, Warned(rec, kind)) /\ UNCHANGED modified

Quit(w) ==
  /\ Ready(w)
  /\ IF LargeModified(win[w]) # {}
     THEN Warn(w, win[w], "large quit") ELSE QuitNow(w, win[w])

ConfirmQuit(w) ==
  /\ w \in open /\ win[w].dialog.kind = "quit"
  /\ \/ Ended(Persisted, win[w].answered)
     \/ /\ Stay(w, [win[w] EXCEPT !.dialog = NoDialog, !.answered = {}])
        /\ UNCHANGED modified

\* The save before a window leaves: the second one that fails lets it go.
\* Bound: that happens to Busy windows.
SaveAndLeave(w) ==
  \/ Leave(w, Persisted, {})
  \/ win[w].failed /\ Leave(w, {}, DocsOf(w))
  \/ /\ ~win[w].failed /\ w \in Busy
     /\ Stay(w, [win[w] EXCEPT !.failed = TRUE]) /\ UNCHANGED modified

RequestClose(w) ==
  LET final == Cardinality(registered) = 1
  IN /\ Ready(w)
     /\ \/ /\ LargeModified(win[w]) # {}
           /\ Warn(w, win[w], IF final THEN "large quit" ELSE "large window")
        \/ LargeModified(win[w]) = {} /\ SaveAndLeave(w)
        \/ LargeModified(win[w]) = {} /\ final /\ QuitNow(w, win[w])

\* After the last warning comes what they were shown for; finish_window_close
\* keeps the window when its save fails.
WarningsAnswered(w, kind, rec) ==
  IF kind = "large quit" THEN QuitNow(w, rec)
  ELSE \/ Leave(w, Persisted, rec.answered)
       \/ Stay(w, [rec EXCEPT !.answered = {}]) /\ UNCHANGED modified

\* Discard: the document is lost if the window goes.
Discard(w) ==
  LET dialog == win[w].dialog
      rec == [win[w] EXCEPT !.dialog = NoDialog,
                            !.answered = @ \cup {dialog.tab.doc}]
  IN /\ w \in open /\ dialog.kind \in {"large quit", "large window"}
     /\ IF LargeModified(rec) # {} THEN Warn(w, rec, dialog.kind)
        ELSE WarningsAnswered(w, dialog.kind, rec)

\* Save: the file is written, and the warnings go on as a step of their own
\* that nothing comes before; a write that fails gives the close up.
SaveLarge(w) ==
  LET dialog == win[w].dialog
  IN /\ w \in open /\ dialog.kind \in {"large quit", "large window"}
     /\ dialog.tab.doc \in modified
     /\ \/ /\ modified' = modified \ {dialog.tab.doc}
           /\ UNCHANGED <<win, windowVars>>
        \/ /\ Stay(w, [win[w] EXCEPT !.dialog = NoDialog, !.answered = {}])
           /\ UNCHANGED modified

-----------------------------------------------------------------------------

Next ==
  \/ \E w \in Window :
       \/ NewTab(w) \/ DuplicateTab(w) \/ FileOpened(w) \/ TogglePreview(w)
       \/ SetActiveTab(w) \/ ReorderTab(w) \/ Edit(w) \/ SaveFile(w)
       \/ CloseTab(w) \/ CloseMany(w) \/ ConfirmClose(w) \/ CancelDialog(w)
       \/ SendTo(w) \/ SendToNewWindow(w) \/ NewWindow(w) \/ Render(w)
       \/ RequestClose(w) \/ Quit(w) \/ ConfirmQuit(w) \/ Discard(w) \/ SaveLarge(w)
  \/ WindowOpens

Spec == Init /\ [][Next]_vars

-----------------------------------------------------------------------------

\* No window shows a document or its preview twice, and slots hold documents.
TypeOK ==
  /\ open \subseteq Window /\ registered \subseteq Window
  /\ opening \in Doc \cup {None} /\ modified \subseteq Doc
  /\ blank \subseteq untitled /\ untitled \subseteq Small
  /\ saved \subseteq Small /\ lost \in BOOLEAN /\ used \subseteq Doc
  /\ \A w \in Window :
       /\ DOMAIN win[w] = DOMAIN NoWindow
       /\ \A i, j \in DOMAIN win[w].tabs :
            /\ win[w].tabs[i] \in Tab
            /\ win[w].tabs[i] = win[w].tabs[j] => i = j
       /\ {win[w].active, win[w].removal} \subseteq Tab \cup {NoTab}
       /\ win[w].dialog \in Dialog /\ win[w].transfer \in Doc \cup {None}
       /\ win[w].answered \subseteq Large /\ win[w].failed \in BOOLEAN

\* A window with tabs shows one of them, whatever was closed, sent away,
\* received or taken along by a preview's source.
ActiveIsATab ==
  \A w \in open : win[w].tabs # <<>> => Contains(win[w].tabs, win[w].active)

\* A preview never outlives the editor it renders.
PreviewHasSource ==
  \A w \in open : \A tab \in ToSet(win[w].tabs) :
    tab.preview => Contains(win[w].tabs, Editor(tab.doc))

InATab(d) == \E w \in open : d \in DocsOf(w)
OnItsWay(d) == d = opening \/ \E w \in open : win[w].transfer = d

\* Unsaved changes that can be persisted, those of untitled tabs with nothing but
\* white space in them set apart.
Unsaved == (modified \cap Small) \ blank

\* Unsaved changes that can be persisted are in a tab, on their way to one or in
\* the save the session ended with, unless the user gave them up when asked or
\* closed their window among others.  White space in an untitled tab does not
\* count: a file that is opened takes the place of such a tab, which
\* place_editor_tab_reusing_scratch removes without a question, modified or not.
\* Those lost between two windows are the subject of SentTabKept.
EditsAskedFirst ==
  \A d \in Unsaved :
    InATab(d) \/ OnItsWay(d) \/ (open = {} /\ d \in saved)

\* large_file_close.rs asks about files that are too large to be persisted.
LargeEditsAskedFirst ==
  \A d \in modified \cap Large : InATab(d) \/ OnItsWay(d)

\* A document sent to another window is in its slot until it arrives there.
SentTabKept == ~lost

\* The manager knows the windows there are: it decides which one is the last.
RegisteredIsOpen == registered = open

=============================================================================
