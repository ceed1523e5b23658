---------------------------- MODULE OpenRequests ----------------------------
(***************************************************************************)
(* Files and commands that reach a running process, and the window that    *)
(* takes them (src/src/main.rs, utils/single_instance.rs, window_manager/, *)
(* files/file_operations/open_ops/).                                       *)
(*                                                                         *)
(* The system, or a second process through a socket, only queues what it   *)
(* wants opened.  The queues are emptied by the rendering of the window    *)
(* that had the focus last, and that is recorded when a window is created, *)
(* when it closes, and when the one in front renders.  The window then     *)
(* looks for a tab of the file, here and in the other windows, and reads   *)
(* the file in the background before there is one.                         *)
(*                                                                         *)
(* A tab is named by the request that opened it, or is an untitled blank   *)
(* one.  What is in a file, how it is decoded, and the question asked when *)
(* the tab found is modified are left out (FileSync), and so are the tabs  *)
(* a session restores (SessionRestore).                                    *)
(***************************************************************************)
EXTENDS Integers, FiniteSets, SequencesExt

CONSTANTS
    Windows,      \* bound: the windows of the process, by number
    Restored,     \* windows the saved session has
    Files,        \* files that may be opened
    MaxRequests   \* bound: requests

ASSUME OpenRequestsAssumption ==
    /\ Windows \subseteq Nat \ {0} /\ IsFiniteSet(Windows)
    /\ 1 \in Restored /\ Restored \subseteq Windows
    /\ MaxRequests \in Nat

VARIABLES
    live,          \* windows on the screen
    starting,      \* windows whose creation has been spawned
    used,          \* window numbers given out
    front,         \* the window the system says is active
    registered,    \* WindowManager.windows
    lastFocused,   \* WindowManager.last_focused
    menu,          \* WindowManager.window_menu_tabs
    tabs,          \* the tabs of each window
    shown,         \* the active tab of each window
    request,       \* what was asked: [what, step, window, rivals]
    pendingFiles,  \* pending_files_from_macos
    commands,      \* pending_ipc_commands
    dock           \* an entry of the system's menu, on its way to a window

requestVars == <<live, starting, used, front, registered, lastFocused, menu, tabs, shown,
                 request, pendingFiles, commands, dock>>
queueVars == <<pendingFiles, commands>>
windowVars == <<live, starting, used, front, registered, lastFocused>>

NoWindow == 0
Untitled == "untitled"
NewTab == "new-tab"
NewWindow == "new-window"
BlankTab == 0
Request == 1 .. MaxRequests
NotAsked == [what |-> Untitled, step |-> "none", window |-> NoWindow, rivals |-> {}]
NoEntry == [what |-> Untitled, window |-> NoWindow, from |-> NoWindow]

WhatOf(t) == IF t = BlankTab THEN Untitled ELSE request[t].what
WhatsOf(w) == {WhatOf(tabs[w][i]) : i \in DOMAIN tabs[w]}
\* find_tab_by_path, or the first tab of that title
TabOf(w, what) == tabs[w][CHOOSE i \in DOMAIN tabs[w] :
                      /\ WhatOf(tabs[w][i]) = what
                      /\ \A j \in 1 .. i - 1 : WhatOf(tabs[w][j]) # what]
\* find_window_with_file: a window that is gone cannot be read.
OpenElsewhere(w, what) == \E v \in registered \cap live : v # w /\ what \in WhatsOf(v)

\* The next request that was never made.
NextRequest(r) == r \in Request /\ request[r].step = "none" /\ \A o \in 1 .. r - 1 : request[o].step # "none"
Done(q) == [q EXCEPT !.step = "ended", !.window = NoWindow]
Asked(what, step, w) == [NotAsked EXCEPT !.what = what, !.step = step, !.window = w]
-----------------------------------------------------------------------------
(* Windows *)

\* main: every saved window is created by a task of its own; the first one
\* gets the files of the command line.
OpenInit ==
    /\ live = {} /\ starting = Restored /\ used = Restored
    /\ front = NoWindow /\ registered = {} /\ lastFocused = NoWindow
    /\ menu = [w \in Windows |-> {}]
    /\ tabs = [w \in Windows |-> <<>>] /\ shown = [w \in Windows |-> BlankTab]
    /\ \/ request = [r \in Request |-> NotAsked]
       \/ \E p \in Files : request = [r \in Request |->
              IF r = 1 THEN Asked(p, "argument", 1) ELSE NotAsked]
    /\ pendingFiles = <<>> /\ commands = <<>> /\ dock = NoEntry

Reading(r) == request[r].step = "reading"
\* Requests for the same file that the same window is reading.
Rivals(w, what) == {o \in Request : /\ Reading(o) /\ request[o].window = w
                                    /\ request[o].what = what}

\* Mutant: a tab that is there already is not looked for.
DispatchedUnseen(reqs, w, asked) ==
    [r \in Request |->
        IF r \notin asked THEN reqs[r]
        ELSE IF OpenElsewhere(w, reqs[r].what)
             THEN Done(reqs[r])
        ELSE [reqs[r] EXCEPT !.step = "reading", !.window = w,
                  !.rivals = Rivals(w, reqs[r].what)
                             \cup {o \in asked : reqs[o].what = reqs[r].what}]]

\* do_open_file for several requests: the user is shown the tab, or told of
\* the window that has the file, or the file is read.
Dispatched(reqs, w, asked) ==
    [r \in Request |->
        IF r \notin asked THEN reqs[r]
        ELSE IF reqs[r].what \in WhatsOf(w) \/ OpenElsewhere(w, reqs[r].what)
             THEN Done(reqs[r])
        ELSE [reqs[r] EXCEPT !.step = "reading", !.window = w,
                  !.rivals = Rivals(w, reqs[r].what)
                             \cup {o \in asked : reqs[o].what = reqs[r].what}]]

\* The files of the command line, kept for the first window.
Arguments(w) == {r \in Request : request[r].step = "argument" /\ request[r].window = w}

\* create_window and open_new_window: the window is registered with the focus,
\* gets its files, and is brought to the front.
CreateWindow(w) ==
    /\ w \in starting
    /\ starting' = starting \ {w}
    /\ live' = live \cup {w}
    /\ registered' = registered \cup {w}
    /\ lastFocused' = w /\ front' = w
    /\ tabs' = [tabs EXCEPT ![w] = <<BlankTab>>]
    /\ request' = Dispatched(request, w, Arguments(w))
    /\ UNCHANGED <<used, menu, shown, queueVars, dock>>

\* The user is told, in another window if there is one.
CreationFails(w) ==
    /\ w \in starting
    /\ starting' = starting \ {w}
    /\ request' = [r \in Request |->
          IF r \in Arguments(w) THEN Done(request[r]) ELSE request[r]]
    /\ UNCHANGED <<live, used, front, registered, lastFocused, menu, tabs, shown, queueVars,
                   dock>>

Fresh(w) == w \in Windows \ used /\ \A v \in Windows \ used : w <= v

AskForWindow(w) ==
    /\ live # {} /\ Fresh(w)
    /\ used' = used \cup {w} /\ starting' = starting \cup {w}
    /\ UNCHANGED <<live, front, registered, lastFocused, menu, tabs, shown, request, queueVars,
                   dock>>

\* Another window, or another program, comes to the front.
SwitchTo(w) ==
    /\ w \in live \cup {NoWindow} /\ w # front
    /\ front' = w
    /\ UNCHANGED <<live, starting, used, registered, lastFocused, menu, tabs, shown, request,
                   queueVars, dock>>

\* The window goes, and with it the reads it waits for and, if nothing is left,
\* the process.
Leaves(w) ==
    /\ live' = live \ {w}
    /\ front' \in IF front = w THEN live' \cup {NoWindow} ELSE {front}
    /\ tabs' = [tabs EXCEPT ![w] = <<>>] /\ shown' = [shown EXCEPT ![w] = BlankTab]
    /\ UNCHANGED <<starting, used, request, queueVars, dock>>

\* unregister: the focus passes to any window that is registered.
CloseWindow(w) ==
    /\ w \in live
    /\ Leaves(w)
    /\ registered' = registered \ {w}
    /\ menu' = [menu EXCEPT ![w] = {}]
    /\ lastFocused' \in IF lastFocused # w THEN {lastFocused}
                        ELSE IF registered' = {} THEN {NoWindow} ELSE registered'

\* handle_pending_tab_removal: the last tab, here a blank one, was sent to
\* another window.  The window is removed and stays registered.
WindowSentAway(w) ==
    /\ w \in live /\ live # {w}
    /\ tabs[w] = <<BlankTab>>
    /\ Leaves(w)
    /\ UNCHANGED <<registered, lastFocused, menu>>
-----------------------------------------------------------------------------
(* Requests *)

\* The process ends with its last window.
Running == live \cup starting # {}

\* try_forward_to_existing_instance, try_send_command_to_existing_instance
Forward(r, what) ==
    /\ Running /\ NextRequest(r)
    /\ request' = [request EXCEPT ![r] = Asked(what, "sent", NoWindow)]
    /\ UNCHANGED <<windowVars, menu, tabs, shown, queueVars, dock>>

Queued(r) ==
    IF request[r].what \in Files
    THEN pendingFiles' = Append(pendingFiles, r) /\ UNCHANGED commands
    ELSE commands' = Append(commands, r) /\ UNCHANGED pendingFiles

\* The listener's thread queues a line, or drops it if the file is gone.
ListenerReceives(r) ==
    /\ request[r].step = "sent"
    /\ \/ /\ request' = [request EXCEPT ![r].step = "queued"]
          /\ Queued(r)
       \/ /\ request[r].what \in Files
          /\ request' = [request EXCEPT ![r] = Done(@)]
          /\ UNCHANGED queueVars
    /\ UNCHANGED <<windowVars, menu, tabs, shown, dock>>

\* on_open_urls, for a URL that resolves to a file; it may come before the
\* first window.
OpenEvent(r, p) ==
    /\ Running /\ NextRequest(r)
    /\ request' = [request EXCEPT ![r] = Asked(p, "queued", NoWindow)]
    /\ pendingFiles' = Append(pendingFiles, r)
    /\ UNCHANGED <<windowVars, menu, tabs, shown, commands, dock>>

Focuses(w, what) ==
    shown' = IF what \in WhatsOf(w) THEN [shown EXCEPT ![w] = TabOf(w, what)] ELSE shown

\* A file dropped on the window or chosen among the recent ones.
OpenHere(w, r, p) ==
    /\ w \in live /\ NextRequest(r)
    /\ request' = Dispatched([request EXCEPT ![r] = Asked(p, "queued", w)], w, {r})
    /\ Focuses(w, p)
    /\ UNCHANGED <<windowVars, menu, tabs, queueVars, dock>>

\* open_file: a file picked in the system's dialog is looked for in this window
\* only.
OpenPicked(w, r, p) ==
    /\ w \in live /\ NextRequest(r)
    /\ request' = [request EXCEPT ![r] =
          IF p \in WhatsOf(w) THEN Asked(p, "ended", NoWindow)
          ELSE [Asked(p, "reading", w) EXCEPT !.rivals = Rivals(w, p)]]
    /\ Focuses(w, p)
    /\ UNCHANGED <<windowVars, menu, tabs, queueVars, dock>>

\* open_file_from_path: a blank last tab gives way to the one of the file.
ReadSucceeds(r) ==
    LET w == request[r].window
        kept == IF tabs[w] # <<>> /\ Last(tabs[w]) = BlankTab THEN Front(tabs[w]) ELSE tabs[w]
    IN /\ Reading(r) /\ w \in live
       /\ tabs' = [tabs EXCEPT ![w] = Append(kept, r)]
       /\ shown' = [shown EXCEPT ![w] = r]
       /\ request' = [request EXCEPT ![r] = Done(@)]
       /\ UNCHANGED <<windowVars, menu, queueVars, dock>>

\* A file that cannot be read, or is binary; a window that is gone.
ReadFails(r) ==
    /\ Reading(r)
    /\ request' = [request EXCEPT ![r] = Done(@)]
    /\ UNCHANGED <<windowVars, menu, tabs, shown, queueVars, dock>>

TabCloses(w, i) ==
    /\ w \in live /\ i \in DOMAIN tabs[w]
    /\ tabs' = [tabs EXCEPT ![w] = RemoveAt(@, i)]
    /\ shown' = [shown EXCEPT ![w] = IF tabs'[w] = <<>> \/ Contains(tabs'[w], @) THEN @
                                     ELSE tabs'[w][IF i <= Len(tabs'[w]) THEN i ELSE i - 1]]
    /\ UNCHANGED <<windowVars, menu, request, queueVars, dock>>
-----------------------------------------------------------------------------
(* Rendering *)

\* Mutant: the focus is recorded only when no window has it.
FocusedFirst(w) == IF lastFocused = NoWindow THEN w ELSE lastFocused

\* process_window_state_updates
Focused(w) == IF front = w /\ w \in registered THEN w ELSE lastFocused

\* What a rendering takes from the queues: everything, or nothing.
Takes(w) == Focused(w) \in {NoWindow, w}

\* process_pending_files_from_macos
FilesTaken(w) ==
    LET here == SelectSeq(pendingFiles, LAMBDA r : request[r].what \in WhatsOf(w))
    IN /\ request' = [r \in Request |->
              IF Contains(commands, r) THEN Done(request[r])
              ELSE Dispatched(request, w, ToSet(pendingFiles))[r]]
       /\ pendingFiles' = <<>>
       /\ shown' = IF ToSet(commands) \cap {r \in Request : request[r].what = NewTab} # {}
                   THEN [shown EXCEPT ![w] = BlankTab]
                   ELSE IF here = <<>> THEN shown
                   ELSE [shown EXCEPT ![w] = TabOf(w, request[Last(here)].what)]

\* process_pending_ipc_commands
CommandsRun(w) ==
    LET asked(what) ==
            Cardinality({i \in DOMAIN commands : request[commands[i]].what = what})
        blanks == [i \in 1 .. asked(NewTab) |-> BlankTab]
        fresh == {v \in Windows \ used :
                     Cardinality({u \in Windows \ used : u < v}) < asked(NewWindow)}
    \* Bound: windows beyond those of the model are not created.
    IN /\ tabs' = [tabs EXCEPT ![w] = @ \o blanks]
       /\ starting' = starting \cup fresh
       /\ used' = used \cup fresh
       /\ commands' = <<>>

Render(w) ==
    /\ w \in live
    /\ lastFocused' = Focused(w)
    /\ menu' = IF w \in registered THEN [menu EXCEPT ![w] = WhatsOf(w)] ELSE menu
    /\ IF Takes(w)
       THEN FilesTaken(w) /\ CommandsRun(w)
       ELSE UNCHANGED <<request, queueVars, tabs, shown, starting, used>>
    /\ UNCHANGED <<live, front, registered, dock>>
-----------------------------------------------------------------------------
(* The tabs listed in the dock's menu or the jump list *)

\* rebuild_if_inputs_changed: what the windows published, one that was sent away
\* included.
Listed == UNION {menu[w] : w \in Windows}

\* handle_dock_activate_tab, by path or by title, in the window in front: its
\* own tab comes first, whichever window the entry was listed for.
ChooseEntry(what) ==
    /\ front # NoWindow /\ what \in Listed
    /\ IF what \in WhatsOf(front)
       THEN Focuses(front, what) /\ UNCHANGED dock
       ELSE /\ \E v \in registered \cap live :
                  /\ v # front /\ what \in WhatsOf(v)
                  /\ dock' = [what |-> what, window |-> v, from |-> front]
            /\ UNCHANGED shown
    /\ UNCHANGED <<windowVars, menu, tabs, request, queueVars>>

\* The other window is brought to the front, with the tab if it still has it,
\* unless either window is gone.
EntryArrives ==
    /\ dock # NoEntry
    /\ dock' = NoEntry
    /\ IF {dock.window, dock.from} \subseteq live
       THEN /\ front' = dock.window
            /\ Focuses(dock.window, dock.what)
       ELSE UNCHANGED <<front, shown>>
    /\ UNCHANGED <<live, starting, used, registered, lastFocused, menu, tabs, request, queueVars>>
-----------------------------------------------------------------------------
CreationEnds(w) == CreateWindow(w) \/ CreationFails(w)
ReadEnds(r) == ReadSucceeds(r) \/ ReadFails(r)

WindowStep(w) ==
    \/ CreationEnds(w) \/ AskForWindow(w)
    \/ SwitchTo(w) \/ CloseWindow(w) \/ WindowSentAway(w)
    \/ \E i \in 1 .. MaxRequests + 1 : TabCloses(w, i)
    \/ Render(w)

RequestStep(r) ==
    \/ \E what \in Files \cup {NewTab, NewWindow} : Forward(r, what)
    \/ ListenerReceives(r)
    \/ \E p \in Files : OpenEvent(r, p)
    \/ \E w \in Windows, p \in Files : OpenHere(w, r, p) \/ OpenPicked(w, r, p)
    \/ ReadEnds(r)

OpenNext ==
    \/ \E w \in Windows : WindowStep(w)
    \/ SwitchTo(NoWindow)
    \/ \E r \in Request : RequestStep(r)
    \/ \E what \in Files \cup {Untitled} : ChooseEntry(what)
    \/ EntryArrives

FrontRenders == front # NoWindow /\ Render(front)

\* The window in front goes on rendering (the cursor of its editor blinks); the
\* listener reads its sockets; reads and creations end.
OpenFairness ==
    /\ WF_requestVars(FrontRenders)
    /\ \A r \in Request : WF_requestVars(ListenerReceives(r))
    /\ \A r \in Request : WF_requestVars(ReadEnds(r))
    /\ \A w \in Windows : WF_requestVars(CreationEnds(w))

OpenSpec == OpenInit /\ [][OpenNext]_requestVars /\ OpenFairness
-----------------------------------------------------------------------------
(* What must hold. *)

OpenTypeOK ==
    /\ live \subseteq used /\ starting \subseteq used /\ live \cap starting = {}
    /\ front \in live \cup {NoWindow}
    /\ live \subseteq registered /\ lastFocused \in registered \cup {NoWindow}
    /\ \A w \in Windows : tabs[w] = <<>> \/ Contains(tabs[w], shown[w])
    /\ \A i \in DOMAIN pendingFiles : request[pendingFiles[i]].step = "queued"
    /\ \A i \in DOMAIN commands : request[commands[i]].step = "queued"

\* What is asked of the process is dealt with while one of its windows is used:
\* neither a window that closed nor one left in the background keeps the queues.
RequestsEnd ==
    []<>(front = NoWindow \/ \A r \in Request : request[r].step \in {"none", "ended"})

\* A window shows a file in two tabs only if both were asked for before either
\* was read.
TwiceOnlyByOverlap ==
    \A w \in Windows : \A i, j \in DOMAIN tabs[w] :
        LET a == tabs[w][i]
            b == tabs[w][j]
        IN i # j /\ a # BlankTab /\ b # BlankTab /\ request[a].what = request[b].what
           => a \in request[b].rivals \/ b \in request[a].rivals
=============================================================================
