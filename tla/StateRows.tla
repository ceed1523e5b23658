----------------------------- MODULE StateRows -----------------------------
(***************************************************************************)
(* The rows of the session-state database and the two algorithms over      *)
(* them: reconciling the rows with a snapshot (src/fulgur/state/db/        *)
(* write.rs) and reading a snapshot back (src/fulgur/state/db/read.rs).    *)
(*                                                                         *)
(* A snapshot is a sequence of windows [id, tabs, active]; tabs is a       *)
(* sequence of [id, meta, content], active an index into it or NoActive.   *)
(* "meta" stands for every column of a tab but its position and content.   *)
(* Two contents with one fingerprint are taken to be the same content.     *)
(***************************************************************************)
EXTENDS Integers, Sequences, FiniteSetsExt, SequencesExt

NoActive == 0
NoTab == -1

(* A migrated database with no rows.                                       *)
EmptyDb == [windows |-> <<>>, tabs |-> <<>>]

WindowRows(db) == DOMAIN db.windows
TabRows(db, w) == {k \in DOMAIN db.tabs : k[1] = w}

-----------------------------------------------------------------------------
(* apply_window: the row a window asks for.  The active tab is stored by   *)
(* identity, so that it survives a reorder.                                *)
StoredWindow(window, position) ==
    [position |-> position,
     active |-> IF window.active \in DOMAIN window.tabs
                THEN window.tabs[window.active].id ELSE NoTab]

StoredTab(tab, position) ==
    [position |-> position, meta |-> tab.meta, content |-> tab.content]

(* Mutant: a tab whose content is unchanged keeps its whole row.           *)
TabRowContentOnly(stored, tab, position) ==
    IF stored.content # tab.content THEN StoredTab(tab, position) ELSE stored

(* apply_tabs on a row that exists: a changed fingerprint rewrites the     *)
(* row, changed metadata everything but the content.                       *)
TabRow(stored, tab, position) ==
    IF stored.content # tab.content THEN StoredTab(tab, position)
    ELSE [stored EXCEPT !.position = position, !.meta = tab.meta]

(* apply_tabs: match the window's rows to its tabs by identity, insert or  *)
(* update, and delete the rows of tabs that are gone.                      *)
ApplyTabs(tabs, window) ==
    LET index(id) == CHOOSE i \in DOMAIN window.tabs : window.tabs[i].id = id
        keys == {<<window.id, window.tabs[i].id>> : i \in DOMAIN window.tabs}
        foreign == {k \in DOMAIN tabs : k[1] # window.id}
    IN  [k \in foreign \cup keys |->
            IF k \in foreign THEN tabs[k]
            ELSE IF k \in DOMAIN tabs
                 THEN TabRow(tabs[k], window.tabs[index(k[2])], index(k[2]))
                 ELSE StoredTab(window.tabs[index(k[2])], index(k[2]))]

PresentWindows(snapshot) == {snapshot[i].id : i \in DOMAIN snapshot}

ApplyWindow(db, window, position) ==
    [windows |-> [w \in WindowRows(db) \cup {window.id} |->
                    IF w = window.id THEN StoredWindow(window, position)
                    ELSE db.windows[w]],
     tabs |-> ApplyTabs(db.tabs, window)]

(* DELETE FROM windows, cascading to their tabs.                           *)
DeleteWindows(db, closed) ==
    [windows |-> [w \in WindowRows(db) \ closed |-> db.windows[w]],
     tabs |-> [k \in {k \in DOMAIN db.tabs : k[1] \notin closed} |->
                db.tabs[k]]]

(* StateDb::apply: write every window of the snapshot, then delete the     *)
(* windows this handle owned that the snapshot no longer has.              *)
Apply(db, snapshot, owned) ==
    LET written[n \in 0..Len(snapshot)] ==
          IF n = 0 THEN db ELSE ApplyWindow(written[n - 1], snapshot[n], n)
    IN  DeleteWindows(written[Len(snapshot)], owned \ PresentWindows(snapshot))

-----------------------------------------------------------------------------
(* load_tabs: the rows of one window, ORDER BY position, id.               *)
TabBefore(db, j, k) ==
    \/ db.tabs[j].position < db.tabs[k].position
    \/ db.tabs[j].position = db.tabs[k].position /\ j[2] < k[2]

LoadTabs(db, w) ==
    LET keys == CHOOSE s \in SetToSeqs(TabRows(db, w)) :
                  \A i, j \in DOMAIN s : i < j => TabBefore(db, s[i], s[j])
    IN  [i \in DOMAIN keys |-> [id |-> keys[i][2],
                                meta |-> db.tabs[keys[i]].meta,
                                content |-> db.tabs[keys[i]].content]]

(* StateDb::load: one window; the active tab is found by identity.         *)
LoadWindow(db, w) ==
    LET tabs == LoadTabs(db, w)
        hits == {i \in DOMAIN tabs : tabs[i].id = db.windows[w].active}
    IN  [id |-> w, tabs |-> tabs,
         active |-> IF hits = {} THEN NoActive ELSE Min(hits)]

(* StateDb::load: every window, ORDER BY position, id.                     *)
WindowBefore(db, v, w) ==
    \/ db.windows[v].position < db.windows[w].position
    \/ db.windows[v].position = db.windows[w].position /\ v < w

Load(db) ==
    LET order == CHOOSE s \in SetToSeqs(WindowRows(db)) :
                   \A i, j \in DOMAIN s : i < j => WindowBefore(db, s[i], s[j])
    IN  [i \in DOMAIN order |-> LoadWindow(db, order[i])]
=============================================================================
