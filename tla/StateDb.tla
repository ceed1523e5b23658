------------------------------ MODULE StateDb ------------------------------
(***************************************************************************)
(* The session database shared by the processes of one user: launching     *)
(* (load, then claim the persisted windows), saving, closing windows,      *)
(* quitting and being killed (src/fulgur/state/db, state/persistence/      *)
(* windows.rs, window_manager/lifecycle.rs, main.rs).                      *)
(*                                                                         *)
(* What a window shows is one of Layouts; any sequence of tab operations   *)
(* is abstracted to a change of layout.  Each save is one SQLite           *)
(* transaction: it commits or it leaves the rows and the handle alone.     *)
(***************************************************************************)
EXTENDS StateRows

CONSTANTS
    Processes,  \* the processes that may run at the same time
    Layouts,    \* [tabs, active]: what a window may show
    MaxWindows  \* bound: the window identities allocated in a behaviour

(* Identities are numbers, and a window has no two tabs with the same one. *)
IsLayout(l) ==
    /\ l = [tabs |-> l.tabs, active |-> l.active]
    /\ l.tabs \in Seq(Range(l.tabs)) /\ l.active \in 0..Len(l.tabs)
    /\ \A t \in Range(l.tabs) :
          t.id \in Nat /\ t = [id |-> t.id, meta |-> t.meta, content |-> t.content]
    /\ \A i, j \in DOMAIN l.tabs : l.tabs[i].id = l.tabs[j].id => i = j

ASSUME LayoutsAssumption ==
    MaxWindows \in Nat /\ \A l \in Layouts : IsLayout(l)

WindowIds == 1..MaxWindows

VARIABLES
    db,        \* the rows of state.db
    phase,     \* per process: down, loading (between load and claim), up
    session,   \* per process: the windows it has open and what they show
    owned,     \* per process: StateDb.owned_windows
    failed,    \* per process: windows whose save_failed_once is set
    nextId,    \* the next identity allocate_id hands out
    known      \* history: windows it restored or opened in its last run

dbVars == <<db, phase, session, owned, failed, nextId, known>>

NoWindows == [w \in {} |-> w]

(* A new window shows one empty untitled tab, which is not persisted.      *)
NewLayout == [tabs |-> <<>>, active |-> NoActive]

DbInit ==
    /\ db = EmptyDb
    /\ phase = [p \in Processes |-> "down"]
    /\ session = [p \in Processes |-> NoWindows]
    /\ owned = [p \in Processes |-> {}]
    /\ failed = [p \in Processes |-> {}]
    /\ nextId = 1
    /\ known = [p \in Processes |-> {}]

Open(p) == DOMAIN session[p]

(* build_windows_state: the windows come out of a hash map, in any order.  *)
Snapshots(p) ==
    {[i \in DOMAIN order |->
        [id |-> order[i], tabs |-> session[p][order[i]].tabs,
         active |-> session[p][order[i]].active]] :
     order \in SetToSeqs(Open(p))}

With(f, w, x) == [v \in DOMAIN f \cup {w} |-> IF v = w THEN x ELSE f[v]]
Without(f, w) == [v \in DOMAIN f \ {w} |-> f[v]]
Layout(window) == [tabs |-> window.tabs, active |-> window.active]

-----------------------------------------------------------------------------
(* load_with_db: a fresh handle reads the persisted session.               *)
LoadSession(p) ==
    /\ phase[p] = "down"
    /\ phase' = [phase EXCEPT ![p] = "loading"]
    /\ session' = [session EXCEPT ![p] =
                     [w \in WindowRows(db) |-> Layout(LoadWindow(db, w))]]
    /\ owned' = [owned EXCEPT ![p] = {}]
    /\ failed' = [failed EXCEPT ![p] = {}]
    /\ known' = [known EXCEPT ![p] = WindowRows(db)]
    /\ UNCHANGED <<db, nextId>>

(* claim_persisted_windows, then the windows are opened; an empty session  *)
(* opens one new window.                                                   *)
ClaimPersistedWindows(p) ==
    /\ phase[p] = "loading"
    /\ phase' = [phase EXCEPT ![p] = "up"]
    /\ owned' = [owned EXCEPT ![p] = WindowRows(db)]
    /\ \/ /\ Open(p) # {}
          /\ UNCHANGED <<session, nextId, known>>
       \/ /\ Open(p) = {}
          /\ nextId \in WindowIds
          /\ nextId' = nextId + 1
          /\ known' = [known EXCEPT ![p] = @ \cup {nextId}]
          /\ session' = [session EXCEPT ![p] = With(@, nextId, NewLayout)]
    /\ UNCHANGED <<db, failed>>

(* open_new_window: a window with a fresh identity.                        *)
OpenWindow(p) ==
    /\ phase[p] = "up"
    /\ nextId \in WindowIds
    /\ nextId' = nextId + 1
    /\ known' = [known EXCEPT ![p] = @ \cup {nextId}]
    /\ session' = [session EXCEPT ![p] = With(@, nextId, NewLayout)]
    /\ UNCHANGED <<db, phase, owned, failed>>

(* The user edits, reorders, opens or closes tabs of a window.             *)
ChangeTabs(p) ==
    /\ phase[p] = "up"
    /\ \E w \in Open(p), l \in Layouts :
          session' = [session EXCEPT ![p][w] = l]
    /\ UNCHANGED <<db, phase, owned, failed, nextId, known>>

(* StateDb::apply commits: rows and owned_windows change together.         *)
ApplyCommits(p) ==
    \E snapshot \in Snapshots(p) :
        /\ db' = Apply(db, snapshot, owned[p])
        /\ owned' = [owned EXCEPT ![p] = PresentWindows(snapshot)]

(* Mutant: owned_windows is replaced before the commit is known.           *)
ApplyFailsForgetting(p) ==
    /\ owned' = [owned EXCEPT ![p] = Open(p)]
    /\ UNCHANGED db

(* StateDb::apply fails (lock timeout, full disk): the transaction rolls   *)
(* back and the handle still owns what it owned.                           *)
ApplyFails(p) == UNCHANGED <<db, owned>>

(* save_state, save_state_async.                                           *)
Save(p) ==
    /\ phase[p] = "up"
    /\ UNCHANGED <<phase, session, failed, nextId, known>>
    /\ ApplyCommits(p)

SaveFails(p) ==
    /\ phase[p] = "up"
    /\ ApplyFails(p)
    /\ UNCHANGED <<phase, session, failed, nextId, known>>

(* The window is unregistered; with the last one the process ends.         *)
Unregister(p, w) ==
    IF Open(p) = {w}
    THEN /\ phase' = [phase EXCEPT ![p] = "down"]
         /\ session' = [session EXCEPT ![p] = NoWindows]
    ELSE /\ phase' = phase
         /\ session' = [session EXCEPT ![p] = Without(@, w)]

(* on_window_close_requested: save while the window is still registered,   *)
(* then unregister it.  Closing the last window quits, which keeps it in   *)
(* the saved session.                                                      *)
CloseWindow(p, w) ==
    /\ phase[p] = "up"
    /\ w \in Open(p)
    /\ ApplyCommits(p)
    /\ Unregister(p, w)
    /\ UNCHANGED <<failed, nextId, known>>

(* on_window_close_requested when the save fails: the first failure keeps  *)
(* the window, a later one lets it close.                                  *)
CloseFails(p, w) ==
    /\ phase[p] = "up"
    /\ w \in Open(p)
    /\ ApplyFails(p)
    /\ \/ /\ w \notin failed[p]
          /\ failed' = [failed EXCEPT ![p] = @ \cup {w}]
          /\ UNCHANGED <<phase, session>>
       \/ /\ w \in failed[p]
          /\ Unregister(p, w)
          /\ UNCHANGED failed
    /\ UNCHANGED <<nextId, known>>

(* The process is killed, in the middle of a transaction or not.           *)
Kill(p) ==
    /\ phase[p] # "down"
    /\ phase' = [phase EXCEPT ![p] = "down"]
    /\ session' = [session EXCEPT ![p] = NoWindows]
    /\ UNCHANGED <<db, owned, failed, nextId, known>>

DbNext ==
    \E p \in Processes :
        \/ LoadSession(p) \/ ClaimPersistedWindows(p)
        \/ OpenWindow(p) \/ ChangeTabs(p)
        \/ Save(p) \/ SaveFails(p)
        \/ \E w \in WindowIds : CloseWindow(p, w) \/ CloseFails(p, w)
        \/ Kill(p)

DbSpec == DbInit /\ [][DbNext]_dbVars

-----------------------------------------------------------------------------
DbTypeOK ==
    /\ WindowRows(db) \subseteq WindowIds
    /\ phase \in [Processes -> {"down", "loading", "up"}]
    /\ \A p \in Processes :
          /\ Open(p) \subseteq WindowIds
          /\ \A w \in Open(p) : session[p][w] \in Layouts \cup {NewLayout}
    /\ owned \in [Processes -> SUBSET WindowIds]
    /\ failed \in [Processes -> SUBSET WindowIds]
    /\ nextId \in 1..(MaxWindows + 1)
    /\ known \in [Processes -> SUBSET WindowIds]

(* What a save wrote is what the next launch restores: the windows, their  *)
(* tabs in order with titles and contents, and the active tab, whatever    *)
(* rows an earlier session left to be reconciled.                          *)
SavedIsRestored ==
    [][\A p \in Processes : Save(p) =>
         \A w \in Open(p) : Layout(LoadWindow(db', w)) = session[p][w]]_dbVars

(* A window this process restored or opened and closed since does not      *)
(* survive its next successful save, even if saves failed in between,      *)
(* unless another process had it open too.                                 *)
SaveDeletesClosed ==
    [][\A p \in Processes :
         \A w \in WindowRows(db') \cap (known[p] \ Open(p)) :
            Save(p) => \E q \in Processes \ {p} : w \in known[q]]_dbVars
=============================================================================
