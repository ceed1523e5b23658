-------------------------- MODULE SessionRestore --------------------------
(***************************************************************************)
(* One window across restarts: what a save keeps of its tabs (src/fulgur/  *)
(* state/operations/save.rs), what the database gives back (StateRows) and *)
(* how each tab is restored (load.rs, decision.rs).                        *)
(*                                                                         *)
(* The state writer is its own promise, checked by StateWriter.  While the *)
(* program runs it never reads the database, so an asynchronous save is    *)
(* written at once or not at all: replaced in the mailbox by a later one,  *)
(* or lost in it when the program is killed.                               *)
(*                                                                         *)
(* One local path and one remote file are enough to meet every restore     *)
(* decision.  The file changes only while the program is down; changes     *)
(* under a running program are the file watcher's.                         *)
(***************************************************************************)
EXTENDS StateRows

CONSTANTS
    Texts,       \* what a buffer or a file may hold
    EmptyText,   \* the empty text
    LargeTexts,  \* the texts above LARGE_FILE_THRESHOLD_BYTES
    ServerText,  \* what the remote file holds
    MaxTabIds,   \* bound: tab identities used in a behaviour
    MaxTabs,     \* bound: tabs open at once
    MaxWrites    \* bound: writes to the file

NoText == "no content"     \* TabState.content = None

ASSUME TextsAssumption ==
    /\ EmptyText \in Texts /\ ServerText \in Texts
    /\ NoText \notin Texts
    /\ LargeTexts \subseteq Texts \ {EmptyText, ServerText}
    /\ {MaxTabIds, MaxWrites} \subseteq Nat \ {0} /\ MaxTabs \in Nat

NoTime == 0                \* TabState.last_saved = None
PersistentWindowId == 1    \* persistent_window_id

VARIABLES
    program,    \* "up" or "down"
    tabs,       \* Fulgur.tabs: editor tabs and the settings tab
    active,     \* active_tab_id, or NoTab
    nextTabId,  \* next_tab_id
    remote,     \* pending_remote_restore
    file,       \* the local file: exists, readable, text, mtime
    persist,    \* the setting persist_unsaved_buffers
    rows,       \* the rows of state.db
    saved       \* history: the session the rows of state.db describe

restoreVars ==
    <<program, tabs, active, nextTabId, remote, file, persist, rows, saved>>

Large(text) == text \in LargeTexts

(* content_differs_from_original: by fingerprint, or the sticky flag of a  *)
(* large file.                                                             *)
Differs(t) == t.text # t.base \/ (t.large /\ t.modified)

Ids == {tabs[i].id : i \in DOMAIN tabs}

(* A loop over s that keeps the elements in S, in their order.             *)
Only(s, S) ==
    LET kept[n \in 0..Len(s)] ==
          IF n = 0 THEN <<>>
          ELSE IF s[n] \in S THEN Append(kept[n - 1], s[n]) ELSE kept[n - 1]
    IN  kept[Len(s)]

Untitled(id, named) ==
    [id |-> id, kind |-> "untitled", named |-> named, text |-> EmptyText,
     base |-> EmptyText, modified |-> FALSE, large |-> FALSE]

(* from_file, from_remote_loaded: the text given is the saved baseline,    *)
(* whatever is_modified says.                                              *)
FromFile(id, text, isModified) ==
    [id |-> id, kind |-> "local", named |-> TRUE, text |-> text,
     base |-> text, modified |-> isModified, large |-> Large(text)]
FromRemote(id, text, isModified) ==
    [FromFile(id, text, isModified) EXCEPT !.kind = "remote"]
SettingsTab(id) == [Untitled(id, TRUE) EXCEPT !.kind = "settings"]
IsEditor(t) == t.kind # "settings"

-----------------------------------------------------------------------------
(* Building a snapshot.                                                    *)

(* content_too_large_to_persist.                                           *)
TooLarge(t) == t.large \/ Large(t.text)

(* build_tab_states: content is kept for tabs that differ from their       *)
(* baseline; untitled tabs that cannot or need not be kept are left out.   *)
Persisted(t) ==
    /\ IsEditor(t)
    /\ t.kind = "untitled" =>
          /\ persist
          /\ ~TooLarge(t)
          /\ t.text # EmptyText \/ t.named

KeepsText(t) ==
    \/ t.kind = "untitled"
    \/ persist /\ Differs(t) /\ ~TooLarge(t)

TabState(t) ==
    [id |-> t.id,
     meta |-> [kind |-> t.kind, named |-> t.named,
               lastSaved |-> IF t.kind = "local" /\ KeepsText(t) /\ file.exists
                             THEN file.mtime ELSE NoTime],
     content |-> IF KeepsText(t) THEN t.text ELSE NoText]

(* active_editor_index_for_state: the index among all the editor tabs.     *)
ActiveEditorIndex(ts, id) ==
    LET editors == Only(ts, {t \in Range(ts) : IsEditor(t)})
        hits == {i \in DOMAIN editors : editors[i].id = id}
    IN  IF hits = {} THEN NoActive ELSE Min(hits)

(* build_window_state of the tabs ts, with what it describes.              *)
Snapshot(ts, id) ==
    LET kept == Only(ts, {t \in Range(ts) : Persisted(t)})
    IN  [window |-> [id |-> PersistentWindowId,
                     tabs |-> [i \in DOMAIN kept |-> TabState(kept[i])],
                     active |-> ActiveEditorIndex(ts, id)],
         session |-> [unsaved |-> {t \in Range(ts) : t.modified \/ Differs(t)},
                      active |-> id, mtime |-> file.mtime]]

(* The writer applies a snapshot.                                          *)
Write(snapshot) ==
    /\ rows' = Apply(rows, <<snapshot.window>>, {PersistentWindowId})
    /\ saved' = snapshot.session

(* save_state_async at the end of a handler that leaves tabs ts.           *)
SaveStateAsync(ts, id) ==
    \/ Write(Snapshot(ts, id))
    \/ UNCHANGED <<rows, saved>>

-----------------------------------------------------------------------------
(* Restoring a tab.                                                        *)

(* is_file_newer, on the mtime recorded when the snapshot was built.       *)
FileNewer(state) ==
    state.meta.lastSaved # NoTime /\ file.mtime > state.meta.lastSaved

(* Mutant: a newer file is loaded without asking whether it can be read.   *)
RestoreStrategyUnreadable(state) ==
    CASE state.meta.kind = "remote" -> "RestoreRemote"
      [] state.meta.kind = "local" /\ state.content # NoText ->
           IF ~file.exists THEN "UseSavedContentNoPath"
           ELSE IF FileNewer(state) THEN "LoadFromFile"
           ELSE "UseSavedContentWithPath"
      [] state.meta.kind = "local" /\ state.content = NoText ->
           IF file.exists /\ file.readable THEN "LoadFromFile" ELSE "Skip"
      [] state.meta.kind = "untitled" ->
           IF state.content # NoText THEN "UseSavedContentNoPath" ELSE "Skip"

(* determine_tab_restore_strategy.                                         *)
RestoreStrategy(state) ==
    CASE state.meta.kind = "remote" -> "RestoreRemote"
      [] state.meta.kind = "local" /\ state.content # NoText ->
           IF ~file.exists THEN "UseSavedContentNoPath"
           ELSE IF FileNewer(state) /\ file.readable THEN "LoadFromFile"
           ELSE "UseSavedContentWithPath"
      [] state.meta.kind = "local" /\ state.content = NoText ->
           IF file.exists /\ file.readable THEN "LoadFromFile" ELSE "Skip"
      [] state.meta.kind = "untitled" ->
           IF state.content # NoText THEN "UseSavedContentNoPath" ELSE "Skip"

(* Mutant: a tab restored with its unsaved text is shown as saved.         *)
SavedWithPathClean(state) == FromFile(state.id, state.content, FALSE)

(* The UseSavedContentWithPath arm of restore_tab_from_state.              *)
SavedWithPath(state) == FromFile(state.id, state.content, TRUE)

(* restore_tab_from_state, for the states that are not skipped.            *)
RestoredTab(state) ==
    LET strategy == RestoreStrategy(state)
    IN  CASE strategy = "RestoreRemote" ->
               IF state.content = NoText
               THEN FromRemote(state.id, EmptyText, FALSE)
               ELSE FromRemote(state.id, state.content, TRUE)
          [] strategy = "LoadFromFile" -> FromFile(state.id, file.text, FALSE)
          [] strategy = "UseSavedContentWithPath" -> SavedWithPath(state)
          [] strategy = "UseSavedContentNoPath" ->
               [Untitled(state.id, state.meta.named) EXCEPT
                  !.text = state.content, !.modified = TRUE]

NotSkipped(state) == RestoreStrategy(state) # "Skip"

(* load_state: restore the tabs, then find the active one by its index.    *)
RestoredTabs(window) ==
    LET states == Only(window.tabs,
                       {state \in Range(window.tabs) : NotSkipped(state)})
    IN  [i \in DOMAIN states |-> RestoredTab(states[i])]

RestoredActive(window) ==
    LET ts == RestoredTabs(window)
    IN  IF window.active \in DOMAIN ts THEN ts[window.active].id
        ELSE ts[1].id

-----------------------------------------------------------------------------
RestoreInit ==
    /\ program = "up"
    /\ tabs = <<Untitled(0, FALSE)>>
    /\ active = 0
    /\ nextTabId = 1
    /\ remote = {}
    /\ file = [exists |-> TRUE, readable |-> TRUE, text |-> EmptyText,
               mtime |-> 1]
    /\ persist \in BOOLEAN
    /\ rows = EmptyDb
    /\ saved = [unsaved |-> {}, active |-> NoTab, mtime |-> 1]

(* allocate_tab_id.                                                        *)
AllocateTabId ==
    /\ nextTabId < MaxTabIds
    /\ nextTabId' = nextTabId + 1

(* new_tab: its title starts with "Untitled".                              *)
NewTab ==
    /\ program = "up"
    /\ Len(tabs) < MaxTabs
    /\ AllocateTabId
    /\ tabs' = Append(tabs, Untitled(nextTabId, FALSE))
    /\ active' = nextTabId
    /\ SaveStateAsync(tabs', active')
    /\ UNCHANGED <<program, remote, file, persist>>

(* rename_tab: only untitled tabs can be renamed.                          *)
RenameTab ==
    /\ program = "up"
    /\ \E i \in DOMAIN tabs :
          /\ tabs[i].kind = "untitled" /\ ~tabs[i].named
          /\ tabs' = [tabs EXCEPT ![i].named = TRUE]
    /\ SaveStateAsync(tabs', active)
    /\ UNCHANGED <<program, active, nextTabId, remote, file, persist>>

(* place_editor_tab_reusing_scratch: a trailing blank untitled tab makes   *)
(* room for the new one.                                                   *)
Placed(t) ==
    IF tabs # <<>> /\ Last(tabs).kind = "untitled" /\ Last(tabs).text = EmptyText
    THEN Append(Front(tabs), t)
    ELSE Append(tabs, t)

(* Opening the file, or the remote file, in a tab of its own.              *)
OpenFile(t) ==
    /\ program = "up"
    /\ Len(tabs) < MaxTabs
    /\ \A i \in DOMAIN tabs : tabs[i].kind # t.kind
    /\ t.kind = "local" => file.exists /\ file.readable
    /\ AllocateTabId
    /\ tabs' = Placed(t)
    /\ active' = nextTabId
    /\ SaveStateAsync(tabs', active')
    /\ UNCHANGED <<program, remote, file, persist>>

(* The content subscription: check_modified, sticky for a large file.      *)
Edit ==
    /\ program = "up"
    /\ \E i \in DOMAIN tabs, text \in Texts :
          /\ IsEditor(tabs[i]) /\ text # tabs[i].text
          /\ tabs' = [tabs EXCEPT ![i].text = text,
                                  ![i].modified = \/ tabs[i].large
                                                  \/ text # tabs[i].base]
    /\ UNCHANGED <<program, active, nextTabId, remote, file, persist, rows, saved>>

(* Saving a local tab writes the file and makes its text the baseline.     *)
SaveFile ==
    /\ program = "up"
    /\ file.mtime < MaxWrites
    /\ \E i \in DOMAIN tabs :
          /\ tabs[i].kind = "local"
          /\ file' = [exists |-> TRUE, readable |-> TRUE,
                      text |-> tabs[i].text, mtime |-> file.mtime + 1]
          /\ tabs' = [tabs EXCEPT ![i].base = tabs[i].text,
                                  ![i].modified = FALSE]
    /\ UNCHANGED <<program, active, nextTabId, remote, persist, rows, saved>>

(* remove_tab_by_id forgets what was pending for the tab.                  *)
PendingWithout(id) == remote \ {id}

(* Closing a tab; the neighbour that takes its place becomes active.       *)
CloseTab ==
    /\ program = "up"
    /\ \E i \in DOMAIN tabs :
          /\ tabs' = RemoveAt(tabs, i)
          /\ remote' = PendingWithout(tabs[i].id)
          /\ active' = IF active # tabs[i].id THEN active
                       ELSE IF tabs' = <<>> THEN NoTab
                       ELSE tabs'[Min({i, Len(tabs')})].id
    /\ SaveStateAsync(tabs', active')
    /\ UNCHANGED <<program, nextTabId, file, persist>>

(* set_active_tab: a restored remote tab without edits is loaded again,    *)
(* here in the same step, unless the reload fails.                         *)
ActivateTab ==
    /\ program = "up"
    /\ \E i \in DOMAIN tabs :
          /\ active' = tabs[i].id
          /\ \/ /\ tabs[i].id \in remote /\ ~tabs[i].modified
                /\ tabs' = [tabs EXCEPT ![i] =
                              FromRemote(@.id, ServerText, FALSE)]
                /\ remote' = remote \ {tabs[i].id}
             \/ UNCHANGED <<tabs, remote>>
    /\ UNCHANGED <<program, nextTabId, file, persist, rows, saved>>

(* open_settings, when no settings tab is there to be activated.           *)
OpenSettings ==
    /\ program = "up"
    /\ Len(tabs) < MaxTabs
    /\ \A i \in DOMAIN tabs : IsEditor(tabs[i])
    /\ AllocateTabId
    /\ tabs' = Append(tabs, SettingsTab(nextTabId))
    /\ active' = nextTabId
    /\ SaveStateAsync(tabs', active')
    /\ UNCHANGED <<program, remote, file, persist>>

Stop ==
    /\ program' = "down"
    /\ tabs' = <<>>
    /\ active' = NoTab
    /\ nextTabId' = 0
    /\ remote' = {}
    /\ UNCHANGED <<file, persist>>

(* quit: a blocking save.                                                  *)
Quit ==
    /\ program = "up"
    /\ Write(Snapshot(tabs, active))
    /\ Stop

KillProgram ==
    /\ program = "up"
    /\ Stop
    /\ UNCHANGED <<rows, saved>>

(* Another program writes, removes or locks the file.                      *)
ChangeFile ==
    /\ program = "down"
    /\ file.mtime < MaxWrites
    /\ \/ \E text \in Texts :
             file' = [exists |-> TRUE, readable |-> TRUE, text |-> text,
                      mtime |-> file.mtime + 1]
       \/ file' = [file EXCEPT !.exists = FALSE, !.mtime = @ + 1]
       \/ file' = [file EXCEPT !.readable = FALSE, !.mtime = @ + 1]
    /\ UNCHANGED <<program, tabs, active, nextTabId, remote, persist, rows, saved>>

(* load_state: one more than the highest identity restored.                *)
NextTabId(ts) == Max({ts[i].id : i \in DOMAIN ts}) + 1

(* load_state; a session with no tab left to restore starts with one.      *)
LoadState ==
    LET windows == Load(rows)
        ts == IF windows = <<>> THEN <<>> ELSE RestoredTabs(windows[1])
    IN  /\ program = "down"
        /\ program' = "up"
        /\ \/ /\ ts = <<>>
              /\ tabs' = <<Untitled(0, FALSE)>>
              /\ active' = 0
              /\ nextTabId' = 1
              /\ remote' = {}
           \/ /\ ts # <<>>
              /\ tabs' = ts
              /\ active' = RestoredActive(windows[1])
              /\ nextTabId' = NextTabId(ts)
              /\ remote' = {t.id : t \in {u \in Range(ts) : u.kind = "remote"}}
        /\ UNCHANGED <<file, persist, rows, saved>>

RestoreNext ==
    \/ NewTab
    \/ OpenFile(FromFile(nextTabId, file.text, FALSE))
    \/ OpenFile(FromRemote(nextTabId, ServerText, FALSE))
    \/ RenameTab \/ Edit \/ SaveFile \/ CloseTab \/ ActivateTab \/ OpenSettings
    \/ Quit \/ KillProgram \/ ChangeFile \/ LoadState

RestoreSpec == RestoreInit /\ [][RestoreNext]_restoreVars

-----------------------------------------------------------------------------
Tab == [id : 0..MaxTabIds, kind : {"untitled", "local", "remote", "settings"},
        named : BOOLEAN, text : Texts, base : Texts, modified : BOOLEAN,
        large : BOOLEAN]

RestoreTypeOK ==
    /\ program \in {"up", "down"}
    /\ \A i \in DOMAIN tabs : tabs[i] \in Tab
    /\ active \in 0..MaxTabIds \cup {NoTab}
    /\ nextTabId \in 0..MaxTabIds
    /\ remote \subseteq Ids
    /\ file \in [exists : BOOLEAN, readable : BOOLEAN, text : Texts,
                 mtime : 1..MaxWrites]
    /\ persist \in BOOLEAN

(* What a restart should show for a tab whose text was kept.               *)
ShowsSaved(t) ==
    \E u \in Range(tabs') : u.id = t.id /\ u.text = t.text /\ u.modified

FileReplaces(t) ==
    /\ t.kind = "local"
    /\ file.exists /\ file.readable
    /\ file.mtime > saved.mtime

(* A restart shows the text of every tab that differed from its file when  *)
(* the session was saved, also when the file is gone or cannot be read;    *)
(* only a file changed since is loaded instead.                            *)
UnsavedTextRestored ==
    [][LoadState => \A t \in saved.unsaved :
         (persist /\ Differs(t) /\ Persisted(t) /\ ~TooLarge(t))
           => \/ ShowsSaved(t)
              \/ /\ FileReplaces(t)
                 /\ \E u \in Range(tabs') : u.id = t.id /\ u.text = file.text]_restoreVars

(* A restart never marks as saved a local tab that shows something other   *)
(* than the file.                                                          *)
CleanTabsShowTheFile ==
    [][LoadState => \A u \in Range(tabs') :
         (u.kind = "local" /\ ~u.modified) => u.text = file.text]_restoreVars

(* "windows, tabs, and even unsaved content survive restarts" (README.md): *)
(* a tab that shows unsaved changes when the session is saved shows them   *)
(* after the restart, unless the file was changed meanwhile.               *)
UnsavedContentSurvives ==
    [][LoadState => \A t \in saved.unsaved :
         (persist /\ t.modified /\ Persisted(t) /\ ~TooLarge(t))
           => ShowsSaved(t) \/ FileReplaces(t)]_restoreVars

(* "the persisted active index must refer to an editor tab" (save.rs): the *)
(* editor tab that was active is active after the restart, if it is there. *)
ActiveTabRestored ==
    [][(LoadState /\ saved.active \in {tabs'[i].id : i \in DOMAIN tabs'})
          => active' = saved.active]_restoreVars
=============================================================================
