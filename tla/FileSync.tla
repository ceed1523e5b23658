------------------------------ MODULE FileSync ------------------------------
(***************************************************************************)
(* A local file, the editor tab that shows it and another program that     *)
(* changes it (src/fulgur/files): background saves with an optimistic      *)
(* baseline, watch events with their suppression rules, reloads on the     *)
(* background executor and the conflict dialog.                            *)
(*                                                                         *)
(* FileWatcher models how notifications become events; here an event is    *)
(* in the queue as soon as the watch sees the change.  Encoding, titles    *)
(* and the large-file mode are left out.                                   *)
(***************************************************************************)
EXTENDS Integers, SequencesExt

CONSTANTS
    Paths,         \* the paths the tab may be saved under or renamed to
    Home,          \* the path opened first
    Texts,         \* what a buffer or a file may hold
    FirstText,     \* what the file holds at first
    Absent,        \* no file, no text
    Backends,      \* the kinds of watch backend there are: TRUE if its
                   \* watches follow the inode (inotify), not the path
    MaxDetours,    \* bound: changes by the other program, saves under
                   \* another path, tabs opened after the first and
                   \* directories that cannot be synchronized, together
    MaxEvents,     \* bound: events in the queue
    MaxReloads     \* bound: reloads in flight at once

ASSUME FileSyncAssumption ==
    /\ Home \in Paths /\ FirstText \in Texts /\ Absent \notin Texts
    /\ Backends \subseteq BOOLEAN
    /\ MaxDetours \in Nat /\ MaxEvents \in Nat /\ MaxReloads \in Nat

VARIABLES
    inodeBackend,  \* the backend of this platform
    disk,       \* per path: the contents of the file, or Absent
    tab,        \* the editor tab; its id stays when it is closed
    active,     \* the tab is the active one
    opening,    \* the file read for a tab about to be opened, or NoRead
    saves,      \* per tab id: inflight_saves and the task behind it
    reloads,    \* per slot: a reload_tab_from_disk in flight, or NoRead
    events,     \* watch events not handled yet
    watching,   \* file_watcher is running
    watch,      \* per path: watched_paths and what the watch still sees
    recent,     \* the paths with an entry younger than 500 ms in
                \* last_file_events or last_file_saves
    conflicts,  \* pending_conflicts and open_conflict_dialogs
    detours,    \* what MaxDetours counts
    quiet,      \* history: only saves of the tab itself changed the file
                \* and caused events, and nobody asked for a reload
    unsettled   \* history: a save that replaced the file of the tab was
                \* reported as failed, and none was written since

vars == <<inodeBackend, disk, tab, active, opening, saves, reloads, events,
          watching, watch, recent, conflicts, detours, quiet, unsettled>>

TabIds == 1..(MaxDetours + 1)
Slots == 1..MaxReloads
NoRead == [path |-> Absent]
NoSave == [path |-> Absent]

SaveStages == {"writing", "written", "failed"}

Init ==
    /\ inodeBackend \in Backends
    /\ disk = [p \in Paths |-> IF p = Home THEN FirstText ELSE Absent]
    /\ tab = [id |-> 1, open |-> TRUE, path |-> Home, text |-> FirstText,
              base |-> FirstText, modified |-> FALSE]
    /\ active = TRUE
    /\ opening = NoRead
    /\ saves = [i \in TabIds |-> NoSave]
    /\ reloads = [s \in Slots |-> NoRead]
    /\ events = <<>>
    /\ watching = TRUE
    /\ watch = [p \in Paths |-> IF p = Home THEN "armed" ELSE "none"]
    /\ recent = {}
    /\ conflicts = [pending |-> {}, dialogs |-> {}]
    /\ detours = 0
    /\ quiet = TRUE
    /\ unsettled = FALSE

Shows(p) == tab.open /\ tab.path = p
Dispatched(id) == saves[id] # NoSave

(* FileWatcher::watch_file: a path already in watched_paths is left alone, *)
(* and a file that is not there cannot be watched.                         *)
Watched(w, p) ==
    IF watching /\ w[p] = "none" /\ disk[p] # Absent
    THEN [w EXCEPT ![p] = "armed"] ELSE w

Unwatched(w, p) == [w EXCEPT ![p] = "none"]

(* prune_file_watch_bookkeeping_for_path: the deferred conflicts; recent   *)
(* loses the path too.                                                     *)
PendingWithout(c, p) == [c EXCEPT !.pending = @ \ {p}]

Detour == detours < MaxDetours /\ detours' = detours + 1

(* A change of the file at p: what the watch reports and whether it is     *)
(* still good.  A replaced or removed inode takes its watch along.         *)
Reported(p, kind) ==
    /\ Len(events) < MaxEvents
    /\ events' = IF watch[p] = "armed"
                 THEN Append(events, [kind |-> kind, path |-> p]) ELSE events

Replaced(p) ==
    /\ Reported(p, IF inodeBackend THEN "Deleted" ELSE "Modified")
    /\ watch' = IF inodeBackend /\ watch[p] = "armed"
                THEN [watch EXCEPT ![p] = "stale"] ELSE watch

-----------------------------------------------------------------------------
(* The user.                                                               *)

(* A change of the content: check_modified.                                *)
Edit ==
    /\ tab.open /\ active
    /\ \E text \in Texts \ {tab.text} :
          tab' = [tab EXCEPT !.text = text, !.modified = text # tab.base]
    /\ UNCHANGED <<disk, active, opening, saves, reloads, events, watching,
                   watch, recent, conflicts, detours, quiet, unsettled>>

(* spawn_local_save, finalize_save_as: skipped while a save of the tab is  *)
(* in flight; the text is the baseline from now on.                        *)
SaveTo(p) ==
    /\ tab.open /\ active
    /\ ~Dispatched(tab.id)
    /\ saves' = [saves EXCEPT ![tab.id] =
                   [path |-> p, text |-> tab.text, base |-> tab.base,
                    stage |-> "writing", as |-> p # tab.path]]
    /\ tab' = [tab EXCEPT !.base = tab.text, !.modified = FALSE]
    /\ IF p = tab.path THEN UNCHANGED detours ELSE Detour
    /\ UNCHANGED <<disk, active, opening, reloads, events, watching, watch,
                   recent, conflicts, quiet, unsettled>>

(* set_active_tab: a conflict put off until now is shown.                  *)
SetActiveTab ==
    /\ tab.open /\ ~active
    /\ active' = TRUE
    /\ conflicts' = IF tab.path \in conflicts.pending
                    THEN [pending |-> conflicts.pending \ {tab.path},
                          dialogs |-> conflicts.dialogs \cup
                                        {[path |-> tab.path, id |-> tab.id]}]
                    ELSE conflicts
    /\ UNCHANGED <<disk, tab, opening, saves, reloads, events, watching, watch,
                   recent, detours, quiet, unsettled>>

(* close_tab_manage_focus: the tab becomes active because its neighbour    *)
(* was closed.                                                             *)
NeighbourCloses ==
    /\ tab.open /\ ~active
    /\ active' = TRUE
    /\ UNCHANGED <<disk, tab, opening, saves, reloads, events, watching, watch,
                   recent, conflicts, detours, quiet, unsettled>>

LeaveTab ==
    /\ tab.open /\ active
    /\ active' = FALSE
    /\ UNCHANGED <<disk, tab, opening, saves, reloads, events, watching, watch,
                   recent, conflicts, detours, quiet, unsettled>>

(* remove_tab_by_id.                                                       *)
CloseTab ==
    /\ tab.open
    /\ tab' = [tab EXCEPT !.open = FALSE]
    /\ watch' = Unwatched(watch, tab.path)
    /\ recent' = recent \ {tab.path}
    /\ conflicts' = PendingWithout(conflicts, tab.path)
    /\ UNCHANGED <<disk, active, opening, saves, reloads, events, watching,
                   detours, quiet, unsettled>>

(* open_file_from_path: the file is read on the background executor, then  *)
(* the tab is built from what was read and the file is watched.            *)
OpenReads(p) ==
    /\ ~tab.open /\ opening = NoRead
    /\ Detour
    /\ disk[p] # Absent
    /\ opening' = [path |-> p, text |-> disk[p]]
    /\ UNCHANGED <<disk, tab, active, saves, reloads, events, watching, watch,
                   recent, conflicts, quiet, unsettled>>

OpenFinishes ==
    /\ opening # NoRead
    /\ tab' = [id |-> tab.id + 1, open |-> TRUE, path |-> opening.path,
               text |-> opening.text, base |-> opening.text, modified |-> FALSE]
    /\ active' = TRUE
    /\ opening' = NoRead
    /\ watch' = Watched(watch, opening.path)
    /\ quiet' = (quiet /\ \A i \in DOMAIN events : events[i].path # opening.path)
    /\ unsettled' = FALSE
    /\ UNCHANGED <<disk, saves, reloads, events, watching, recent, conflicts,
                   detours>>

(* reload_tab_from_disk, on behalf of the user or not.                     *)
SpawnReload(p, asked) ==
    \E s \in Slots :
        /\ reloads[s] = NoRead
        /\ reloads' = [reloads EXCEPT ![s] =
                         [path |-> p, text |-> Absent, asked |-> asked]]

(* focus_existing_local_tab_for_open: the open tab is focused; if it has   *)
(* changes the user is asked, and here wants the file.                     *)
ReopenFile ==
    /\ tab.open /\ tab.modified
    /\ active' = TRUE
    /\ SpawnReload(tab.path, TRUE)
    /\ quiet' = FALSE
    /\ UNCHANGED <<disk, tab, opening, saves, events, watching, watch, recent,
                   conflicts, detours, unsettled>>

(* show_file_conflict_dialog: "Load from file" reloads if the tab still    *)
(* shows the path, "Keep local changes" only closes the dialog.            *)
AnswerConflict ==
    /\ \E d \in conflicts.dialogs :
          /\ conflicts' = [conflicts EXCEPT !.dialogs = @ \ {d}]
          /\ \/ /\ Shows(d.path) /\ tab.id = d.id
                /\ SpawnReload(d.path, TRUE)
             \/ UNCHANGED reloads
    /\ UNCHANGED <<disk, tab, active, opening, saves, events, watching, watch,
                   recent, detours, quiet, unsettled>>

(* start_file_watcher, stop_file_watcher.                                  *)
StopWatcher ==
    /\ watching
    /\ watching' = FALSE
    /\ watch' = [p \in Paths |-> "none"]
    /\ events' = <<>>
    /\ recent' = {}
    /\ conflicts' = [conflicts EXCEPT !.pending = {}]
    /\ UNCHANGED <<disk, tab, active, opening, saves, reloads, detours, quiet,
                   unsettled>>

StartWatcher ==
    /\ ~watching
    /\ watching' = TRUE
    /\ watch' = [p \in Paths |->
                   IF Shows(p) /\ disk[p] # Absent THEN "armed" ELSE "none"]
    /\ UNCHANGED <<disk, tab, active, opening, saves, reloads, events, recent,
                   conflicts, detours, quiet, unsettled>>

-----------------------------------------------------------------------------
(* The background executor and the completions on the user interface.      *)

(* atomic_write_file renames the new contents into place, and what follows *)
(* fails or not.                                                           *)
RenameIntoPlace(id, stage) ==
    /\ Dispatched(id) /\ saves[id].stage = "writing"
    /\ disk' = [disk EXCEPT ![saves[id].path] = saves[id].text]
    /\ Replaced(saves[id].path)
    /\ saves' = [saves EXCEPT ![id].stage = stage]
    /\ quiet' = (quiet /\ id = tab.id /\ tab.open)
    /\ UNCHANGED <<tab, active, opening, reloads, watching, recent, conflicts>>

WriteSucceeds(id) ==
    /\ RenameIntoPlace(id, "written")
    /\ unsettled' = (unsettled /\ saves[id].path # tab.path)
    /\ UNCHANGED detours

(* The parent directory cannot be opened or synchronized after the rename: *)
(* an error, although the file has the new text.                           *)
DirectorySyncFails(id) ==
    /\ RenameIntoPlace(id, "failed")
    /\ Detour
    /\ unsettled' = (unsettled \/ saves[id].path = tab.path)

(* atomic_write_file fails before or in the rename.                        *)
WriteFails(id) ==
    /\ Dispatched(id) /\ saves[id].stage = "writing"
    /\ saves' = [saves EXCEPT ![id].stage = "failed"]
    /\ UNCHANGED <<disk, tab, active, opening, reloads, events, watching, watch,
                   recent, conflicts, detours, quiet, unsettled>>

(* Mutant: the save stays in inflight_saves.                               *)
SavesKept(id) == saves

(* finish_local_save and finish_save_as drop the save before anything.     *)
SavesWithout(id) == [saves EXCEPT ![id] = NoSave]

(* finish_local_save after a successful write: on inode backends the watch *)
(* is set up again, for the new inode.                                     *)
FinishLocalSave(id) ==
    LET p == saves[id].path IN
    /\ Dispatched(id) /\ saves[id].stage = "written" /\ ~saves[id].as
    /\ saves' = SavesWithout(id)
    /\ watch' = IF inodeBackend THEN Watched(Unwatched(watch, p), p) ELSE watch
    /\ conflicts' = IF inodeBackend THEN PendingWithout(conflicts, p)
                    ELSE conflicts
    /\ recent' = recent \cup {p}
    /\ UNCHANGED <<disk, tab, active, opening, reloads, events, watching,
                   detours, quiet, unsettled>>

(* finish_save_as after a successful write: the tab moves to the new path. *)
FinishSaveAs(id) ==
    LET p == saves[id].path IN
    /\ Dispatched(id) /\ saves[id].stage = "written" /\ saves[id].as
    /\ saves' = SavesWithout(id)
    /\ \/ /\ tab.open /\ tab.id = id
          /\ tab' = [tab EXCEPT !.path = p]
          /\ watch' = Watched(Unwatched(watch, tab.path), p)
          /\ recent' = (recent \ {tab.path}) \cup {p}
          /\ conflicts' = PendingWithout(conflicts, tab.path)
          /\ unsettled' = FALSE
       \/ /\ ~tab.open \/ tab.id # id
          /\ UNCHANGED <<tab, watch, recent, conflicts, unsettled>>
    /\ UNCHANGED <<disk, active, opening, reloads, events, watching, detours,
                   quiet>>

(* Mutant: nothing is restored.                                            *)
RolledBackNothing(id) == tab

(* handle_failed_save: the baseline of before the save comes back and the  *)
(* modified mark is computed again.                                        *)
RolledBack(id) ==
    [tab EXCEPT !.base = saves[id].base, !.modified = tab.text # saves[id].base]

HandleFailedSave(id) ==
    /\ Dispatched(id) /\ saves[id].stage = "failed"
    /\ saves' = SavesWithout(id)
    /\ tab' = IF tab.open /\ tab.id = id THEN RolledBack(id) ELSE tab
    /\ UNCHANGED <<disk, active, opening, reloads, events, watching, watch,
                   recent, conflicts, detours, quiet, unsettled>>

ReloadReads(s) ==
    /\ reloads[s] # NoRead /\ reloads[s].text = Absent
    /\ reloads' = [reloads EXCEPT ![s] =
                     IF disk[@.path] = Absent THEN NoRead
                     ELSE [@ EXCEPT !.text = disk[reloads[s].path]]]
    /\ UNCHANGED <<disk, tab, active, opening, saves, events, watching, watch,
                   recent, conflicts, detours, quiet, unsettled>>

(* apply_reloaded_contents: to the tab that shows the path by now.         *)
ApplyReload(s) ==
    /\ reloads[s] # NoRead /\ reloads[s].text # Absent
    /\ reloads' = [reloads EXCEPT ![s] = NoRead]
    /\ tab' = IF Shows(reloads[s].path)
              THEN [tab EXCEPT !.text = reloads[s].text,
                               !.base = reloads[s].text, !.modified = FALSE]
              ELSE tab
    /\ UNCHANGED <<disk, active, opening, saves, events, watching, watch,
                   recent, conflicts, detours, quiet, unsettled>>

-----------------------------------------------------------------------------
(* Watch events.                                                           *)

(* Mutant: a save still in flight is not looked at.                        *)
SuppressedAfterwards(p) == p \in recent

(* should_suppress_file_watch_event.                                       *)
Suppressed(p) ==
    \/ p \in recent
    \/ \E id \in TabIds : saves[id].path = p

(* apply_external_modification, with the conflicts c it starts from.       *)
ApplyExternalModification(p, c) ==
    \/ /\ Shows(p) /\ tab.modified /\ active
       /\ conflicts' = [c EXCEPT !.dialogs =
                          IF \E d \in @ : d.path = p THEN @
                          ELSE @ \cup {[path |-> p, id |-> tab.id]}]
       /\ UNCHANGED reloads
    \/ /\ Shows(p) /\ tab.modified /\ ~active
       /\ conflicts' = [c EXCEPT !.pending = @ \cup {p}]
       /\ UNCHANGED reloads
    \/ /\ Shows(p) /\ ~tab.modified
       /\ SpawnReload(p, FALSE)
       /\ conflicts' = c
    \/ /\ ~Shows(p)
       /\ conflicts' = c
       /\ UNCHANGED reloads

(* History: the event of a write that was reported as failed is taken for  *)
(* that of another program.                                                *)
Mistaken(p) == unsettled /\ Shows(p)

NextEvent(kind) == events # <<>> /\ Head(events).kind = kind

HandleSuppressed ==
    /\ events # <<>>
    /\ Suppressed(Head(events).path)
    /\ events' = Tail(events)
    /\ UNCHANGED <<disk, tab, active, opening, saves, reloads, watching, watch,
                   recent, conflicts, detours, quiet, unsettled>>

HandleModified ==
    LET p == Head(events).path IN
    /\ NextEvent("Modified") /\ ~Suppressed(p)
    /\ events' = Tail(events)
    /\ recent' = recent \cup {p}
    /\ ApplyExternalModification(p, conflicts)
    /\ quiet' = (quiet /\ ~Mistaken(p))
    /\ UNCHANGED <<disk, tab, active, opening, saves, watching, watch, detours,
                   unsettled>>

(* A deletion whose path still exists is a replacement: watch it again.    *)
HandleReplaced ==
    LET p == Head(events).path IN
    /\ NextEvent("Deleted") /\ ~Suppressed(p) /\ disk[p] # Absent
    /\ events' = Tail(events)
    /\ watch' = IF inodeBackend THEN Watched(Unwatched(watch, p), p) ELSE watch
    /\ recent' = recent \cup {p}
    /\ ApplyExternalModification(p, IF inodeBackend
                                    THEN PendingWithout(conflicts, p)
                                    ELSE conflicts)
    /\ quiet' = (quiet /\ ~Mistaken(p))
    /\ UNCHANGED <<disk, tab, active, opening, saves, watching, detours,
                   unsettled>>

HandleDeleted ==
    LET p == Head(events).path IN
    /\ NextEvent("Deleted") /\ ~Suppressed(p) /\ disk[p] = Absent
    /\ events' = Tail(events)
    /\ recent' = recent \cup {p}
    /\ conflicts' = PendingWithout(conflicts, p)
    /\ tab' = IF Shows(p) THEN [tab EXCEPT !.modified = TRUE] ELSE tab
    /\ quiet' = (quiet /\ ~Mistaken(p))
    /\ UNCHANGED <<disk, active, opening, saves, reloads, watching, watch,
                   detours, unsettled>>

HandleRenamed ==
    LET p == Head(events).path IN
    /\ NextEvent("Renamed") /\ ~Suppressed(p)
    /\ events' = Tail(events)
    /\ \/ /\ Shows(p)
          /\ tab' = [tab EXCEPT !.path = Head(events).to]
          /\ watch' = Watched(Unwatched(watch, p), Head(events).to)
          /\ recent' = recent \ {p}
          /\ conflicts' = PendingWithout(conflicts, p)
       \/ /\ ~Shows(p)
          /\ recent' = recent \cup {p}
          /\ UNCHANGED <<tab, watch, conflicts>>
    /\ UNCHANGED <<disk, active, opening, saves, reloads, watching, detours,
                   quiet, unsettled>>

(* FILE_WATCH_DEBOUNCE passes.  Events are delivered within it: it does    *)
(* not end for a path that still has one in the queue.                     *)
DebounceEnds(p) ==
    /\ p \in recent
    /\ \A i \in DOMAIN events : events[i].path # p
    /\ recent' = recent \ {p}
    /\ UNCHANGED <<disk, tab, active, opening, saves, reloads, events, watching,
                   watch, conflicts, detours, quiet, unsettled>>

-----------------------------------------------------------------------------
(* The other program.                                                      *)

External ==
    /\ Detour
    /\ quiet' = FALSE
    /\ UNCHANGED <<tab, active, opening, saves, reloads, watching, recent,
                   conflicts, unsettled>>

(* Writes the file in place.                                               *)
ExternalWrite(p, text) ==
    /\ External
    /\ disk[p] # Absent /\ text # disk[p]
    /\ disk' = [disk EXCEPT ![p] = text]
    /\ Reported(p, "Modified")
    /\ UNCHANGED watch

(* Replaces or creates the file by renaming a new one into place.          *)
ExternalReplace(p, text) ==
    /\ External
    /\ text # disk[p]
    /\ disk' = [disk EXCEPT ![p] = text]
    /\ Replaced(p)

ExternalDelete(p) ==
    /\ External
    /\ disk[p] # Absent
    /\ disk' = [disk EXCEPT ![p] = Absent]
    /\ Reported(p, "Deleted")
    /\ watch' = IF inodeBackend /\ watch[p] = "armed"
                THEN [watch EXCEPT ![p] = "stale"] ELSE watch

(* Renames the file; only backends that watch paths know the new name.     *)
ExternalRename(p, q) ==
    /\ External
    /\ p # q /\ disk[p] # Absent /\ disk[q] = Absent
    /\ disk' = [disk EXCEPT ![q] = disk[p], ![p] = Absent]
    /\ Len(events) < MaxEvents
    /\ events' = IF watch[p] # "armed" THEN events
                 ELSE IF inodeBackend
                      THEN Append(events, [kind |-> "Deleted", path |-> p])
                      ELSE Append(events, [kind |-> "Renamed", path |-> p,
                                           to |-> q])
    /\ watch' = IF inodeBackend /\ watch[p] = "armed"
                THEN [watch EXCEPT ![p] = "stale"] ELSE watch

-----------------------------------------------------------------------------
UserStep ==
    \/ Edit \/ SetActiveTab \/ NeighbourCloses \/ LeaveTab \/ CloseTab
    \/ ReopenFile \/ StopWatcher \/ StartWatcher
    \/ \E p \in Paths : SaveTo(p) \/ OpenReads(p)

SaveStep ==
    \E id \in TabIds :
        \/ WriteSucceeds(id) \/ WriteFails(id) \/ DirectorySyncFails(id)
        \/ FinishLocalSave(id) \/ FinishSaveAs(id) \/ HandleFailedSave(id)

ReloadStep == \E s \in Slots : ReloadReads(s) \/ ApplyReload(s)

EventStep ==
    \/ HandleSuppressed \/ HandleModified \/ HandleReplaced \/ HandleDeleted
    \/ HandleRenamed

ExternalStep ==
    \E p \in Paths :
        \/ ExternalDelete(p)
        \/ \E text \in Texts : ExternalWrite(p, text) \/ ExternalReplace(p, text)
        \/ \E q \in Paths : ExternalRename(p, q)

Next ==
    /\ \/ UserStep \/ AnswerConflict \/ OpenFinishes
       \/ SaveStep \/ ReloadStep \/ EventStep
       \/ \E p \in Paths : DebounceEnds(p)
       \/ ExternalStep
    /\ UNCHANGED inodeBackend

Spec == Init /\ [][Next]_vars

(* The background executor runs the saves it was given and their           *)
(* completions run on the user interface; nothing else is relied upon.     *)
Fairness ==
    \A id \in TabIds :
        WF_vars(/\ \/ WriteSucceeds(id) \/ WriteFails(id) \/ DirectorySyncFails(id)
                   \/ FinishLocalSave(id) \/ FinishSaveAs(id)
                   \/ HandleFailedSave(id)
                /\ UNCHANGED inodeBackend)

FairSpec == Spec /\ Fairness

-----------------------------------------------------------------------------
TypeOK ==
    /\ inodeBackend \in Backends
    /\ disk \in [Paths -> Texts \cup {Absent}]
    /\ tab \in [id : TabIds, open : BOOLEAN, path : Paths, text : Texts,
                base : Texts, modified : BOOLEAN]
    /\ active \in BOOLEAN
    /\ opening \in [path : Paths, text : Texts] \cup {NoRead}
    /\ saves \in [TabIds -> [path : Paths, text : Texts, base : Texts,
                             stage : SaveStages, as : BOOLEAN] \cup {NoSave}]
    /\ reloads \in [Slots -> [path : Paths, text : Texts \cup {Absent},
                              asked : BOOLEAN] \cup {NoRead}]
    /\ Len(events) <= MaxEvents
    /\ watching \in BOOLEAN
    /\ watch \in [Paths -> {"none", "armed", "stale"}]
    /\ recent \subseteq Paths
    /\ conflicts.pending \subseteq Paths
    /\ conflicts.dialogs \subseteq [path : Paths, id : TabIds]
    /\ detours \in 0..MaxDetours
    /\ quiet \in BOOLEAN /\ unsettled \in BOOLEAN

(* A tab without the modified mark shows its baseline, whatever saves,     *)
(* failures and reloads crossed: closing it asks nothing, so the mark must *)
(* never be missing.                                                       *)
CleanIsBaseline == tab.open /\ ~tab.modified => tab.text = tab.base

(* The baseline moves before the write is done.  Still, when only this tab *)
(* writes the file and none of its saves is in flight, a tab without the   *)
(* modified mark shows what the file holds: a failed save, a save skipped  *)
(* because another was in flight or an edit during a save never leaves     *)
(* text that is neither marked nor on disk.  Excused is a tab whose last   *)
(* save was reported as failed after the rename (atomic_write_file returns *)
(* the error of the synchronization of the directory): handle_failed_save  *)
(* then brings back a baseline that is no longer in the file.  The next    *)
(* save that is written ends this.                                         *)
CleanIsOnDisk ==
    quiet /\ ~unsettled /\ tab.open /\ ~tab.modified /\ ~Dispatched(tab.id)
      => tab.text = disk[tab.path]

(* What atomic_write_file says of its errors: they are those of the        *)
(* temporary file and of the rename, and the directory is synchronized as  *)
(* "best effort" (atomic_write.rs:46-49, 132).  So a write that is         *)
(* reported as failed left the file as it was.  The code does not keep it. *)
FailedWritesNothing ==
    [][\A id \in DOMAIN saves :
          Dispatched(id) /\ saves[id].stage = "writing" /\ saves'[id].stage = "failed"
            => disk' = disk]_vars

(* The editor does not mistake its own saves for changes by another        *)
(* program: as long as nobody else touches the file there is no conflict   *)
(* and no reload, on either kind of backend.  A save that was reported as  *)
(* failed after the rename leaves no entry for its event: what follows     *)
(* from handling that event is excused (Mistaken ends quiet), the events   *)
(* of all other saves, before and after it, are not.                       *)
OwnSavesAreSilent ==
    quiet => /\ conflicts.pending = {} /\ conflicts.dialogs = {}
             /\ \A s \in Slots : reloads[s] = NoRead

(* A save in flight ends, also when it fails or its tab is closed: a tab   *)
(* is never locked out of saving.                                          *)
SavesEnd == \A id \in TabIds : Dispatched(id) ~> ~Dispatched(id)

(* "with conflict handling for unsaved edits" (README.md): unsaved edits   *)
(* are replaced by the contents of the file only if the user asked for it. *)
UnsavedEditsKept ==
    [][\A s \in Slots :
         (ApplyReload(s) /\ Shows(reloads[s].path) /\ tab.modified)
           => reloads[s].asked]_vars
=============================================================================
