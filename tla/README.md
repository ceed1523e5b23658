# A TLA+ model of Fulgur

Fulgur is a desktop text editor: windows with tabs, a session that survives
restarts, files that other programs may change while they are open, remote files
over SSH, and file sharing through a synchronization server. This directory
models the parts of it that have concurrency, persistence or failure in them,
model-checks them with TLC and proves properties of twelve of its modules with TLAPS.
Paths below are relative to `src/src/fulgur/` unless they begin with `src/`.

## 1. The system

One process runs one user interface thread (GPUI) on which every handler of
every window runs to completion. Around it there are: the thread that writes the
session, the callback thread of the file-notification library, one thread per
server profile that reads its event stream, and short-lived tasks on a background
executor (reading and writing files, SSH, HTTP) whose results come back to the
user interface as later handlers. A second process of the same user is possible
and shares the database file and the configuration directory.

| Component | State it keeps | Operations | Interacts with | What is hard | What makes it correct |
|---|---|---|---|---|---|
| State writer `state/writer.rs`, `utils/worker.rs` | mailbox of one snapshot, bounded channel, time of the last write | save asynchronously, save and wait, drop | handlers that save; the database | two threads, a full channel, a throttle, failing writes, a panic, a join that times out | the newest snapshot is not forgotten, a reply is true, nobody hangs |
| State database `state/db`, `state/persistence/windows.rs` | rows of windows and tabs, the windows this process owns | open, load, claim, reconcile a snapshot | the writer; other processes | partial reconciliation against rows left by earlier sessions, transactions that fail, two processes | what was saved is what is loaded; closed windows go away |
| Configuration directory `settings`, `state/db/legacy.rs`, `utils/atomic_write.rs` | settings.json, its backup and temporary files, the session of an earlier version; each window's copy of the settings | load, validate, change, save, propagate; import once | every window, other processes | failing saves, killed processes, a damaged file, observers that overwrite a copy | what windows show is what is stored; an earlier session is imported once |
| Session save and restore `state/operations` | tabs, active tab, next tab id | build a snapshot, restore it | tab manager, database, the files | tabs that are not stored, files that changed, vanished or cannot be read, texts too large to store | no unsaved text lost, nothing shown as saved that is not |
| File watcher `files/file_watcher/watcher.rs`, `lifecycle.rs` | watched paths, the pending half of a rename, the event channel | notification callback, consumer task | notify library, file handlers | the callback thread races the timer of the consumer | one report per rename, no event stuck |
| Local files `files/file_operations`, `files/file_watcher/event_handling.rs`, `suppression.rs`, `ui/dialogs/file_watcher.rs` | text, baseline and mark of a tab; saves in flight; watches; deferred conflicts | open, edit, save, save as, reload, answer a conflict | watcher, executor, another program | the baseline moves before the write is done; events of own writes; reloads that race edits | the modified mark can be trusted |
| Access token `sync/access_token.rs` | token, expiry, refresh flag under a mutex with a condition variable | get, clear | every thread that talks to the server, profile sheet | one refresh for many threads, failures, time-outs, changed keys | one refresh, no lost wakeup, no stale token |
| Event stream of a profile `sync/sse`, `sync/profile_lifecycle.rs`, `sync/synchronization` | worker slot, shutdown flags, status, retry counters, settings of the profile | begin, stop, restart, edit, delete, reconnect, cancel | token, shares, status bar, share sheet | old and new worker overlap; a status is written after a stop; settings that fail to be saved | one live worker, and the one the settings ask for |
| Shares `sync/share` | fetched files, ids to acknowledge, retry state, decoded files | doorbell, bulk fetch, decode, acknowledge, open | event stream, tabs, the server | look-up and insertion are apart; retries; duplicates; a restart | nothing is lost on the way, nothing is acknowledged before it was decoded |
| SSH pool and remote files `sync/ssh/pool.rs`, `files/file_operations/remote_*.rs` | idle sessions, cached passwords, requests, their results, progress | open, restore, save, reload, cancel | tabs, the session | capacity, time-outs, answers after a time-out or a newer request | a session has one user, a clean tab is on the server, a restore ends |
| Tabs `ui/tabs/tab_manager` | tabs, active tab, order, previews | create, close one or many, activate, move, transfer between windows | all of the above | questions in the middle of a bulk close; tabs that leave for another window | one active tab, nothing closed without a question |
| Windows `window_manager`, `lifecycle.rs`, `utils/single_instance.rs` | registry, focus order, queues of paths and commands | open, close, quit, take requests of the system or of a second process | tabs, shared state | a request waits for a window to render; windows close or lose the focus meanwhile | a request is dealt with, a file is not opened twice |
| Path dialogs `ui/dialogs/*path*.rs`, `file_browser.rs` | input, generation, listing | type, list, pick | SSH | listings come back late or out of order | the list is that of the input |
| Views of a tab `ui/log_view`, `ui/bars/search_bar`, `ui/tabs/editor_tab/csv_table` | offset into a growing file; matches; cells | poll, pause, follow; search, replace; edit a cell, row or column | text of the tab | truncation and rotation between polls; positions and cells that are stale | the tail is shown; replacing and editing change what they say and nothing else |

`PROJECT.json` lists every component, the hazards of the code at their lines, and
for each model definition the lines it stands for.

## 2. The modules

| Module | Models | Used by |
|---|---|---|
| `StateWriter` | the writer thread, the user interface thread in its calls, the end of the process and the next launch | `StateWriterProofs` |
| `StateRows` | the rows of the database and the pure operators on them: `Apply`, `Load` | `StateDb`, `SessionRestore` |
| `StateDb` | processes that launch, save, close windows, fail and are killed | `UserFiles`, `UserFilesProofs` |
| `ConfigDir` | settings, backup, temporary files, the import of an earlier session; windows' copies of the settings | `UserFiles`, `UserFilesProofs` |
| `SessionRestore` | one window across restarts, over `StateRows` | `UserFiles`, `UserFilesProofs` |
| `UserFiles`, `MCUserFiles` | what is kept on disk for a user: the three above; layouts for TLC | `UserFilesProofs` |
| `FileSync` | a tab, its file, background saves and reloads, events, another program | `FileSyncProofs` |
| `AccessToken` | the threads in `get_valid_token`, the profile sheet | `SyncProofs` |
| `SyncSession` | the workers of a profile, their threads, the settings and the share sheet that start and stop them | `SyncProofs` |
| `ShareDelivery` | what receiving a share promises, without queues and threads | `Shares` |
| `Shares`, `MCShares` | the queues, the stream threads, the bulk fetch and the background pass; sizes for TLC | `SharesProofs` |
| `RemoteFiles` | a remote tab, its tasks (thread and monitor), the pool, the password dialog | `RemoteFilesProofs` |
| `Workspace` | tabs, previews, dialogs, transfers and closing in several windows | `WorkspaceProofs` |
| `LogView`, `SearchBar`, `CsvTable` | the three views of a tab | `EditorViews` |
| `EditorViews`, `MCEditorViews` | a tab with one of these views; texts and queries for TLC | |
| `FileWatcher` | callback thread, event channel, consumer task | `WindowQueues` |
| `PathBrowser` | the dialog that lists directories, and its worker thread | `WindowQueues` |
| `OpenRequests` | requests to open files, queues, focus, menus, windows | `WindowQueues` |
| `WindowQueues` | one of the queues that other threads fill for a window | `WindowQueuesProofs` |

The modules compose in three ways.

* `UserFiles`, `EditorViews` and `WindowQueues` put components side by side that do
  not share state: a behaviour of the composition is that of one of them, so that
  one run checks the invariants of all of them without multiplying their states.
* `Shares` implements `ShareDelivery`: `ImplementsDelivery` is the specification of
  `ShareDelivery`, instantiated with the copies that wait anywhere between the fetch
  and the decoder, and those that no tab shows yet.
* The others compose by assumption and guarantee, each boundary being one that a run
  on the other side checks. `SessionRestore` lets an asynchronous save be written
  at once or not at all; `StateWriter` shows that the writer offers this. `StateDb`
  treats a save as one transaction; `StateRows` holds what it writes. `FileSync`
  starts from the events that `FileWatcher` produces. `SyncSession` takes a token
  for granted or refused, which is `AccessToken`; what its stream announces is
  `Shares`. `Workspace` saves a session or fails to, which is `SessionRestore`.

### State writer

`mailbox`, `queue` and `reply` are `SnapshotMailbox`, the channel and the reply
channel of a blocking save; a snapshot is the number of the save that built it.
`ui` and `writer` are the places of the two threads between their accesses to
shared state: `save_async` is two steps (`SaveAsync` fills the mailbox,
`WakeWriter` tries to send), `save_blocking` is three (`SaveBlocking`,
`SendBlocking`, `ReceiveReply` or `ReplyClosed`), `Worker::drop` is two
(`DropWriter`, `JoinOrDetach`). The writer decides how long to wait
(`MailboxDeadline`), waits (`Receive`, `ThrottleElapsed`, `Disconnected`), takes
the mailbox (`TakeMailbox`) and writes (`WriteSucceeds`, `WriteFails`).
`WriterPanics` may happen while it writes; `Relaunch` ends the process at any
moment and opens the database again, as file, in memory, or not at all.

### Database and configuration directory

A tab row is keyed by window and tab, as in `001_initial.sql`. `Apply` follows
`StateDb::apply`: insert or update each window, match tab rows by identity,
rewrite content only if the fingerprint changed, delete rows that are gone, then
delete the windows this handle owned and no longer has. `Load` follows
`read.rs`. In `StateDb`, loading and claiming are two steps because they are two
transactions. A save fails at any time.

In `ConfigDir` a launch is the steps of `main` and `load_with_db` between which
another process can act: the sweep of temporary files and the load of the settings
(`Launch`), the look for a database (`LookForDb`), its creation (`OpenDb`), the
import (`ImportLegacy`). A save is the steps of `save_to_path`: copy to the backup,
write a temporary file, rename; a crash or another launch may come between any two.
`interrupted` and `overlapped` remember the two ways in which starts disturb the import:
one that failed or was killed between the creation of the database and the import, and
two that both found no database.
`Observed` is the observer every window has on the shared state.

### Session

`RestoreStrategy` is `determine_tab_restore_strategy`, `Persisted`, `KeepsText`
and `ActiveEditorIndex` are the decisions of `build_tab_states` and
`active_editor_index_for_state`. The handlers that change tabs end in
`SaveStateAsync` exactly where the code calls it. `LoadState` is `load_state`, `Only`
the loops there and in `build_tab_states` that keep some tabs and pass over others;
`rows` is the database, `saved` what the session it describes looked like.

### Local files

`FileSync` keeps one tab (another one replaces it after it was closed, while saves
of the first may still be under way). Every `await` of the code is a gap between two
actions: a save is `SaveTo`, then `WriteSucceeds` or `WriteFails`, then
`FinishLocalSave`, `FinishSaveAs` or `HandleFailedSave`; a reload is `SpawnReload`,
`ReloadReads`, `ApplyReload`. `atomic_write_file` can fail before it renames
(`WriteFails`, the file is as it was) and after (`DirectorySyncFails`, the file is
replaced and the error says otherwise); `unsettled` remembers the latter until the next
save that is written. `inodeBackend` says whether the watches of the platform
follow the inode (inotify) or the path, which decides what a rename over the file does.

### Access token

Each critical section of the mutex is an action. The profile sheet stores a key
and clears the token later (`StoreKey`, `ClearToken`), or puts the old key back
(`CancelEdit`). Keys are numbered by the write that stored them, so that "the
latest key" is the greatest number.

### Event stream

A restart retires the worker in the slot (`Retire`: its flag and its place), puts a new
one there and leaves a job on a thread of its own, which waits for the old worker,
synchronizes and only then spawns the thread that reads the stream. `worker[w].job` is
the place of that job, `at[w]` that of the stream thread, `publishing[w]` a status
between the read of the shutdown flag and its publication. `settings` are those in the
window, `saved` those on disk and shared: a handler whose save fails leaves the two
apart, and what it then does to the connection is what the code does.

### Shares

The queues and the acknowledgement set have their own locks, so each access is an
action: a doorbell looks a share up, fetches it, registers it and pushes it in three
steps; the background pass takes what is due, decodes one at a time, acknowledges, and
puts back what failed. Without the private key the pass puts back all of it for five
seconds and counts no attempt (`KeyMissing`); a profile that is switched off
(`ToggleActive`) is passed over by the rendering that starts the pass and opens what is
decoded. A content is a record of sizes, because limits on the
compressed and the plain size decide whether it is given up. A queue is the number of
copies it holds of each share: in which order a vector is worked off decides which share
is tried first, and no property depends on it.

### Remote files

A task has two halves. The thread checks out or opens a session, asks about an unknown
host key, reads or writes, and publishes one outcome with a swap of `finished`; the
monitor on the executor delivers it, notices a cancel, or gives up at the deadline with
the same swap. `latest` remembers the newest open and save request of the tab. The
pool is a map from host to idle session, as the code's is from `SshSessionKey`. The key
holds a digest of the password, so that a task finds a session only under the password
that opened it. When a session was last used is left out: which are stale, and which one
is the oldest, is a choice.

### Tabs and windows

In `Workspace` a tab is a document or the preview of one; large documents are not
persisted and have a dialog of their own when a window closes. Of a document three
things are kept: whether it is modified, whether it is untitled, and whether its text is
blank, because opening a file takes the place of a last tab that is untitled and blank
(`ReusingScratch`), whether or not it is modified. Bulk closing keeps its
continuation in the dialog. A tab sent to another window waits in a slot of the target
and is removed from the source when that one renders. `OpenRequests` has the queues
that a socket or the system fills, the focus order that decides which window empties
them, the menus' copies of the tabs, and the reads that are under way.

### Views

`LogView` counts lines; the file may grow, be cut, or be replaced between two polls, and
a read under way survives what happens to the view. `filled`, `seen` and `gap` remember
from which line on the view was filled, and whether a truncation was missed. `SearchBar`
has two tabs and texts of a few characters, among them two with a letter (`E`) whose
lower case has another length. `CsvTable`
has a text as a sequence of records, the table as a copy of it with two fingerprints,
and a dialog that keeps the table it was opened on.

### Watcher and path dialogs

In `FileWatcher` the mutex of `pending_rename_from` makes each access one step;
`ConsumerLooksAtPending` is the top of the loop of the consumer, which decides
whether it waits with a timer. `PathBrowser` has the delay after each change of the
input, the refresh that is counted, and for a remote directory the tasks that send its
requests, in any order, and the worker thread that answers all but the last one in its
channel with "superseded".

## 3. What is checked

All runs use `tlc -config <run>.cfg <module>`. Deadlock checking is off: in each
of these systems the user may simply stop, and the bounds end every behaviour.

| Run | Module | Properties | Distinct states |
|---|---|---|---|
| `StateWriter_saves` | `StateWriter` | `NewestNotForgotten`, `ReplyMeansStored`, `AckedIsDurable`, `BlockingSaveReturns`, `MailboxDrains` | 288,000 |
| `UserFiles_processes` | `MCUserFiles` | `SavedIsRestored`, `SaveDeletesClosed` (of `StateDb`), `ShownIsStored`, `LegacyImportedOnce` (of `ConfigDir`), `UnsavedTextRestored`, `CleanTabsShowTheFile` (of `SessionRestore`) | 966,000 |
| `FileSync_files` | `FileSync` | `CleanIsOnDisk`, `OwnSavesAreSilent`, `SavesEnd` | 396,000 |
| `AccessToken_threads` | `AccessToken` | `SingleFlight`, `SleepersAreWoken`, `ClearedTokenIsGone`, `CallsReturn` | 250,000 |
| `SyncSession_profile` | `SyncSession` | `NoOrphanWorker`, `LiveWorkerIsWanted`, `RetiredWorkersEnd`, `OpenStreamIsShown` | 501,000 |
| `Shares_receive` | `MCShares` | `SuppressedIsOnItsWay`, `ImplementsDelivery`, `PendingEnds` | 430,000 |
| `RemoteFiles_tab` | `RemoteFiles` | `SessionHasOneUser`, `CleanReachedServer`, `OnlyNewestApplies`, `RestoreEnds` | 309,000 |
| `Workspace_tabs` | `Workspace` | `ActiveIsATab`, `PreviewHasSource`, `EditsAskedFirst` | 1,762,000 |
| `EditorViews_tab` | `MCEditorViews` | `TailIsShown`, `ReplacesOccurrences`, `EditKeepsCells` | 902,000 |
| `WindowQueues_each` | `WindowQueues` | `ReportedOnce`, `EventsConsumed` (of `FileWatcher`), `ListSettles` (of `PathBrowser`), `TwiceOnlyByOverlap`, `RequestsEnd` (of `OpenRequests`) | 248,000 |
| `SessionRestore_unsaved` | `SessionRestore` | `UnsavedContentSurvives`: violated, see 4 | |
| `UserFiles_failed` | `MCUserFiles` | `SharedEvenIfNotSaved` (of `ConfigDir`): violated, see 4 | |

A property is stated in a comment above its definition, with the code it is about.
Each one that holds has a mutant in `PROJECT.json`: a change of a modelled
definition, of the kind a bug would make, under which TLC finds it violated.

Each module also defines its type invariant (`TypeOK`, or the name of the module
before it: `ConfigTypeOK`, `DbTypeOK`, `RestoreTypeOK`, ...). The runs above do
not list it; add `INVARIANT TypeOK` to a configuration to check it with the rest.
`StateWriter`, `AccessToken` (where it is `TokenTypeOK`), `SyncSession`, `Shares` and
`Workspace` have a proof of theirs; the others with proofs have the typing they need in
their invariant.

These configurations are kept for hand use. The first seven end in a counterexample
and show what section 4 says; the last three are runs of the list above on larger instances.

| Configuration | Property | Section 4 |
|---|---|---|
| `SessionRestore_active` | `ActiveTabRestored` | the active tab after a restart |
| `FileWatcher_wait` | `RenameWaitEnds` | the first half of a rename |
| `FileSync_edits` | `UnsavedEditsKept` | typing during a reload |
| `AccessToken_clear` | `NextCallUsesLatestKey` | the key that was just entered |
| `RemoteFiles_placeholder` | `PlaceholderNeverSaved` | saving a tab that failed to load |
| `Workspace_large` | `LargeEditsAskedFirst` | quitting with large documents |
| `FileSync_sync` | `FailedWritesNothing` | an error after the rename |
| `FileSync_large` | `CleanIsBaseline` and those of the run; hold in 4,706,000 states | |
| `Shares_faults` (of `MCShares`) | `SuppressedIsOnItsWay`, `ImplementsDelivery`, with two faults; hold in 419,000 states up to symmetry | |
| `Workspace_three` | those of the run, with three tabs in a window; hold in 4,751,000 states | |

### Bounds

* `StateWriter`: a channel of two messages instead of 16, because "full" and
  "more than one message" are the cases the code distinguishes; a throttle of two
  ticks, so that it can be partly over; four saves, enough for one in the mailbox,
  one queued, one being written and one blocking; two faults, so that a relaunch
  can follow a panic.
* `UserFiles`: two processes, the smallest number that can overlap. For the database
  two window identities and two layouts between which a save meets each kind of
  change of a tab. For the settings two windows, two changes, two launches, one
  fault and one recent file with room for one, so that the list can be full; numbers
  1 to 3 are valid, 2 to 3 are what the settings page offers, and 0 and 4 can only be
  written by hand.
* `SessionRestore`, a part of `UserFiles`: three tab identities (0 to 2) and two tabs at once, one text
  above the size limit, two changes of the file: a tab may be skipped, closed and
  reopened, and the file may be older, newer, gone or unreadable.
* `FileSync`: two texts, two paths, both kinds of watcher; one detour (a change by
  another program, a save under another path, a second tab, or a directory that cannot
  be synchronized), one event in the
  queue and one reload at a time. Bounds on the queue make a write wait, never get
  lost. `FileSync_large` allows two detours.
* `AccessToken`: three threads, three calls, three writes of the key: a refresher,
  a sleeper and a late-comer, and a test of a new key that is cancelled.
* `SyncSession`: two workers, the one that leaves and the one that comes; two
  operations of the user, one transient failure, one change that hands over before
  the previous one is done.
* `Shares`: two shares, two stream threads, two attempts at a decryption before it
  is given up, two rounds, one fault (a request that fails, a restart, or a profile
  switched off): a share can be announced and in the bulk answer, fail once and succeed,
  or fail twice; the application may restart in between. How often the key is missing is
  not bounded. `Shares_faults` has two faults and a server that advertises 0, without
  `PendingEnds`: it identifies states that differ by an exchange of the shares or of the
  threads, which is sound for an invariant and a refinement without liveness, neither of
  which names one.
* `RemoteFiles`: two tasks and two requests, so that a late answer meets a newer
  request; one edit; a pool of one session, so that it is full as soon as it is used.
* `Workspace`: two windows of two tabs, documents 1 and 2 of which 2 is Markdown and
  can have a preview, document 9 too large to be stored; window 1 can be busy. Two tabs
  are enough for one that is closed in bulk without a question and one that is asked
  about; three in a window, so that a tab can stay when a document goes with its preview,
  are in `Workspace_three`. The three properties are proved for any number.
* `EditorViews`: the log view may hold two lines of a file of three, with one
  truncation and two polls; the search bar has two tabs, texts of at most four
  characters, two of them with a letter whose lower case is longer, one edit and one replacement; the table has three records of three
  columns, two edits and one text from elsewhere.
* `WindowQueues`: for the watcher two paths, a channel of two and four notifications,
  that is two complete renames, interleaved; for the path dialog two inputs and two
  changes; for requests two windows, one file and two requests.

### Fairness

* `StateWriter`: weak fairness of each thread and of time. Both threads are
  runnable whenever their step is enabled. Nobody has to save, fail or restart.
* `FileWatcher`: the executor polls the consumer, and time passes. Nothing
  promises another notification; that is why `RenameWaitEnds` is violated.
* `FileSync`: the executor runs the saves it was given and their completions.
* `AccessToken`: threads run and requests end (the HTTP agent has time-outs). The
  time-out of the wait is not relied upon, so `CallsReturn` shows that the
  notifications alone are enough.
* `SyncSession`: threads of a worker run, heartbeats of an open stream arrive and
  the window handles them. Nothing is assumed of the user, and no connection has to
  succeed.
* `Shares`: threads that fetch, the synchronization, the background pass and
  rendering go on, and a back-off window ends. No announcement is assumed. The key may
  be missing any number of times, but not for ever: strong fairness of `TakeDue` says
  that a pass that begins again and again finds it again and again, without which a share
  waits for ever, in the code as well. Of a profile that is switched off nothing is
  promised.
* `RemoteFiles`: each task publishes its outcome and its monitor stops, since both
  have a deadline, and the window renders. Of the network nothing is assumed.
* `LogView`: the polling task runs. `PathBrowser`: timers, tasks and the worker run.
* `OpenRequests`: the front window renders (its cursor blinks,
  `window_manager/render.rs`), the socket is read, reads of files and the creation of
  windows end. A window behind another one need not render.
* `UserFiles`, `Workspace`: none; they state safety only.

## 4. What the code does differently from what it says

1. `SessionRestore_unsaved`. `src/README.md:52`: "even unsaved content survive
   restarts". A tab restored with unsaved text takes it as its baseline; the next
   save of the session sees no difference and stores no text. The content survives
   one restart, and not a second one without a further edit.
2. `SessionRestore_active`. `state/operations/save.rs:176-186`: the persisted active
   index "must refer to an editor tab". The index counts all editor tabs, but empty
   untitled, large and (by setting) all untitled tabs are not stored, so after a
   restart another tab is active.
3. `FileWatcher_wait`. `files/file_watcher/watcher.rs:11`: `PENDING_RENAME_TIMEOUT`
   is the "maximum time" a first half waits. The consumer sets its timer only if a
   half is pending when it starts to wait.
4. `FileSync_edits`. `src/README.md:47`: "with conflict handling for unsaved
   edits". A reload that started when the tab was clean replaces what was typed
   while it read.
5. `AccessToken_clear`. `ui/sheets/edit_profile/handlers.rs:164`: "so the next call
   uses the latest key/email". A request under way during `clear_token` stores its
   token after it. `ClearedTokenIsGone` is the same property with that case
   excluded; it holds and is proved.
6. `RemoteFiles_placeholder`. `mod.rs:82`: restored remote tabs "should lazily
   reconnect on first activation/save". Until then they hold a text that stands for
   the file's; a save (`files/file_operations/save_ops/save_local.rs:58`) does not
   reconnect and writes that text to the server.
7. `Workspace_large`. `lifecycle.rs:29`: large, modified files "cannot be persisted,
   so warn about each before closing". Quitting (`dialogs.rs:58`) asks about those of
   the window it was asked in and ends the others without a question.
8. `FileSync_sync`. `utils/atomic_write.rs:46-49` lists the errors of
   `atomic_write_file`, all of them up to the rename, and line 132 calls the
   synchronization of the directory a "best effort". Its failure is returned, though, and
   the file is replaced by then. The caller rolls the baseline back to a text that is no
   longer in the file, so that a tab edited back to it looks saved, and leaves no entry
   for the event of the write, so that this one starts a reload or a conflict.
9. `UserFiles_failed`. `settings/propagation.rs:20`: "The shared state update and
   re-render still happen even when saving fails." The function returns the error before
   it updates the shared state.

Each of these was reached by TLC. Reading the code for the models showed more, which
the models contain and which no run is spent on. The properties stand around them:
where one of these breaks a property one would want, the property excuses exactly
that case and its comment says so.

**Files and watcher.**
`watcher.rs:162`: a first half that arrives while another one is pending overwrites
it, and the first rename is never reported; `ReportedOnce` therefore bounds the
reports from above only. `suppression.rs:39`: an event within 500 ms of the previous
one, or of an own save, is dropped and the file is not looked at again, so a change
by another program can stay unnoticed. What follows from an error after the rename
(item 8) is excused in `CleanIsOnDisk` and `OwnSavesAreSilent`, until the next save that
is written, and nothing else is. `closing.rs:58` and `open_core.rs:55`: a tab
can become active without `set_active_tab`, and its deferred conflict then stays hidden.

**Database and configuration directory.**
`state/persistence/windows.rs:160`: of two processes that start on one file each
claims all windows, and later deletes those it does not show, unlike the comment in
`state/db/mod.rs:57`; `SaveDeletesClosed` excuses windows another process has.
`window_manager/lifecycle.rs:74`: a window that closes is still in the snapshot saved
for it; its row goes with the next save. A second launch sweeps away the temporary
file of a running process, whose save then fails. A damaged `settings.json` is copied
over a good backup by the next save, and a missing one is not replaced by the backup.
A failing directory sync reports an error though the file was replaced (item 8). Adding a
recent file is saved but not propagated, and an observer that resets the window's
settings forgets it until it is loaded again. The import is decided by the absence of the
database (`state/persistence/windows.rs:130`): a start that fails or is killed after the
file was created and before the import is done loses the earlier session, and two first
launches at once import it twice. `LegacyImportedOnce` says that there is no other way to
either, and that a start which ends before the file is created loses nothing.

**Event stream.**
A toggle or an edit whose save fails leaves the stream as it was, and switching the
feature off later does not stop a stream that the saved settings no longer mention.
A deleted profile whose save failed comes back with the next window. A share sheet
that closes before it renders drops the restart it had queued, or leaves the status
at "connecting". Saving again after `add_profile` failed adds the profile twice.

**Shares.**
A share can be opened twice: by two doorbells that overlap (`connection.rs:239`), or
because the bulk answer repeats what a doorbell delivered (`decrypt.rs:325`).
The acknowledgement is sent before the session with the new tab is stored, so a crash
in between loses the share. A doorbell whose fetch fails is retried only by the next
connection. As long as the private key cannot be had, what was fetched waits, tried
every five seconds and never given up (`decrypt.rs:225`).

**Remote files.**
Saves of one tab are not serialized. A save that timed out or was cancelled still
writes later, and its outcome is lost. A reload replaces what was typed while it read.
An authentication failure removes a newer cached password. A full pool evicts its
oldest session even if the key to store is there already (`pool.rs:160`). Where a
rename is refused the destination is truncated and written in place.

**Tabs and windows.**
Opening a file replaces a last tab that is untitled and holds only white space, also if
it is modified and the session has stored its text (`creation.rs:46`); a test
(`open_entry.rs:310`) asserts it. `EditsAskedFirst` therefore leaves blank untitled
documents out, and them only. In `SessionRestore` an empty text stands for a blank one.
Closing all other tabs while a preview is active leaves `active_tab_id` without a tab
until the next rendering. "Close all other tabs" ignores which tab was clicked.
A bulk close that is cancelled after some removals does not save the session.
Closing one of several windows drops its unsaved texts without a question. With a
database that keeps failing, the last window cannot be closed. A tab sent to a new
window is lost if that window cannot be created (against the comment at `mod.rs:74`), and a
window that was sent away stays registered (`transfer.rs:113`). A file can be open in
two windows, and in two tabs of one if two openings overlap; `TwiceOnlyByOverlap` says
that this is the only way. A request handed to a process that is quitting is lost.

**Views.**
A log tab to which one returns without resuming stays as it was; a read under way
when the view restarts is applied after the restart, so lines show twice; a truncation
is noticed only if the file is then shorter than the offset, and otherwise the new file is
read on from its middle. A task that was told to stop can be the one that notices it, and
empties the display of the task after it. `TailIsShown` excuses what is lacking in these
two cases; that the file is read to its end it claims of these, too.
Moving to the next match uses positions from before an edit. Where the lower case of a
letter has another length, a search that ignores case finds places that match nothing
(`matching.rs:126`): one that begins or ends within the lower case of a letter gets the
offset of that letter, and replacing it inserts text or takes the whole letter.
`ReplacesOccurrences` sets texts apart in which such a place exists (`SplitsALetter`), and
claims the rest, other texts with such letters included. In the table a dialog opened before a reload writes its old cell over the new
text; `ReloadsBeforeFrame = TRUE` makes TLC show it. In the remote path dialog each
refresh sends its request from a task of its own (`remote_path_browser.rs:171`): one that
is overtaken by an earlier request is answered "superseded", and the list keeps that
error until the input changes again. `ListSettles` allows that (`LeftSuperseded`) and
nothing else.

## 5. What is proved

The proofs hold for every value of the constants under the `ASSUME` of the module
(natural numbers, a capacity of at least one), which TLC evaluates in each run.

`StateWriterProofs`: `TypeCorrect`, `NewestKept`, `InOrder`, `ReplyIsTrue`,
`AckedStays` and `NeverBack`, that is all safety properties of `StateWriter`. None
is inductive. `Inv` adds what the threads may hold where: the writer has a snapshot
in its hands only between taking and writing it (`JobInv`); a blocking save is in
exactly one place (`BlockingInv`); while an answer waits nothing else is to be
written (`ReplyInv`); after the last sender is gone nothing is queued
(`ShutdownInv`); numbers grow from the database to the user interface, except that
a blocking save is newer than the mailbox it overtakes (`OrderInv`); and the places
where the newest snapshot can be (`NewestInv`). Each conjunct has a lemma with one
step per action. `InOrder` and `NeverBack` are stronger than what the run lists; TLC
checks their consequences.

`SyncProofs`, of `AccessToken`: `TokenTypeCorrect`, `OneRefresh`, `NoLostWakeup` and
`ClearedIsGone`, for any set of threads. `SingleFlight` and `SleepersAreWoken` are
inductive together: the flag is set in the critical section that found it clear and
cleared in the one that wakes everybody. `ClearedIsGone` needs `KeyInv`: as long as
no clearing overlapped a request, the cached token, every requested one and every
running call are ordered by the key of the last clearing.

`SyncProofs`, of `SyncSession`: `TypeCorrect`, `OneWorker` and `WorkerIsWanted`, for any
number of workers, operations of the user and retries. `NoOrphanWorker` is not inductive: it
speaks of threads that run, and a waiting job starts one later. `OneInv` says the same
of every worker from the step that begins it, together with the fact that a bootstrap
may read the saved settings: as long as no edit failed to be saved, they are the
settings of the window. A retire, a stop and a new worker have a lemma each, which the
edits, the toggles, the deletion and the restarts share.

`UserFilesProofs`, of `StateDb`: `DbTypeCorrect`, `SavesAreRestored` and
`ClosedAreDeleted`, for any processes, any number of windows and any layouts whose tabs
have distinct numbers (`LayoutsAssumption`; a window never hands a `TabId` out twice).
`SavesAreRestored` is about `apply` and `load` together. `WritesTabs` says what `apply_tabs`
leaves whatever rows it finds: a row per tab at its place, one whose fingerprint is the
same included, and the rows of other windows as they were. `WritesWindow` says it of a
window, and `Applies` of a whole snapshot, by induction over the windows written so far
(`Written`), none of which a later one disturbs. `LoadsTabs` is the way back: the rows of a
window are numbered without gaps, so the only order `ORDER BY position, id` allows is the one
they were written in (`Increasing`: a strictly increasing function on `1 .. n` is the
identity). `apply_tabs` compares with the row that is stored, so `RowsInv` has to say that
every row is well formed and every stored window one that was shown. For the deletions
`Claimed` says that a process owns the stored windows it knows, unless another one knows
them: a failed save must not change that, a successful one makes it so, and a launch does
between load and claim.

`UserFilesProofs`, of `ConfigDir`: `ImportedOnce` and `StoredIsShown`, for any sets of
processes and windows. Neither property is inductive. `LegacyInv` adds that as long as no
two starts overlapped (`overlapped`) a process which found no database is alone in having
found that, and nothing was imported while it is there; and that as long as no start
failed or was killed with the file there (`interrupted`), an existing database means that
the session was imported or that someone is about to. `ShownInv` says what holds during a save, when the property says
nothing: every window shows what is stored except the one whose change is being
saved, and that one differs only if the change will be published; that no observer
resets a window to something else then follows. A lemma per group of steps says what
they do to the process that takes them, so that the invariants never see the nested
updates of `proc`. `UserFilesKept` has the properties of these parts and of
`SessionRestore` for the specification that composes them.

`UserFilesProofs`, of `SessionRestore`: `RestoreTypeCorrect`, `UnsavedIsRestored` and
`CleanShowsTheFile`, for any texts, any number of tabs and of changes of the file. Both
properties speak of the step that restores, so what they need is what the rows hold by
then: `SessionStored` says that they are the layout of the session saved last, well
formed, with a state for each of its tabs whose text is kept (`Describes`). A save
establishes that: `OnlyTheChosen` says that the loop over the tabs leaves out none it
should keep, `StatesOfTabs` what `build_tab_states` makes of each, and `SavesOne` that
`apply` stores it whatever the rows were. For the rows to have a key each, the tabs must
have identities of their own, below the next one (`Good`), which every handler keeps and
a restart has to establish again from the highest identity it restored. On the way back
`LoadsOne` and `Reads` give the layout, `RestoredAs` says which tab each state becomes, by
the cases of `determine_tab_restore_strategy`, and `KeptIsRestored` that a state with a
text is never skipped and its text not lost except to a newer file. That the active index
and the baseline of such a tab are wrong (section 4) concerns neither property.

`WindowQueuesProofs`: `RenameReportedOnce`, for any paths, any capacity of the channel and
any number of notifications, and `ShownTwiceOnlyByOverlap`, for any windows, files and
number of requests; `QueuesInvariance` has both for the composed specification. For the
watcher the invariant adds only what the accumulator may hold: the half of a watched path,
stale or not, or nothing, which is never stale. One lemma serves the callback thread and
the timer, since both take the half under the lock. `TwiceOnlyByOverlap` speaks of tabs,
and a request becomes a tab only when its read ends, possibly after others of the same
file. `Sound` therefore relates every two tabs or reads of one file in one window: one of
the two knows the other as a rival. A request that begins to be read finds no tab of its
file and counts the reads under way (`Begins`), which `DispatchBegins` shows of
`do_open_file` for a whole queue at once; a read that ends takes its relations with it
(`ReadSound`). That a request has one tab at most (`Apart`) needs that queued requests are
those that were not read yet.

`FileSyncProofs`: `MarkIsNeverMissing`, `CleanIsWritten` and `OwnEventsAreSuppressed`,
for any paths, texts, tabs and both kinds of watcher. `CleanIsOnDisk` fails to be
inductive because `spawn_local_save` moves the baseline before the executor has written.
`DiskInv` says what the file holds at each stage of a save: the text of the save once it
was written, and before that what was the baseline when it began, to which a failed save
returns. `TabInv` adds that a tab without the mark shows its baseline, and which tab
identities have been used, so that a save of a closed tab is never taken for one of the
next. `SilentInv` says why each event of an own save will be dropped: either the save
that caused it has been written and not yet finished, or it left its path among the recent
ones. The latter two speak of the time before another program touches the file. An error
after the rename belongs to the stage "failed" with the file replaced: `DiskInv` says
nothing then of the tab that was saved until a later write succeeds (`unsettled`), and
`SilentInv` nothing of its event, whose handling ends what it speaks of (`Mistaken`).

`SharesProofs`: `TypeCorrect`, `NoneSkippedForLost` and `QueuesImplementDelivery`, for any
shares, threads, sizes and limits. `SuppressedIsOnItsWay` is inductive with `StageInv`,
what the pass and a synchronization hold in each of their stages. The refinement maps the
copies that wait between fetch and decoder, and those no tab shows yet, to the two bags of
`ShareDelivery`, and each step to a step or a stutter: there is one lemma for the sender,
the stream threads, the synchronization, rendering, the pass, the end of a back-off, and a
relaunch. It needs `SentInv` besides: what is held here was sent, and what is about to be
acknowledged was decoded.

`RemoteFilesProofs`: `SessionsAreExclusive`, `CleanWasOnServer` and `NewestOnly`, for any
number of tasks, requests and edits and any capacity of the pool. `TasksSound` says what a
task may hold: a session only while it works, and a text that its outcome will call good
only if the server had it. `RequestsSound` says that a request has one task or the
password dialog, and that a cancelled save is not the newest one, which `NewestOnly`, an
action property, needs. That a new session is always to be had (`Fresh` chooses one) is a
counting argument: pool and tasks hold fewer sessions than there are numbers. A batch of
outcomes is applied by a recursive function; a lemma shows that it has the expected
values, another that at most one outcome of a batch moves the baseline.

`WorkspaceProofs`: `TypeCorrect`, `ActiveTabExists`, `PreviewsHaveSources` and
`EditsAreAskedFirst`, for any windows, documents and number of tabs. What a handler does to
the list of tabs is a lemma about any window record: `Sound` (no tab twice, an active tab,
a preview only with its editor) is kept by removing a tab, a list of tabs, by showing,
moving and sending one, and by each bulk operation, and each lemma also says which
documents are left. None of that is enough while a tab travels: a window about to
receive a tab must not have it already, and the one that sent it still shows it until it
renders. `Tracked` therefore says that a document has one home at the most: a tab that is
not about to be removed, the slot of a window, or a window that is being created. `Safe`
says that a modified document which can be persisted, and is not a blank untitled one, has
a home or was saved when the session ended. A tab whose place is taken by an opened file
is blank and untitled, which is why it needs no question. Any other removal without a
question can break it, and the lemma of the bulk operations shows that they stop at the
first modified tab (`Swept`).

On induction: the library's theorems take an operator and cannot be used, but the
well-foundedness of the natural numbers can, as a statement about sets of numbers
(`NatSet` in `RemoteFilesProofs`, `WorkspaceProofs` and `UserFilesProofs`). That is enough
for recursion along a sequence, where the set is one a definition names: batches of
outcomes, bulk operations on tabs, the windows of a snapshot, the tabs of a session. It is not for folds over
finite sets.

Model-checked only: all liveness, since fairness and `ENABLED` are outside the prover;
the action properties of the views; and what the functions on texts and records compute
for every input.

## 6. What is left out

Within the modelled components: the contents of migrations, window bounds, the
dialog about texts an encoding loses, the large-file mode of the editor, printing,
titles and notifications, host keys and the parsing of addresses (a session is opened
or is refused, and the user is asked about an unknown host), sending a share and its
compression and encryption (receiving is modelled, with sizes in place of contents),
the network protocols under a request.

Components that are not modelled have the reason in `PROJECT.json`: the keychain and
cryptography (calls of libraries that keep no state here), encodings and text
utilities (functions on characters), languages, rendering, themes and menus (what is
drawn has no state of its own; handlers behind a menu are in the module of what they
act on), and the updater (one request and a notification).

## 7. Plan

Done, in this order: `StateWriter`, `StateRows`, `StateDb`, `SessionRestore`,
`FileWatcher`, `FileSync`, `AccessToken` with the first two proof modules; then
`SyncSession`, `ShareDelivery`, `Shares`, `RemoteFiles`, `Workspace`, the three views,
`PathBrowser`, `OpenRequests`, `ConfigDir`; then the proofs of `ConfigDir`,
`SyncSession` and `FileWatcher`; then `FileSyncProofs`, `SharesProofs` with the refinement,
`RemoteFilesProofs` and `WindowQueuesProofs`; then `WorkspaceProofs` and the proofs of `StateDb` and `SessionRestore`. For the proofs the
queues of `Shares` became bags and the pool of `RemoteFiles` a map, without the functions on
sequences that hid what they do; the password in the key of a pooled session, which the
model had left out, came in with it. In `StateRows` the windows of a snapshot are written
along a recursive function and the rows are read in the order that `ORDER BY` defines;
the loops of `SessionRestore` over tabs became a recursive function as well.

Worth doing next:

1. Sending a share: compression limits, devices that changed meanwhile, partial failure.
2. The dialog about lossy encodings, which saves a text captured when it opened, with
   texts abstracted to "can be encoded" or not.
3. Host keys: an unknown key that is accepted in one of two overlapping sessions.
