---------------------------- MODULE SyncSession ----------------------------
(***************************************************************************)
(* The connection of one server profile (src/fulgur/sync/sse,              *)
(* sync/synchronization/bootstrap.rs, sync/profile_lifecycle.rs and the    *)
(* handlers of the settings tab and of the share sheet).  A restart        *)
(* retires the worker in the slot, puts a new one there and leaves a job   *)
(* on a thread of its own, which synchronizes and only then spawns the     *)
(* thread that reads the event stream.  Stops, edits, deletions, further   *)
(* restarts, cancellations and the device fetch of the share sheet happen  *)
(* meanwhile, and all of them write the one status of the profile.         *)
(* The token is the subject of AccessToken, the shares that of Shares.     *)
(***************************************************************************)
EXTENDS Integers, FiniteSets

CONSTANTS
    MaxWorkers,             \* bound: workers created in a behaviour
    MaxOps,                 \* bound: operations of the user
    TransientRetryAttempts, \* TRANSIENT_RETRY_ATTEMPTS
    FastAttempts            \* SSE_SLOT_BUSY_FAST_ATTEMPTS

ASSUME SyncSessionAssumption ==
    /\ MaxWorkers \in Nat \ {0}
    /\ {MaxOps, TransientRetryAttempts, FastAttempts} \subseteq Nat

Workers == 1..MaxWorkers
NoWorker == 0
NoStatus == "None"

VARIABLES
    settings,     \* the settings of the window: the profile, and master,
                  \* is_synchronization_activated
    saved,        \* the same as last written to disk and shared
    initialized,  \* sync_initialized
    slot,         \* sse.worker
    next,         \* the number of the next worker
    worker,       \* per worker: shutdown flag, the job that starts it, the
                  \* progress indicator's cancel flag, the address it uses
    at,           \* where the stream thread of each worker is
    publishing,   \* the status a thread is about to publish, after it read
                  \* its shutdown flag
    retries,      \* per worker: consecutive failures and fast handoffs
    status,       \* connection_status
    heartbeat,    \* a heartbeat event waits in the channel
    sheet,        \* the share sheet: open, its device fetch, its restart
    ops,          \* how often the user acted
    unapplied     \* history: an edit whose save failed was not applied to
                  \* the connection, or was and is not what is saved

conn == <<worker, at, publishing, retries, slot, next>>
user == <<settings, saved, initialized, ops, unapplied>>
vars == <<conn, user, status, heartbeat, sheet>>

(* SynchronizationStatus; the three errors are one, as in label().         *)
Statuses == {"NotActivated", "Connecting", "Connected", "Disconnected",
             "Error"}
Places == {"none", "top", "connect", "reading", "sleep", "ended"}
Jobs == {"none", "retire", "sync", "start", "report", "failed", "done"}

Least(a, b) == IF a < b THEN a ELSE b
Running(w) == at[w] \notin {"none", "ended"}

(* A worker the profile may still get events from.                         *)
Live(w) == Running(w) /\ ~worker[w].flag

NewWorker == [flag |-> FALSE, job |-> "none", kind |-> "quiet",
              cancelled |-> FALSE, uses |-> 0]

Init ==
    /\ settings \in [exists : {TRUE}, active : BOOLEAN, address : {0},
                     master : BOOLEAN]
    /\ saved = settings
    /\ initialized = FALSE
    /\ slot = NoWorker
    /\ next = 1
    /\ worker = [w \in Workers |-> NewWorker]
    /\ at = [w \in Workers |-> "none"]
    /\ publishing = [w \in Workers |-> NoStatus]
    /\ retries = [w \in Workers |-> [failures |-> 0, handoffs |-> 0]]
    /\ status = "NotActivated"
    /\ heartbeat = FALSE
    /\ sheet = [open |-> FALSE, fetch |-> "idle", reconnect |-> FALSE,
                restart |-> FALSE]
    /\ ops = 0
    /\ unapplied = FALSE

(* get_profile_status: what the settings tab shows of the profile.         *)
ProfileStatus ==
    IF settings.master /\ settings.active THEN status ELSE "NotActivated"

-----------------------------------------------------------------------------
(* The slot of the worker and the two ways to empty it.                    *)

(* Mutant: the retired worker is forgotten and not told to stop.           *)
RetireSilently(wk) == wk

(* signal_shutdown of the worker in the slot, if there is one: prepare_    *)
(* sse_restart and dispose_off_thread.                                     *)
Retire(wk) ==
    [w \in DOMAIN wk |-> IF w = slot THEN [wk[w] EXCEPT !.flag = TRUE]
                         ELSE wk[w]]

(* A fresh Worker in the slot, its job to run on another thread.           *)
Install(kind, job, address) ==
    /\ next \in Workers
    /\ next' = next + 1
    /\ slot' = next
    /\ worker' = [Retire(worker) EXCEPT
                    ![next] = [flag |-> FALSE, job |-> job, kind |-> kind,
                               cancelled |-> FALSE, uses |-> address]]
    /\ UNCHANGED <<at, publishing, retries>>

(* prepare_sse_restart and its two callers.  A profile that is gone or     *)
(* inactive, or a master switch that is off, stops it before any effect.   *)
Restart(kind, set) ==
    IF set.exists /\ set.active /\ set.master
    THEN /\ Install(kind, "retire", set.address)
         /\ status' = IF kind = "progress" THEN "Connecting" ELSE status
    ELSE UNCHANGED <<conn, status>>

(* stop_sse_connection_for.                                                *)
StopConnection ==
    /\ worker' = Retire(worker)
    /\ slot' = NoWorker
    /\ status' = "NotActivated"
    /\ UNCHANGED <<at, publishing, retries, next>>

(* begin_synchronization, by the first window that opens with the master   *)
(* switch on.  It reads the shared settings, and overwrites the slot: the  *)
(* worker that was there is dropped.                                       *)
BeginSynchronization ==
    /\ saved.master /\ ~initialized
    /\ initialized' = TRUE
    /\ IF saved.exists /\ saved.active
       THEN Install("bootstrap", "sync", saved.address) /\ UNCHANGED status
       ELSE UNCHANGED <<conn, status>>
    /\ UNCHANGED <<settings, saved, ops, unapplied, heartbeat, sheet>>

-----------------------------------------------------------------------------
(* What the user does.                                                     *)

Operation ==
    /\ ops < MaxOps
    /\ ops' = ops + 1
    /\ UNCHANGED heartbeat

(* update_profile and update_and_propagate_settings: the window's settings *)
(* change first; if they cannot be written, nothing else happens.          *)
EditProfile(set) ==
    /\ settings.exists
    /\ settings' = set
    /\ \/ /\ saved' = set
          /\ unapplied' = (unapplied /\ set.active /\ ~set.master)
          /\ IF set.active THEN Restart("progress", set) ELSE StopConnection
       \/ /\ unapplied' = TRUE
          /\ UNCHANGED <<saved, conn, status>>
    /\ UNCHANGED <<initialized, sheet>>

(* handle_profile_active_toggle.                                           *)
ToggleProfile ==
    /\ Operation
    /\ EditProfile([settings EXCEPT !.active = ~@])

(* Save in the profile sheet, here of a new address.                       *)
SaveProfile ==
    /\ Operation
    /\ EditProfile([settings EXCEPT !.address = @ + 1])

(* Mutant: the switch reaches only a profile that it turns on.             *)
ToggleMasterOnOnly ==
    /\ Operation
    /\ settings' = [settings EXCEPT !.master = ~@]
    /\ saved' \in {saved, settings'}
    /\ IF settings.exists /\ settings.active
       THEN /\ IF settings'.master THEN Restart("quiet", settings')
               ELSE UNCHANGED <<conn, status>>
            /\ unapplied' = (saved' # settings')
       ELSE /\ unapplied' = (unapplied \/ saved' # settings')
            /\ UNCHANGED <<conn, status>>
    /\ UNCHANGED <<initialized, sheet>>

(* handle_master_toggle: the profiles that are active now are restarted or *)
(* stopped, even if the settings could not be written.                     *)
ToggleMaster ==
    /\ Operation
    /\ settings' = [settings EXCEPT !.master = ~@]
    /\ saved' \in {saved, settings'}
    /\ IF settings.exists /\ settings.active
       THEN /\ IF settings'.master THEN Restart("quiet", settings')
               ELSE StopConnection
            /\ unapplied' = (saved' # settings')
       ELSE /\ unapplied' = (unapplied \/ saved' # settings')
            /\ UNCHANGED <<conn, status>>
    /\ UNCHANGED <<initialized, sheet>>

(* delete_profile: the worker is disposed of and the sync state removed,   *)
(* whether the settings can be written or not.                             *)
DeleteProfile ==
    /\ Operation
    /\ settings.exists
    /\ settings' = [settings EXCEPT !.exists = FALSE]
    /\ saved' \in {saved, settings'}
    /\ unapplied' = (saved' # settings')
    /\ worker' = Retire(worker)
    /\ slot' = NoWorker
    /\ UNCHANGED <<initialized, status, sheet, at, publishing, retries, next>>

(* The observer of the shared settings, which any update of the shared     *)
(* state runs: an edit that could not be saved is undone in the window.    *)
ObserveSettings ==
    /\ settings # saved
    /\ settings' = saved
    /\ UNCHANGED <<saved, initialized, ops, unapplied, conn, status, heartbeat,
                   sheet>>

(* Cancel in the progress indicator, which stays until the work is done.   *)
CancelProgress(w) ==
    /\ Operation
    /\ worker[w].kind = "progress" /\ ~worker[w].cancelled
    /\ worker[w].job \notin {"none", "done"}
    /\ worker' = [worker EXCEPT ![w].cancelled = TRUE]
    /\ status' = "Disconnected"
    /\ UNCHANGED <<settings, saved, initialized, unapplied, at, publishing,
                   retries, slot, next, sheet>>

-----------------------------------------------------------------------------
(* The job of a restart, on its own thread, and the bootstrap of a window. *)

JobStep(w, from, to) ==
    /\ worker[w].job = from
    /\ worker' = [worker EXCEPT
                     ![w].job = to,
                     ![w].kind = IF to = "done" THEN "quiet" ELSE @,
                     ![w].cancelled = (@ /\ to # "done")]
    /\ UNCHANGED <<user, heartbeat, sheet, slot, next, publishing,
                   retries>>

(* SseRestartJob::run: the old worker is joined, or detached after a while;*)
(* then the cancel flag is read, once.                                     *)
RetireOld(w) ==
    /\ JobStep(w, "retire", IF worker[w].cancelled THEN "done" ELSE "sync")
    /\ UNCHANGED <<at, status>>

(* initial_synchronization answers.  A bootstrap shows its result before   *)
(* it starts the stream, a restart after it.                               *)
SyncSucceeds(w) ==
    /\ JobStep(w, "sync", "start")
    /\ status' = IF worker[w].kind = "bootstrap" THEN "Connected" ELSE status
    /\ UNCHANGED at

SyncFails(w) ==
    /\ JobStep(w, "sync",
               IF worker[w].kind = "progress" THEN "failed" ELSE "done")
    /\ status' = IF worker[w].kind = "bootstrap" THEN "Disconnected"
                 ELSE status
    /\ UNCHANGED at

(* start_sse and connect_sse.  Nothing is asked about the hooks: a worker  *)
(* retired meanwhile still gets its thread, which reads the flag first.    *)
StartSse(w) ==
    /\ JobStep(w, "start",
               IF worker[w].kind = "progress" THEN "report" ELSE "done")
    /\ at' = [at EXCEPT ![w] = "top"]
    /\ UNCHANGED status

(* The end of restart_sse_connection_for_with_progress.                    *)
ReportOutcome(w) ==
    /\ \/ JobStep(w, "report", "done") /\ status' = "Connected"
       \/ JobStep(w, "failed", "done") /\ status' = "Error"
    /\ UNCHANGED at

-----------------------------------------------------------------------------
(* The thread of connect_sse.                                              *)

ThreadStep(w) ==
    /\ publishing[w] = NoStatus
    /\ UNCHANGED <<user, status, sheet, worker, slot, next>>

(* publish_connection_status, first half: the shutdown flag.               *)
Publish(w, s) ==
    publishing' = [publishing EXCEPT
                     ![w] = IF worker[w].flag THEN NoStatus ELSE s]

(* Its second half: compare and write.                                     *)
PublishStatus(w) ==
    /\ publishing[w] # NoStatus
    /\ status' = publishing[w]
    /\ publishing' = [publishing EXCEPT ![w] = NoStatus]
    /\ UNCHANGED <<user, heartbeat, sheet, worker, slot, next, at,
                   retries>>

Go(w, place) == at' = [at EXCEPT ![w] = place]

(* The end of the thread and of its local variables.                       *)
NoRetries == [failures |-> 0, handoffs |-> 0]

End(w) ==
    /\ Go(w, "ended")
    /\ retries' = [retries EXCEPT ![w] = NoRetries]
    /\ UNCHANGED <<publishing, heartbeat>>

(* The top of the loop, and get_valid_token.                               *)
LoopTop(w) ==
    /\ ThreadStep(w)
    /\ at[w] = "top"
    /\ \/ worker[w].flag /\ End(w)
       \/ /\ ~worker[w].flag
          /\ \/ Go(w, "connect") /\ UNCHANGED publishing
             \/ /\ Go(w, "sleep") /\ Publish(w, "Error")
          /\ UNCHANGED <<retries, heartbeat>>

(* retry_status: the status to publish after a failure, if any.            *)
RetryStatus(failures) ==
    IF failures > TransientRetryAttempts THEN "Disconnected" ELSE NoStatus

(* One more failure; saturating, as far as the code tells them apart.      *)
Fail(w) ==
    LET failures == Least(retries[w].failures + 1, TransientRetryAttempts + 1)
    IN  /\ retries' = [retries EXCEPT ![w].failures = failures]
        /\ Publish(w, RetryStatus(failures))

(* The server still holds the stream of another worker: 429.  It is not    *)
(* counted as a failure while fast attempts are left.                      *)
SlotBusy(w) ==
    /\ ThreadStep(w)
    /\ at[w] = "connect"
    /\ \E v \in Workers \ {w} : at[v] = "reading"
    /\ \/ worker[w].flag /\ End(w)
       \/ /\ ~worker[w].flag
          /\ IF retries[w].handoffs < FastAttempts
             THEN /\ retries' = [retries EXCEPT ![w].handoffs = @ + 1]
                  /\ UNCHANGED publishing
             ELSE Fail(w)
          /\ Go(w, "sleep")
          /\ UNCHANGED heartbeat

ConnectFails(w) ==
    /\ ThreadStep(w)
    /\ at[w] = "connect"
    /\ \/ worker[w].flag /\ End(w)
       \/ /\ ~worker[w].flag
          /\ Fail(w)
          /\ Go(w, "sleep")
          /\ UNCHANGED heartbeat

(* The version in the answer is below the minimum: not a failure.          *)
ServerTooOld(w) ==
    /\ ThreadStep(w)
    /\ at[w] = "connect"
    /\ Publish(w, "Error")
    /\ Go(w, "sleep")
    /\ UNCHANGED <<retries, heartbeat>>

ConnectSucceeds(w) ==
    /\ ThreadStep(w)
    /\ at[w] = "connect"
    /\ Publish(w, "Connected")
    /\ retries' = [retries EXCEPT ![w] = NoRetries]
    /\ Go(w, "reading")
    /\ UNCHANGED heartbeat

(* Mutant: the shutdown flag is not polled while the stream is read.       *)
StreamEndsUnpolled(w) ==
    /\ ThreadStep(w)
    /\ at[w] = "reading"
    /\ ~worker[w].flag
    /\ Fail(w)
    /\ Go(w, "sleep")
    /\ UNCHANGED heartbeat

(* The read loop: the flag is polled between bytes; the stream ends,       *)
(* fails, or no byte came before the read deadline.                        *)
StreamEnds(w) ==
    /\ ThreadStep(w)
    /\ at[w] = "reading"
    /\ \/ worker[w].flag /\ End(w)
       \/ /\ ~worker[w].flag
          /\ Fail(w)
          /\ Go(w, "sleep")
          /\ UNCHANGED heartbeat

(* A heartbeat is read and goes to the consumer.                           *)
ReadHeartbeat(w) ==
    /\ ThreadStep(w)
    /\ at[w] = "reading" /\ ~worker[w].flag
    /\ heartbeat' = TRUE
    /\ UNCHANGED <<retries, publishing, at>>

(* interruptible_sleep with the delay of the back-off.                     *)
Sleep(w) ==
    /\ ThreadStep(w)
    /\ at[w] = "sleep"
    /\ \/ worker[w].flag /\ End(w)
       \/ /\ ~worker[w].flag
          /\ Go(w, "top")
          /\ UNCHANGED <<retries, publishing, heartbeat>>

(* Mutant: a heartbeat only says that the server is there.                 *)
HandleHeartbeatOnly ==
    /\ heartbeat
    /\ heartbeat' = FALSE
    /\ UNCHANGED <<conn, user, status, sheet>>

(* handle_sse_event_for_profile: a heartbeat restores the status, whatever *)
(* it was and whoever sent it.  (A deleted profile has a fresh sync state, *)
(* which nothing shows.)                                                   *)
HandleHeartbeat ==
    /\ heartbeat
    /\ heartbeat' = FALSE
    /\ status' = IF settings.exists THEN "Connected" ELSE status
    /\ UNCHANGED <<conn, user, sheet>>

-----------------------------------------------------------------------------
(* The share sheet.  Bound: one device fetch at a time.                    *)

(* open_share_file_sheet and spawn_profile_device_fetch.                   *)
OpenShareSheet ==
    /\ Operation
    /\ settings.exists /\ settings.active /\ settings.master
    /\ sheet.fetch = "idle"
    /\ sheet' = [open |-> TRUE, fetch |-> "start",
                 reconnect |-> status # "Connected", restart |-> FALSE]
    /\ status' = "Connecting"
    /\ UNCHANGED <<settings, saved, initialized, unapplied, conn>>

(* Cancel or Share: the sheet is gone, and a restart it asked for with it. *)
CloseShareSheet ==
    /\ sheet.open
    /\ sheet' = [sheet EXCEPT !.open = FALSE, !.restart = FALSE]
    /\ UNCHANGED <<user, status, conn, heartbeat>>

(* The fetch: nothing if the sheet was closed before it ran; else          *)
(* reconnect if the profile was not connected, and then ask for devices.   *)
FetchStarts ==
    /\ sheet.fetch = "start"
    /\ sheet' = [sheet EXCEPT !.fetch =
                   IF ~sheet.open THEN "idle"
                   ELSE IF sheet.reconnect THEN "sync" ELSE "devices"]
    /\ UNCHANGED <<user, status, conn, heartbeat>>

FetchSynchronizes ==
    /\ sheet.fetch = "sync"
    /\ \/ /\ sheet' = [sheet EXCEPT !.fetch = "devices"]
          /\ status' = "Connected"
       \/ /\ sheet' = [sheet EXCEPT !.fetch = "idle"]
          /\ status' = "Error"
    /\ UNCHANGED <<user, conn, heartbeat>>

FetchDevices ==
    /\ sheet.fetch = "devices"
    /\ \/ /\ status' = "Connected"
          /\ sheet' = [sheet EXCEPT !.fetch = "idle",
                                    !.restart = sheet.open /\ sheet.reconnect]
       \/ /\ sheet' = [sheet EXCEPT !.fetch = "idle"]
          /\ UNCHANGED status
    /\ UNCHANGED <<user, conn, heartbeat>>

(* process_pending_share_sheet, on each render.                            *)
ProcessPendingShareSheet ==
    /\ sheet.open /\ sheet.restart
    /\ sheet' = [sheet EXCEPT !.restart = FALSE]
    /\ Restart("quiet", settings)
    /\ UNCHANGED <<user, heartbeat>>

-----------------------------------------------------------------------------
Job(w) == RetireOld(w) \/ SyncSucceeds(w) \/ SyncFails(w) \/ StartSse(w)
            \/ ReportOutcome(w)

Thread(w) == LoopTop(w) \/ SlotBusy(w) \/ ConnectFails(w) \/ ServerTooOld(w)
               \/ ConnectSucceeds(w) \/ ReadHeartbeat(w)
               \/ StreamEnds(w) \/ Sleep(w) \/ PublishStatus(w)

Fetch == FetchStarts \/ FetchSynchronizes \/ FetchDevices

Next ==
    \/ BeginSynchronization
    \/ ToggleProfile \/ SaveProfile \/ ToggleMaster \/ DeleteProfile
    \/ ObserveSettings
    \/ OpenShareSheet \/ CloseShareSheet \/ ProcessPendingShareSheet
    \/ Fetch
    \/ HandleHeartbeat
    \/ \E w \in Workers : CancelProgress(w) \/ Job(w) \/ Thread(w)

(* The threads run and requests end (the agents have time-outs), and the   *)
(* executor polls the consumer.  Nothing is asked of the user.  A stream   *)
(* that stays open has heartbeats: without a byte it is ended after a      *)
(* minute.                                                                 *)
Fairness ==
    /\ WF_vars(HandleHeartbeat)
    /\ WF_vars(\E w \in Workers : ReadHeartbeat(w))
    /\ \A w \in Workers : WF_vars(Thread(w))

Spec == Init /\ [][Next]_vars /\ Fairness

-----------------------------------------------------------------------------
TypeOK ==
    /\ {settings, saved} \subseteq [exists : BOOLEAN, active : BOOLEAN,
                                    address : 0..MaxOps, master : BOOLEAN]
    /\ {initialized, heartbeat, unapplied} \subseteq BOOLEAN
    /\ slot \in Workers \cup {NoWorker}
    /\ next \in 1..(MaxWorkers + 1)
    /\ worker \in [Workers -> [flag : BOOLEAN, job : Jobs,
                                kind : {"quiet", "progress", "bootstrap"},
                                cancelled : BOOLEAN, uses : 0..MaxOps]]
    /\ at \in [Workers -> Places]
    /\ publishing \in [Workers -> Statuses \cup {NoStatus}]
    /\ retries \in [Workers -> [failures : 0..(TransientRetryAttempts + 1),
                                 handoffs : 0..FastAttempts]]
    /\ status \in Statuses
    /\ sheet \in [open : BOOLEAN, fetch : {"idle", "start", "sync", "devices"},
                   reconnect : BOOLEAN, restart : BOOLEAN]
    /\ ops \in 0..MaxOps

(* However restarts, stops, deletions and bootstraps overlap, a worker     *)
(* that was not told to stop is the one in the slot, where the next stop   *)
(* finds it; so there is at most one (restart.rs, bootstrap.rs).           *)
NoOrphanWorker == \A w \in Workers : Live(w) => slot = w

(* The live worker serves the profile as the window has it: it is there,   *)
(* active, the master switch is on and the address is the current one.     *)
(* Only an edit whose settings could not be saved may have missed it.      *)
LiveWorkerIsWanted ==
    \A w \in Workers : Live(w) /\ ~unapplied =>
        settings.exists /\ settings.active /\ settings.master
        /\ worker[w].uses = settings.address

(* A worker that was told to stop ends, wherever its thread was and also   *)
(* if its thread was spawned afterwards (Worker, interruptible_sleep).     *)
RetiredWorkersEnd ==
    []<>(\A w \in Workers : worker[w].flag => ~Running(w))

(* A stream that stays open is shown as connected in the end, whatever     *)
(* late outcomes of other jobs, of a cancelled restart or of a device      *)
(* fetch were written over it: heartbeats restore the status (events.rs).  *)
OpenStreamIsShown ==
    <>[](/\ settings.exists /\ settings.active /\ settings.master
         /\ \E w \in Workers : at[w] = "reading" /\ slot = w)
        => <>[](ProfileStatus = "Connected")

(* "Master switch for synchronization.  When off, all connections to       *)
(* Fulgurant instances are disabled." (the text beside the switch,         *)
(* sync_controls.rs).                                                      *)
MasterOffDisconnects == ~settings.master => \A w \in Workers : ~Live(w)
=============================================================================
