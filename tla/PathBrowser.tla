---------------------------- MODULE PathBrowser ----------------------------
(***************************************************************************)
(* The dialog in which a file is picked, by its local path or on a remote  *)
(* host (src/src/fulgur/ui/dialogs/path_browser.rs, open_path.rs,          *)
(* remote_path_browser.rs, open_remote.rs, file_browser.rs).               *)
(*                                                                         *)
(* The list under the input follows it late: a change starts a timer, the  *)
(* timer of the last change starts a listing, the last listing started is  *)
(* shown.  Local listings run side by side.  Remote ones go through one    *)
(* thread that works off a channel, and answers every request but the one  *)
(* sent last with an error.                                                *)
(*                                                                         *)
(* A list of entries is named by the input it was read for.  What          *)
(* parse_input_path makes of an input, and how entries are filtered and    *)
(* sorted, are part of that name; the host and its sessions are left out:  *)
(* a listing gives entries or an error (RemoteFiles has the pool).         *)
(***************************************************************************)
EXTENDS Integers, Sequences, FiniteSets

CONSTANTS
    Inputs,         \* what the input may hold
    MaxTyped        \* bound: changes of the input

ASSUME PathBrowserAssumption ==
    /\ Inputs # {}
    /\ MaxTyped \in Nat

VARIABLES
    remote,       \* the dialog browses a remote host
    browsing,     \* the dialog is open
    typed,        \* the input
    debounce,     \* debounce_generation
    timers,       \* the generations whose timer is running
    refresh,      \* refresh_generation
    tasks,        \* the task of each refresh: [step, for, result]
    sends,        \* the worker's channel: requests, by refresh
    worker,       \* the worker thread: [step, request, attempt]
    listed,       \* what the dialog shows: [for, error, loading]
    overtaken     \* history: refreshes an earlier one was sent after

dialogVars == <<remote, browsing, typed, debounce, timers, refresh>>
browserVars == <<dialogVars, tasks, sends, worker, listed, overtaken>>

Refresh == 1 .. MaxTyped + 1
NoInput == "no input"
NoError == "none"
Superseded == "superseded"
ListingFailed == "listing failed"
NoTask == [step |-> "none", for |-> NoInput, result |-> NoError]
Idle == [step |-> "idle", request |-> 0, attempt |-> 0]

\* The latest refresh is the only one whose answer is shown.
Started(ts, r, input) == [ts EXCEPT ![r] = [NoTask EXCEPT !.step = "started", !.for = input]]
Loading(l) == [l EXCEPT !.error = NoError, !.loading = TRUE]

\* dispatch_refresh
Dispatches(input) ==
    /\ refresh' = refresh + 1
    /\ tasks' = Started(tasks, refresh', input)
    /\ listed' = IF remote THEN Loading(listed) ELSE listed

\* A remote dialog that is given entries shows them; any other starts by
\* listing.
BrowserInit ==
    /\ remote \in BOOLEAN
    /\ browsing = TRUE
    /\ typed \in Inputs
    /\ debounce = 0 /\ timers = {}
    /\ \/ /\ remote
          /\ refresh = 0
          /\ tasks = [r \in Refresh |-> NoTask]
          /\ listed = [for |-> typed, error |-> NoError, loading |-> FALSE]
       \/ /\ refresh = 1
          /\ tasks = Started([r \in Refresh |-> NoTask], 1, typed)
          /\ listed = [for |-> NoInput, error |-> NoError, loading |-> remote]
    /\ sends = <<>>
    /\ worker = Idle
    /\ overtaken = {}
-----------------------------------------------------------------------------
(* The user types a path, or clicks an entry. *)

\* schedule_refresh
Schedules(input) ==
    /\ debounce < MaxTyped
    /\ typed' = input
    /\ debounce' = debounce + 1
    /\ timers' = timers \cup {debounce'}
    /\ UNCHANGED <<remote, browsing, refresh, tasks, sends, worker, listed, overtaken>>

InputChanges(input) == browsing /\ input # typed /\ Schedules(input)

\* The path of an entry becomes the input, which counts as changed even if it
\* is the same.
EntryClicked(input) == browsing /\ listed.for # NoInput /\ Schedules(input)

\* Open with a path that will do, or Cancel: the browser is dropped.
BrowserDropped ==
    /\ browsing
    /\ browsing' = FALSE
    /\ UNCHANGED <<remote, typed, debounce, timers, refresh, tasks, sends, worker, listed, overtaken>>

LocalDialogEnds == ~remote /\ BrowserDropped
RemoteDialogEnds == remote /\ BrowserDropped
-----------------------------------------------------------------------------
\* A timer that is not the latest, or whose browser is gone, does nothing.
TimerEnds(g) ==
    /\ g \in timers
    /\ timers' = timers \ {g}
    /\ IF browsing /\ g = debounce
       THEN Dispatches(typed)
       ELSE UNCHANGED <<refresh, tasks, listed>>
    /\ UNCHANGED <<remote, browsing, typed, debounce, sends, worker, overtaken>>

Answered(ts, r, result) == [ts EXCEPT ![r].step = "answered", ![r].result = result]

\* read_and_filter_entries: a directory that cannot be read has no entries.
ListLocal(r) ==
    /\ ~remote
    /\ tasks[r].step = "started"
    /\ tasks' = Answered(tasks, r, NoError)
    /\ UNCHANGED <<dialogVars, sends, worker, listed, overtaken>>

\* Every refresh sends from a background task of its own, in no order.
SendRequest(r) ==
    /\ remote
    /\ tasks[r].step = "started"
    /\ tasks' = [tasks EXCEPT ![r].step = "sent"]
    /\ sends' = Append(sends, r)
    /\ overtaken' = overtaken \cup {o \in r + 1 .. refresh : tasks[o].step # "started"}
    /\ UNCHANGED <<dialogVars, worker, listed>>

\* The answer, applied unless a later refresh was started.
ShownAnyway(r) ==
    /\ tasks[r].step = "answered"
    /\ tasks' = [tasks EXCEPT ![r].step = "ended"]
    /\ listed' = IF browsing
                 THEN [for     |-> IF tasks[r].result = NoError THEN tasks[r].for ELSE NoInput,
                       error   |-> tasks[r].result,
                       loading |-> FALSE]
                 ELSE listed
    /\ UNCHANGED <<dialogVars, sends, worker, overtaken>>

ShowAnswer(r) ==
    /\ tasks[r].step = "answered"
    /\ tasks' = [tasks EXCEPT ![r].step = "ended"]
    /\ listed' = IF browsing /\ r = refresh
                 THEN [for     |-> IF tasks[r].result = NoError THEN tasks[r].for ELSE NoInput,
                       error   |-> tasks[r].result,
                       loading |-> FALSE]
                 ELSE listed
    /\ UNCHANGED <<dialogVars, sends, worker, overtaken>>
-----------------------------------------------------------------------------
(* spawn_browser_worker *)

\* The worker empties the channel and keeps the request that was sent last.
TakeRequest ==
    /\ worker.step = "idle"
    /\ sends # <<>>
    /\ LET latest == sends[Len(sends)]
       IN /\ worker' = [step |-> "listing", request |-> latest, attempt |-> 0]
          /\ tasks' = [r \in Refresh |->
                IF \E i \in 1 .. Len(sends) - 1 : sends[i] = r
                THEN [tasks[r] EXCEPT !.step = "answered", !.result = Superseded]
                ELSE tasks[r]]
    /\ sends' = <<>>
    /\ UNCHANGED <<dialogVars, listed, overtaken>>

\* list_entries_for_input: the first failure of a session invalidates it and
\* the listing is tried once more; a session that cannot be had is an error.
ListingEnds(result) ==
    /\ worker.step = "listing"
    /\ tasks' = Answered(tasks, worker.request, result)
    /\ worker' = Idle
    /\ UNCHANGED <<dialogVars, sends, listed, overtaken>>

ListingRetried ==
    /\ worker.step = "listing" /\ worker.attempt = 0
    /\ worker' = [worker EXCEPT !.attempt = 1]
    /\ UNCHANGED <<dialogVars, tasks, sends, listed, overtaken>>

\* The channel closes with its last sender: the browser and the tasks that
\* have no answer yet hold one each.
WorkerEnds ==
    /\ remote
    /\ worker.step = "idle" /\ sends = <<>>
    /\ ~browsing /\ \A r \in Refresh : tasks[r].step \notin {"started", "sent"}
    /\ worker' = [Idle EXCEPT !.step = "ended"]
    /\ UNCHANGED <<dialogVars, tasks, sends, listed, overtaken>>
-----------------------------------------------------------------------------
BrowserTask(r) == ListLocal(r) \/ SendRequest(r) \/ ShowAnswer(r)
Listing == ListingRetried \/ \E e \in {NoError, ListingFailed} : ListingEnds(e)
WorkerStep == TakeRequest \/ Listing \/ WorkerEnds

BrowserNext ==
    \/ \E i \in Inputs : InputChanges(i) \/ EntryClicked(i)
    \/ LocalDialogEnds \/ RemoteDialogEnds
    \/ \E g \in 1 .. MaxTyped : TimerEnds(g)
    \/ \E r \in Refresh : BrowserTask(r)
    \/ WorkerStep

\* Timers fire, tasks run, and a listing answers or fails (SSH has timeouts).
BrowserFairness ==
    /\ \A g \in 1 .. MaxTyped : WF_browserVars(TimerEnds(g))
    /\ \A r \in Refresh : WF_browserVars(BrowserTask(r))
    /\ WF_browserVars(WorkerStep)

BrowserSpec == BrowserInit /\ [][BrowserNext]_browserVars /\ BrowserFairness
-----------------------------------------------------------------------------
(* What must hold. *)

BrowserTypeOK ==
    /\ typed \in Inputs
    /\ debounce \in 0 .. MaxTyped /\ timers \subseteq 1 .. debounce
    /\ refresh \in 0 .. debounce + 1
    /\ \A i \in DOMAIN sends : tasks[sends[i]].step = "sent"
    /\ worker.step = "listing" => tasks[worker.request].step = "sent"
    /\ browsing /\ listed.loading => remote /\ tasks[refresh].step # "ended"

Settled ==
    /\ ~listed.loading
    /\ \/ listed.error = NoError /\ listed.for = typed
       \/ listed.error = ListingFailed /\ listed.for = NoInput

\* While the dialog stays open, its list comes back to the input as it stands,
\* or says why it cannot be had: it does not stay that of an earlier input or go
\* on loading.  The refresh tasks of a remote dialog send in no order, so the
\* latest request may be in the channel before an earlier one, and gets the
\* error meant for a request that was superseded: the list keeps that error
\* then, until the input changes again, and in no other case.
LeftSuperseded ==
    /\ listed = [for |-> NoInput, error |-> Superseded, loading |-> FALSE]
    /\ refresh \in overtaken
ListSettles == []<>(Settled \/ LeftSuperseded \/ ~browsing)
=============================================================================
