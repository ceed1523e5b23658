---------------------------- MODULE RemoteFiles ----------------------------
(***************************************************************************)
(* One tab on a remote file, restored from the state database.  Every read *)
(* or write over SSH is a task of two halves: a worker thread that checks  *)
(* out or opens a session, works and publishes one outcome, and a monitor  *)
(* on the UI executor that delivers it, shows the question about an        *)
(* unknown host key, notices a cancel and gives up at a deadline.  The     *)
(* window remembers the newest request of the tab and drops outcomes of    *)
(* older ones; the process keeps passwords and idle sessions.              *)
(*                                                                         *)
(* A text is a number: Placeholder is the empty text a restored tab holds  *)
(* until it is loaded, Initial what the server has at the start, Restored  *)
(* an unsaved text the state database kept, Torn a half-written file, the  *)
(* others are typed.  Modal dialogs keep the user from the window below.   *)
(* Left out: files opened in a new tab (PathBrowser), tabs that were       *)
(* decoded lossily, other users of the host.                               *)
(***************************************************************************)
EXTENDS Naturals, Sequences, FiniteSets

CONSTANTS
  Task,         \* slots for tasks that run at the same time
  MaxRequests,  \* bound: how often the user starts something
  MaxEdits,     \* bound: how many texts are typed
  PoolCapacity  \* SSH_SESSION_POOL_CAPACITY

ASSUME BoundsAssumption ==
  /\ Task \subseteq Nat /\ IsFiniteSet(Task)
  /\ MaxRequests \in Nat /\ MaxEdits \in Nat
  /\ PoolCapacity \in Nat \ {0}

Placeholder == 0
Initial == 1
Restored == 2
Typed == 3 .. (2 + MaxEdits)
Torn == 3 + MaxEdits
Text == 0 .. Torn

NoRequest == 0
Request == 0 .. MaxRequests
NoSession == 0
\* Sessions to the host of the tab, and the idle one to another host that the
\* pool starts out with.
Host == {"home", "elsewhere"}
\* Every session is in the pool or with a task: so many are enough.
SessionId == 1 .. (Cardinality(Host) + Cardinality(Task))

VARIABLES
  server,    \* text of the file on the server
  stored,    \* history: every text the server has had
  ui,        \* the tab: shown before, its text, restore markers, newest requests
  edits,     \* number of texts typed so far
  requests,  \* next_remote_request_id
  password,  \* ssh_session_cache of the host: "none", "good" or "bad"
  known,     \* the host key is in known_hosts
  pool,      \* the idle session to each host, or NoSession
  dialog,    \* the password dialog and what it will go on with
  task,
  outcomes   \* pending_remote_open

vars == <<server, stored, ui, edits, requests, password, known, pool, dialog,
          task, outcomes>>

Kind == {"reload", "save"}
Place == {"checkout", "hostkey", "work", "direct", "publish", "push", "end"}

Idle == [kind |-> "none", request |-> NoRequest, text |-> Placeholder,
         password |-> "none", place |-> "end", ok |-> FALSE,
         monitor |-> FALSE, hostKey |-> "none", cancelled |-> FALSE,
         finished |-> FALSE, slot |-> "none", session |-> NoSession]

NoDialog == [kind |-> "none", request |-> NoRequest, text |-> Placeholder]

Closed == [open |-> FALSE, text |-> Placeholder, base |-> Placeholder,
           modified |-> FALSE]

\* The hosts with an idle session.
Pooled(p) == {h \in Host : p[h] # NoSession}

TypeOK ==
  /\ server \in Text /\ stored \subseteq Text
  /\ ui \in [active : BOOLEAN,
             tab : [open : BOOLEAN, text : Text, base : Text,
                    modified : BOOLEAN],
             restore : SUBSET {"pending", "inflight"},
             latest : [open : Request, save : Request]]
  /\ edits \in 0 .. MaxEdits /\ requests \in Request
  /\ password \in {"none", "good", "bad"} /\ known \in BOOLEAN
  /\ pool \in [Host -> SessionId \cup {NoSession}]
  /\ Cardinality(Pooled(pool)) <= PoolCapacity
  /\ dialog \in [kind : Kind \cup {"none"}, request : Request, text : Text]
  /\ task \in [Task ->
       [kind : Kind \cup {"none"}, request : Request, text : Text,
        password : {"none", "good", "bad"}, place : Place, ok : BOOLEAN,
        monitor : BOOLEAN, hostKey : {"none", "posted", "shown", "rejected"},
        cancelled : BOOLEAN, finished : BOOLEAN,
        slot : {"none", "ok", "error"}, session : SessionId \cup {NoSession}]]
  /\ outcomes \in Seq([request : Request, ok : BOOLEAN, text : Text])

(***************************************************************************)
(* The tab comes from the state database: clean, with the placeholder, or  *)
(* modified, with the text the database kept, which is then its baseline.  *)
(***************************************************************************)
Init ==
  /\ server = Initial /\ stored = {Initial}
  /\ \E modified \in BOOLEAN :
       LET text == IF modified THEN Restored ELSE Placeholder
       IN ui = [active |-> FALSE,
                tab |-> [open |-> TRUE, text |-> text, base |-> text,
                         modified |-> modified],
                restore |-> {"pending"},
                latest |-> [open |-> NoRequest, save |-> NoRequest]]
  /\ edits = 0 /\ requests = 0
  /\ password = "none" /\ known = FALSE
  /\ pool = [h \in Host |-> IF h = "elsewhere" THEN 1 ELSE NoSession]
  /\ dialog = NoDialog
  /\ task = [t \in Task |-> Idle]
  /\ outcomes = <<>>

----------------------------------------------------------------------------
(* The session pool: a map from host and credentials to an idle session.  Only *)
(* a good password ever opened one.  When a session was last used is left out: *)
(* any may be stale, and any may be the oldest.                                *)

\* evict_stale: sessions that idled too long are dropped.
EvictStale(p) ==
  {[h \in Host |-> IF h \in stale THEN NoSession ELSE p[h]] : stale \in SUBSET Host}

\* put: a full pool drops its oldest session first, then the key's own
\* session is replaced.
Put(p, id) ==
  {[h \in Host |-> IF h = "home" THEN id
                   ELSE IF h \in oldest THEN NoSession ELSE p[h]] :
     oldest \in IF Cardinality(Pooled(p)) >= PoolCapacity
                THEN {{h} : h \in Pooled(p)} ELSE {{}}}

\* take finds a session only under the password that opened it.
Finds(t, p) == task[t].password = "good" /\ p["home"] # NoSession

Fresh == CHOOSE id \in SessionId :
           /\ \A h \in Host : pool[h] # id
           /\ \A t \in Task : task[t].session # id

----------------------------------------------------------------------------
(* Starting a task *)

\* The window's own actions need the window: no dialog lies over it.
WindowFree ==
  /\ dialog = NoDialog
  /\ \A t \in Task : task[t].hostKey # "shown"

MayAsk == WindowFree /\ requests < MaxRequests

\* spawn_ssh_task: progress notification, worker thread and monitor.  Which
\* free slot is used makes no difference.
Start(kind, request, text, pw) ==
  \E t \in Task :
    /\ task[t] = Idle
    /\ \A u \in Task : task[u] = Idle => t <= u
    /\ task' = [task EXCEPT ![t] =
         [Idle EXCEPT !.kind = kind, !.request = request, !.text = text,
                      !.password = pw, !.place = "checkout",
                      !.monitor = TRUE]]

\* What spawn_ssh_open_task and save_remote_file note in the window.
Noted(w, kind, request) ==
  IF kind = "reload" THEN [w EXCEPT !.restore = @ \cup {"inflight"}]
                     ELSE [w EXCEPT !.latest.save = request]

\* With a password at hand the task starts, otherwise the user is asked.
StartOrAsk(w, kind, request, text) ==
  /\ requests' = requests + 1
  /\ \/ /\ password # "none"
        /\ Start(kind, request, text, password)
        /\ ui' = Noted(w, kind, request)
        /\ UNCHANGED dialog
     \/ /\ password = "none"
        /\ dialog' = [kind |-> kind, request |-> request, text |-> text]
        /\ ui' = w
        /\ UNCHANGED task

\* set_active_tab, the only way to a restored tab: one that is not loaded
\* yet is reloaded, and the request is noted before a password is asked for.
SetActiveTab ==
  /\ ui.tab.open
  /\ IF "pending" \in ui.restore /\ "inflight" \notin ui.restore
        /\ ~ui.tab.modified
     THEN /\ MayAsk
          /\ LET request == requests + 1
             IN StartOrAsk([ui EXCEPT !.active = TRUE, !.latest.open = request],
                           "reload", request, Placeholder)
     ELSE /\ ~ui.active
          /\ ui' = [ui EXCEPT !.active = TRUE]
          /\ UNCHANGED <<requests, dialog, task>>
  /\ UNCHANGED <<server, stored, edits, password, known, pool, outcomes>>

\* save_file on the tab; nothing asks whether the tab was ever loaded, nor
\* whether a save of it is under way.
SaveFile ==
  /\ MayAsk /\ ui.tab.open /\ ui.active
  /\ StartOrAsk(ui, "save", requests + 1, ui.tab.text)
  /\ UNCHANGED <<server, stored, edits, password, known, pool, outcomes>>

\* The password dialog is confirmed: the password is cached before anything
\* has tried it.
ConfirmPassword ==
  /\ dialog # NoDialog
  /\ \E pw \in {"good", "bad"} :
       /\ password' = pw
       /\ Start(dialog.kind, dialog.request, dialog.text, pw)
  /\ ui' = Noted(ui, dialog.kind, dialog.request)
  /\ dialog' = NoDialog
  /\ UNCHANGED <<server, stored, edits, requests, known, pool, outcomes>>

DismissPassword ==
  /\ dialog # NoDialog
  /\ dialog' = NoDialog
  /\ UNCHANGED <<server, stored, ui, edits, requests, password, known, pool,
                 task, outcomes>>

----------------------------------------------------------------------------
(* The tab *)

\* A text is typed, or the changes are undone: modified follows the baseline.
Edit ==
  /\ WindowFree /\ ui.tab.open /\ ui.active
  /\ \/ /\ edits < MaxEdits /\ edits' = edits + 1
        /\ ui' = [ui EXCEPT !.tab.text = 3 + edits, !.tab.modified = TRUE]
     \/ /\ ui.tab.text # ui.tab.base
        /\ ui' = [ui EXCEPT !.tab.text = ui.tab.base, !.tab.modified = FALSE]
        /\ UNCHANGED edits
  /\ UNCHANGED <<server, stored, requests, password, known, pool, dialog,
                 task, outcomes>>

RemoveTab ==
  /\ WindowFree /\ ui.tab.open
  /\ ui' = [ui EXCEPT !.tab = Closed, !.restore = {},
                      !.latest = [open |-> NoRequest, save |-> NoRequest]]
  /\ UNCHANGED <<server, stored, edits, requests, password, known, pool,
                 dialog, task, outcomes>>

----------------------------------------------------------------------------
(* The worker thread *)

\* Without its monitor a task matters only through what its thread still
\* does to the server, the pool and the caches, and through an outcome it
\* has already decided to push; the slot is free when nothing is left.
Cleared(r) ==
  CASE r.monitor \/ (r.place = "push" /\ r.kind = "reload") -> r
    [] ~r.monitor /\ (r.place \in {"publish", "end"}
                      \/ (r.place = "push" /\ r.kind = "save")) -> Idle
    [] OTHER -> [r EXCEPT !.request = NoRequest, !.ok = FALSE,
                          !.cancelled = FALSE, !.finished = TRUE]

Moves(t, r) == task' = [task EXCEPT ![t] = Cleared(r)]

OnlyThread == UNCHANGED <<ui, edits, requests, dialog>>

Failed(r) == [r EXCEPT !.ok = FALSE, !.place = "publish", !.hostKey = "none"]

\* userauth_password and the SFTP channel.  A refused password is dropped
\* from the cache, whatever the cache holds by now.
Authenticate(t) ==
  \/ /\ task[t].password = "good"
     /\ \/ Moves(t, [task[t] EXCEPT !.place = "work", !.hostKey = "none",
                                    !.session = Fresh])
        \/ Moves(t, Failed(task[t]))
     /\ UNCHANGED password
  \/ /\ task[t].password = "bad"
     /\ Moves(t, Failed(task[t]))
     /\ password' = "none"

\* TCP, handshake and the look at known_hosts.
Connect(t) ==
  \/ /\ Moves(t, Failed(task[t]))
     /\ UNCHANGED password
  \/ /\ known
     /\ Authenticate(t)
  \/ /\ ~known
     /\ Moves(t, [task[t] EXCEPT !.place = "hostkey", !.hostKey = "posted"])
     /\ UNCHANGED password

\* Mutant: take leaves the session in the pool.
CheckoutShared(t) ==
  /\ task[t].place = "checkout"
  /\ \E left \in EvictStale(pool) :
       /\ pool' = left
       /\ \/ ~Finds(t, left) /\ Connect(t)
          \/ /\ Finds(t, left)
             /\ Moves(t, [task[t] EXCEPT !.place = "work",
                                         !.session = left["home"]])
             /\ UNCHANGED password
  /\ OnlyThread
  /\ UNCHANGED <<server, stored, known, outcomes>>

\* take removes an idle session to the host from the pool; without one, or
\* when it is no longer authenticated, a new connection is made.
CheckoutOrConnect(t) ==
  /\ task[t].place = "checkout"
  /\ \E left \in EvictStale(pool) :
       \/ ~Finds(t, left) /\ pool' = left /\ Connect(t)
       \/ /\ Finds(t, left)
          /\ pool' = [left EXCEPT !["home"] = NoSession]
          /\ \/ /\ Moves(t, [task[t] EXCEPT !.place = "work",
                                            !.session = left["home"]])
                /\ UNCHANGED password
             \/ Connect(t)
  /\ OnlyThread
  /\ UNCHANGED <<server, stored, known, outcomes>>

\* The answer to the question, or none in time.
TrustHostKey(t) ==
  /\ task[t].place = "hostkey" /\ task[t].hostKey = "shown"
  /\ known' = TRUE
  /\ Authenticate(t)
  /\ OnlyThread
  /\ UNCHANGED <<server, stored, pool, outcomes>>

NoHostKey(t) ==
  /\ task[t].place = "hostkey"
  /\ Moves(t, Failed(task[t]))
  /\ OnlyThread
  /\ UNCHANGED <<server, stored, password, known, pool, outcomes>>

\* The guard of the session is dropped after the work: back to the pool, or
\* thrown away when the work failed.
WorkDone(t, ok, text) ==
  /\ IF ok
     THEN \E left \in EvictStale(pool) : pool' \in Put(left, task[t].session)
     ELSE UNCHANGED pool
  /\ Moves(t, [task[t] EXCEPT !.ok = ok, !.text = text, !.place = "publish",
                              !.session = NoSession])

Stores(text) == server' = text /\ stored' = stored \cup {text}

\* read_remote_file.
Read(t) ==
  /\ task[t].place = "work" /\ task[t].kind = "reload"
  /\ \/ WorkDone(t, TRUE, server)
     \/ WorkDone(t, FALSE, Placeholder)
  /\ OnlyThread
  /\ UNCHANGED <<server, stored, password, known, outcomes>>

\* write_remote_file: a temporary file, renamed over the destination; a
\* server that refuses every rename is written to directly, after the
\* destination was truncated.
WriteTemporary(t) ==
  /\ task[t].place = "work" /\ task[t].kind = "save"
  /\ \/ /\ Stores(task[t].text)
        /\ WorkDone(t, TRUE, task[t].text)
     \/ /\ Stores(Torn)
        /\ Moves(t, [task[t] EXCEPT !.place = "direct"])
        /\ UNCHANGED pool
     \/ /\ WorkDone(t, FALSE, task[t].text)
        /\ UNCHANGED <<server, stored>>
  /\ OnlyThread
  /\ UNCHANGED <<password, known, outcomes>>

DirectWrite(t) ==
  /\ task[t].place = "direct"
  /\ \/ /\ Stores(task[t].text)
        /\ WorkDone(t, TRUE, task[t].text)
     \/ /\ WorkDone(t, FALSE, task[t].text)
        /\ UNCHANGED <<server, stored>>
  /\ OnlyThread
  /\ UNCHANGED <<password, known, outcomes>>

\* A cancelled task only tells its monitor that it is through.  Otherwise
\* the first to swap the flag wins (publish_remote_open_outcome,
\* publish_remote_save_outcome), and leaves its outcome in a second step.
SwapFinished(t) ==
  /\ task[t].place = "publish"
  /\ Moves(t, [task[t] EXCEPT !.finished = TRUE,
                 !.place = IF task[t].cancelled \/ task[t].finished
                           THEN "end" ELSE "push"])
  /\ OnlyThread
  /\ UNCHANGED <<server, stored, password, known, pool, outcomes>>

Outcome(r, ok) == [request |-> r.request, ok |-> ok, text |-> r.text]

PushOutcome(t) ==
  /\ task[t].place = "push"
  /\ \/ /\ task[t].kind = "save"
        /\ Moves(t, [task[t] EXCEPT
                       !.slot = IF task[t].ok THEN "ok" ELSE "error",
                       !.place = "end"])
        /\ UNCHANGED outcomes
     \/ /\ task[t].kind = "reload"
        /\ Moves(t, [task[t] EXCEPT !.place = "end"])
        /\ outcomes' = Append(outcomes, Outcome(task[t], task[t].ok))
  /\ OnlyThread
  /\ UNCHANGED <<server, stored, password, known, pool>>

----------------------------------------------------------------------------
(* The monitor, the progress notification and the render loop *)

OnlyWindow == UNCHANGED <<server, stored, edits, requests, password, known,
                          pool, dialog>>

\* Mutant: a saved tab is clean, whatever was typed since.
SavedAsShown(w, r, ok) ==
  IF w.latest.save # r.request THEN w
  ELSE LET settled == [w EXCEPT !.latest.save = NoRequest]
       IN IF ok /\ w.tab.open
          THEN [settled EXCEPT !.tab.base = r.text, !.tab.modified = FALSE,
                               !.restore = {}]
          ELSE settled

\* handle_remote_save_result: only the newest save counts; the saved text is
\* the new baseline, whatever was typed since.
Saved(w, r, ok) ==
  IF w.latest.save # r.request THEN w
  ELSE LET settled == [w EXCEPT !.latest.save = NoRequest]
       IN IF ok /\ w.tab.open
          THEN [settled EXCEPT !.tab.base = r.text,
                               !.tab.modified = w.tab.text # r.text,
                               !.restore = {}]
          ELSE settled

HasPayload(r) == IF r.kind = "save" THEN r.slot # "none" ELSE r.finished

MonitorEnds(t, r) == Moves(t, [r EXCEPT !.monitor = FALSE])

MonitorDelivers(t) ==
  /\ task[t].monitor /\ HasPayload(task[t])
  /\ ui' = IF task[t].kind = "save"
           THEN Saved(ui, task[t], task[t].slot = "ok") ELSE ui
  /\ MonitorEnds(t, task[t])
  /\ OnlyWindow /\ UNCHANGED outcomes

MonitorSeesCancel(t) ==
  /\ task[t].monitor /\ ~HasPayload(task[t]) /\ task[t].cancelled
  /\ MonitorEnds(t, task[t])
  /\ OnlyWindow /\ UNCHANGED <<ui, outcomes>>

MonitorShowsHostKey(t) ==
  /\ task[t].monitor /\ ~HasPayload(task[t]) /\ ~task[t].cancelled
  /\ task[t].hostKey = "posted"
  /\ Moves(t, [task[t] EXCEPT !.hostKey = "shown"])
  /\ OnlyWindow /\ UNCHANGED <<ui, outcomes>>

\* The deadline: an unanswered question is refused, an error is published
\* unless the thread has swapped the flag, and what there is is delivered.
MonitorGivesUp(t) ==
  LET r == [task[t] EXCEPT !.hostKey = IF @ = "posted" THEN "rejected" ELSE @]
  IN /\ task[t].monitor /\ ~HasPayload(task[t]) /\ ~task[t].cancelled
     /\ MonitorEnds(t, [r EXCEPT !.finished = TRUE])
     /\ ui' = IF r.kind = "save" /\ ~r.finished THEN Saved(ui, r, FALSE)
              ELSE ui
     /\ outcomes' = IF r.kind = "reload" /\ ~r.finished
                    THEN Append(outcomes, Outcome(r, FALSE)) ELSE outcomes
     /\ OnlyWindow

\* Mutant: the callback forgets the request and leaves the marker.
CancelKeepsMarker(t) ==
  /\ WindowFree /\ task[t].monitor /\ ~task[t].cancelled
  /\ Moves(t, [task[t] EXCEPT !.cancelled = TRUE])
  /\ ui' = [ui EXCEPT !.latest.open =
              IF task[t].kind = "reload" THEN NoRequest ELSE @]
  /\ OnlyWindow /\ UNCHANGED outcomes

\* Cancel on the progress notification, with the callback of the task; a
\* dialog is drawn over the notifications (render.rs).
CancelProgress(t) ==
  /\ WindowFree /\ task[t].monitor /\ ~task[t].cancelled
  /\ Moves(t, [task[t] EXCEPT !.cancelled = TRUE])
  /\ ui' = IF task[t].kind = "reload"
           THEN [ui EXCEPT !.latest.open = NoRequest,
                           !.restore = @ \ {"inflight"}]
           ELSE [ui EXCEPT !.latest.save =
                   IF @ = task[t].request THEN NoRequest ELSE @]
  /\ OnlyWindow /\ UNCHANGED outcomes

\* Mutant: every outcome counts.
AppliedAnyway(w, o) ==
  LET settled == [w EXCEPT !.latest.open = NoRequest]
  IN IF o.ok /\ w.tab.open
     THEN [settled EXCEPT !.restore = {},
                          !.tab = [open |-> TRUE, text |-> o.text,
                                   base |-> o.text, modified |-> FALSE]]
     ELSE [settled EXCEPT !.restore = {"pending"}]

\* One outcome of process_pending_remote_files.
Applied(w, o) ==
  IF w.latest.open # o.request THEN w
  ELSE LET settled == [w EXCEPT !.latest.open = NoRequest,
                                !.restore = @ \ {"inflight"}]
       IN IF o.ok
          THEN [settled EXCEPT !.restore = {},
                               !.tab = [open |-> TRUE, text |-> o.text,
                                        base |-> o.text, modified |-> FALSE]]
          ELSE [settled EXCEPT !.restore = {"pending"}]

\* The whole batch, one after the other.
AppliedAll(w, list) ==
  LET after[n \in 0 .. Len(list)] ==
        IF n = 0 THEN w ELSE Applied(after[n - 1], list[n])
  IN after[Len(list)]

ProcessPendingRemoteFiles ==
  /\ outcomes # <<>>
  /\ ui' = AppliedAll(ui, outcomes)
  /\ outcomes' = <<>>
  /\ UNCHANGED task /\ OnlyWindow

----------------------------------------------------------------------------
Network(t) ==
  \/ CheckoutOrConnect(t) \/ TrustHostKey(t) \/ NoHostKey(t)
  \/ Read(t) \/ WriteTemporary(t) \/ DirectWrite(t)

Publish(t) == SwapFinished(t) \/ PushOutcome(t)

MonitorStops(t) ==
  MonitorDelivers(t) \/ MonitorSeesCancel(t) \/ MonitorGivesUp(t)

User ==
  \/ SetActiveTab \/ SaveFile \/ ConfirmPassword
  \/ DismissPassword \/ Edit \/ RemoveTab
  \/ \E t \in Task : CancelProgress(t)

Next ==
  \/ User \/ ProcessPendingRemoteFiles
  \/ \E t \in Task :
       Network(t) \/ Publish(t) \/ MonitorStops(t) \/ MonitorShowsHostKey(t)

(***************************************************************************)
(* The network may hang for ever: nothing is assumed of Network.  A thread *)
(* that has left it publishes, the executor runs the monitor's timer, and  *)
(* a window with outcomes is rendered.                                     *)
(***************************************************************************)
Fairness ==
  /\ \A t \in Task : WF_vars(Publish(t)) /\ WF_vars(MonitorStops(t))
  /\ WF_vars(ProcessPendingRemoteFiles)

Spec == Init /\ [][Next]_vars /\ Fairness

----------------------------------------------------------------------------
(***************************************************************************)
(* A session is idle in the pool or at work in one task, never both and    *)
(* never in two tasks: SFTP requests of two threads on one session would   *)
(* mix (SshSessionPool, take and put).                                     *)
(***************************************************************************)
SessionHasOneUser ==
  /\ \A h, g \in Host : pool[h] = pool[g] /\ pool[h] # NoSession => h = g
  /\ \A t \in Task : task[t].session # NoSession =>
       /\ \A h \in Host : pool[h] # task[t].session
       /\ \A u \in Task : task[u].session = task[t].session => u = t

(***************************************************************************)
(* A loaded tab without the modified mark shows a text the server has had: *)
(* what is typed while a save is under way stays marked, however the save  *)
(* ends (handle_remote_save_result).  A text restored from the database is *)
(* its own baseline and is exempt.                                         *)
(***************************************************************************)
CleanReachedServer ==
  ui.tab.open /\ ~ui.tab.modified =>
    ui.tab.text \in stored \cup {Placeholder, Restored}

(***************************************************************************)
(* The baseline of the tab moves only to the text of a task that is the    *)
(* newest of its kind and was not cancelled: a late, superseded or         *)
(* cancelled answer changes nothing (latest_remote_open_request_by_tab,    *)
(* latest_remote_save_request_by_tab).                                     *)
(***************************************************************************)
OnlyNewestApplies ==
  [][ui.tab.open /\ ui'.tab.open /\ ui'.tab.base # ui.tab.base =>
       \/ \E t \in Task : /\ task[t].kind = "save" /\ ~task[t].cancelled
                         /\ ui.latest.save = task[t].request
                         /\ ui'.tab.base = task[t].text
       \/ \E i \in DOMAIN outcomes :
            /\ outcomes[i].ok /\ ui.latest.open = outcomes[i].request
            /\ ui'.tab.base = outcomes[i].text]_vars

(***************************************************************************)
(* A reload never stays in flight: as long as inflight_remote_restore      *)
(* holds the tab it cannot be loaded again, and neither a server that      *)
(* hangs, a cancel, a newer request nor the race of deadline and answer    *)
(* leaves it there.                                                        *)
(***************************************************************************)
RestoreEnds ==
  "inflight" \in ui.restore ~> "inflight" \notin ui.restore

(***************************************************************************)
(* A restored tab that was never loaded is reconnected before it is saved: *)
(* mod.rs says of pending_remote_restore "Restored remote tab ids that     *)
(* should lazily reconnect on first activation/save".                      *)
(***************************************************************************)
PlaceholderNeverSaved == server # Placeholder
=============================================================================
