---------------------------- MODULE WindowQueues ----------------------------
(***************************************************************************)
(* What reaches a window through a queue that other threads fill: changes  *)
(* of the files it watches, the listings of a dialog that browses a remote *)
(* host, and what the system or a second process wants opened.             *)
(*                                                                         *)
(* The queues are independent: the events of the watcher go to its         *)
(* consumer task, the answers of a listing to the dialog that asked, and   *)
(* requests wait for a window to render.  A behaviour is that of one       *)
(* queue, the others standing where they began, and the properties of each *)
(* are those of its module.                                                *)
(***************************************************************************)
EXTENDS FileWatcher, PathBrowser, OpenRequests

VARIABLE queue     \* the queue this behaviour is about

vars == <<queue, watcherVars, browserVars, requestVars>>

Queue == {"watcher", "browser", "requests"}

TypeOK == queue \in Queue /\ WatcherTypeOK /\ BrowserTypeOK /\ OpenTypeOK

\* A queue the behaviour is not about has one initial state.
Init ==
    /\ queue \in Queue
    /\ WatcherInit /\ BrowserInit /\ OpenInit
    /\ queue # "browser" => remote /\ refresh = 0 /\ typed = CHOOSE i \in Inputs : TRUE
    /\ queue # "requests" => \A r \in Request : request[r] = NotAsked

Next ==
    \/ queue = "watcher"  /\ WatcherNext /\ UNCHANGED <<queue, browserVars, requestVars>>
    \/ queue = "browser"  /\ BrowserNext /\ UNCHANGED <<queue, watcherVars, requestVars>>
    \/ queue = "requests" /\ OpenNext    /\ UNCHANGED <<queue, watcherVars, browserVars>>

\* WatcherFairness, BrowserFairness and OpenFairness, each for its own queue.
Fairness ==
    /\ WF_watcherVars(queue = "watcher" /\ TimeoutPasses)
    /\ WF_watcherVars(queue = "watcher" /\ ConsumerStep)
    /\ \A g \in 1 .. MaxTyped : WF_browserVars(queue = "browser" /\ TimerEnds(g))
    /\ \A r \in Refresh : WF_browserVars(queue = "browser" /\ BrowserTask(r))
    /\ WF_browserVars(queue = "browser" /\ WorkerStep)
    /\ WF_requestVars(queue = "requests" /\ FrontRenders)
    /\ \A r \in Request : WF_requestVars(queue = "requests" /\ ListenerReceives(r))
    /\ \A r \in Request : WF_requestVars(queue = "requests" /\ ReadEnds(r))
    /\ \A w \in Windows : WF_requestVars(queue = "requests" /\ CreationEnds(w))

Spec == Init /\ [][Next]_vars /\ Fairness
=============================================================================
