--------------------------- MODULE ShareDelivery ---------------------------
(***************************************************************************)
(* What the receiving side of a profile promises of shared files           *)
(* (src/fulgur/sync/share, sync/synchronization/begin.rs and               *)
(* shared_files.rs), without its queues, threads and retries: a file stays *)
(* on the server until a copy of it was decoded, every copy that was       *)
(* fetched is decoded or given up once, and every copy that was decoded is *)
(* opened once.  Shares implements it.                                     *)
(***************************************************************************)
EXTENDS Integers

CONSTANT Share

VARIABLES
    server,     \* "absent", "available" or "consumed"
    waiting,    \* per share: its fetched copies that are not decoded yet
    ready,      \* per share: its decoded copies that no tab shows yet
    tabs,       \* per share: the tabs opened for it
    decoded     \* the shares a copy of which was ever decoded

vars == <<server, waiting, ready, tabs, decoded>>

Init ==
    /\ server = [s \in Share |-> "absent"]
    /\ waiting = [s \in Share |-> 0]
    /\ ready = [s \in Share |-> 0]
    /\ tabs = [s \in Share |-> 0]
    /\ decoded = {}

(* A device sends the file: share_file and the server.                     *)
Send(s) ==
    /\ server[s] = "absent"
    /\ server' = [server EXCEPT ![s] = "available"]
    /\ UNCHANGED <<waiting, ready, tabs, decoded>>

(* Copies arrive, at most one of each share: a doorbell brings one, the    *)
(* initial synchronization several.                                        *)
Fetch(arrived) ==
    /\ \A s \in arrived : server[s] # "absent"
    /\ waiting' = [s \in Share |-> IF s \in arrived THEN waiting[s] + 1
                                   ELSE waiting[s]]
    /\ UNCHANGED <<server, ready, tabs, decoded>>

(* A copy is decoded, or given up.                                         *)
Decode(s) ==
    /\ waiting[s] > 0
    /\ waiting' = [waiting EXCEPT ![s] = @ - 1]
    /\ \/ /\ ready' = [ready EXCEPT ![s] = @ + 1]
          /\ decoded' = decoded \union {s}
       \/ UNCHANGED <<ready, decoded>>
    /\ UNCHANGED <<server, tabs>>

(* The render loop opens a tab for every decoded copy.                     *)
Open ==
    /\ tabs' = [s \in Share |-> tabs[s] + ready[s]]
    /\ ready' = [s \in Share |-> 0]
    /\ UNCHANGED <<server, waiting, decoded>>

(* The server lets a share go once its download is acknowledged.           *)
Consume(s) ==
    /\ s \in decoded
    /\ server[s] = "available"
    /\ server' = [server EXCEPT ![s] = "consumed"]
    /\ UNCHANGED <<waiting, ready, tabs, decoded>>

(* The application ends and starts again; its copies are not stored.       *)
Relaunch ==
    /\ waiting' = [s \in Share |-> 0]
    /\ ready' = [s \in Share |-> 0]
    /\ UNCHANGED <<server, tabs, decoded>>

Next ==
    \/ \E s \in Share : Send(s) \/ Decode(s) \/ Consume(s)
    \/ \E arrived \in SUBSET Share : Fetch(arrived)
    \/ Open
    \/ Relaunch

Spec == Init /\ [][Next]_vars
=============================================================================
