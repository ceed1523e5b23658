------------------------------- MODULE Shares -------------------------------
(***************************************************************************)
(* The files other devices share with this one, for one profile            *)
(* (src/fulgur/sync/share, sync/synchronization/begin.rs, the doorbell and *)
(* catch-up fetches of sync/sse/connection.rs, shared_files.rs).  Stream   *)
(* threads fetch what a doorbell or a catch-up announces, initial          *)
(* synchronizations fetch everything that is listed, one background pass   *)
(* at a time decodes what was fetched, acknowledges it and puts back what  *)
(* failed, and the render loop starts the pass and opens the tabs.  The    *)
(* queues and the acknowledgement set are locked one by one.               *)
(*                                                                         *)
(* A queue is the number of copies it holds of each share: their order     *)
(* decides which one is tried first, and no property depends on it.        *)
(***************************************************************************)
EXTENDS Integers

CONSTANTS
    Share,              \* the shares addressed to this device
    Fetcher,            \* stream threads; a restart leaves the old one running
                        \* for a while
    Contents,           \* what is shared: records of sizes, in KiB
    ServerLimits,       \* max_file_size_bytes servers advertise, NoLimit for
                        \* none
    MaxAttempts,        \* MAX_DECRYPT_ATTEMPTS
    MaxRounds,          \* bound: doorbells, catch-ups and synchronizations
    MaxFaults           \* bound: lost answers, relaunches and deactivations

NoLimit == 1000000      \* u64::MAX, larger than anything
NoShare == "None"

ASSUME SharesAssumption ==
    /\ MaxAttempts \in Nat \ {0}
    /\ {MaxRounds, MaxFaults} \subseteq Nat
    /\ ServerLimits \subseteq 0..NoLimit
    /\ Contents \subseteq [plain : Nat, packed : Nat, wire : Nat,
                           foreign : BOOLEAN]
    /\ NoShare \notin Share

VARIABLES
    isActive,   \* the profile is active in the settings
    server,     \* per share: "absent", "available" or "consumed"
    content,    \* per share: its sizes, and whether it is encrypted for a
                \* key this device no longer has
    limit,      \* max_file_size_bytes
    ackSet,     \* pending_ack_share_ids
    pending,    \* pending_shared_files
    retry,      \* share_retry_state: attempts, and whether the share is in
                \* its backoff window; no entry is no attempt
    decrypted,  \* pending_decrypted_files
    pass,       \* the background pass; it is idle unless decrypt_in_flight
    fetch,      \* per stream thread: what it was told of, where it is
    bulk,       \* the initial synchronization under way
    rounds,     \* how often fetching was started
    faults,     \* how often something failed
    tabs,       \* history: tabs opened per share
    decoded,    \* history: the shares decoded at least once
    givenUp     \* history: the shares a copy of which was dropped

queues == <<ackSet, pending, retry, decrypted>>
history == <<tabs, decoded, givenUp>>
vars == <<isActive, server, content, limit, queues, pass, fetch, bulk, rounds,
          faults, history>>

Queue == [Share -> Nat]
NoCopies == [s \in Share |-> 0]
Held(q) == {s \in Share : q[s] > 0}
Among(q, ids) == [s \in Share |-> IF s \in ids THEN q[s] ELSE 0]
Plus(p, q) == [s \in Share |-> p[s] + q[s]]
NoRetry == [attempts |-> 0, waiting |-> FALSE]
IdlePass == [at |-> "idle", limit |-> NoLimit, due |-> NoCopies,
             failed |-> NoCopies, ids |-> {}]
IdleFetch == [at |-> "idle", todo |-> {}, id |-> NoShare, limit |-> NoLimit]
IdleBulk == [at |-> "idle", todo |-> {}, got |-> {}, limit |-> NoLimit]

Available == {s \in Share : server[s] = "available"}

Init ==
    /\ isActive = TRUE
    /\ server = [s \in Share |-> "absent"]
    /\ content \in [Share -> Contents]
    /\ limit = NoLimit
    /\ ackSet = {}
    /\ pending = NoCopies
    /\ retry = [s \in Share |-> NoRetry]
    /\ decrypted = NoCopies
    /\ pass = IdlePass
    /\ fetch = [f \in Fetcher |-> IdleFetch]
    /\ bulk = IdleBulk
    /\ rounds = 0
    /\ faults = 0
    /\ tabs = [s \in Share |-> 0]
    /\ decoded = {}
    /\ givenUp = {}

-----------------------------------------------------------------------------
(* Sizes.                                                                  *)

Lesser(a, b) == IF a < b THEN a ELSE b
Clamp(x, low, high) == IF x < low THEN low ELSE IF x > high THEN high ELSE x

(* resolve_server_max_file_size.                                           *)
ResolveMaxFileSize(advertised) == IF advertised = 0 THEN 1024 ELSE advertised

(* What the client may know of the limit of its server.                    *)
Limits == {ResolveMaxFileSize(advertised) : advertised \in ServerLimits}
            \union {NoLimit}

(* max_http_single_share_response_bytes: 1 KiB of overhead, 4 of framing.  *)
MaxResponse(max) == IF max = NoLimit THEN 2 * 1024 + 5 ELSE 2 * max + 5

(* share_payload_exceeds_limit, and the same test before decryption.       *)
Exceeds(wire, max) == max # NoLimit /\ wire > 2 * max

(* decompress_content: a fixed ratio bounds what a payload may expand to,  *)
(* within the floor of 64 KiB and the limit of the server.                 *)
DecompressedCap(packed, max) == Clamp(packed * 512, Lesser(64, max), max)

Decodes(c, max) ==
    /\ ~c.foreign
    /\ max = NoLimit \/ c.packed <= max
    /\ c.plain <= DecompressedCap(c.packed, max)

-----------------------------------------------------------------------------
(* The other devices and the server.                                       *)

(* share_file on another device, which knows the limit or does not yet,    *)
(* and lists a key of this device that may be out of date.                 *)
ShareFile(s, max) ==
    /\ server[s] = "absent"
    /\ content[s].plain > 0
    /\ max # NoLimit => content[s].plain <= max
    /\ server' = [server EXCEPT ![s] = "available"]
    /\ UNCHANGED <<isActive, content, limit, queues, pass, fetch, bulk, rounds,
                   faults, history>>

-----------------------------------------------------------------------------
(* A stream thread: connect_sse, fetch_single_share_into.                  *)

StartRound ==
    /\ rounds < MaxRounds
    /\ rounds' = rounds + 1

Fault ==
    /\ faults < MaxFaults
    /\ faults' = faults + 1

At(f, place) == fetch' = [fetch EXCEPT ![f].at = place]

FetchStep ==
    UNCHANGED <<isActive, server, content, limit, retry, decrypted, pass, bulk,
                history>>

(* A doorbell names one share, which may be gone by now; the catch-up of a *)
(* new connection lists all that are available.                            *)
Announce(f) ==
    /\ StartRound
    /\ fetch[f] = IdleFetch
    /\ \E ids \in {{s} : s \in {x \in Share : server[x] # "absent"}}
                    \union ({Available} \ {{}}) :
            fetch' = [fetch EXCEPT ![f].todo = ids]
    /\ FetchStep
    /\ UNCHANGED <<ackSet, pending, faults>>

(* The look at the acknowledgement set, and the request.                   *)
LookUp(f, s) ==
    /\ fetch[f].at = "idle"
    /\ s \in fetch[f].todo
    /\ LET left == fetch[f].todo \ {s}
       IN  fetch' = [fetch EXCEPT
                        ![f] = IF s \in ackSet
                               THEN [IdleFetch EXCEPT !.todo = left]
                               ELSE [at |-> "fetch", todo |-> left,
                                     id |-> s, limit |-> limit]]
    /\ FetchStep
    /\ UNCHANGED <<ackSet, pending, rounds, faults>>

(* fetch_share_by_id answers; too large a payload is dropped unregistered. *)
Fetched(f) ==
    /\ fetch[f].at = "fetch"
    /\ LET c == content[fetch[f].id]
           max == fetch[f].limit
           arrives == /\ server[fetch[f].id] = "available"
                      /\ c.wire <= MaxResponse(max)
                      /\ ~Exceeds(c.wire, max)
       IN  \/ arrives /\ At(f, "register") /\ UNCHANGED faults
           \/ /\ IF arrives THEN Fault ELSE UNCHANGED faults
              /\ fetch' = [fetch EXCEPT ![f] = [IdleFetch EXCEPT
                                                   !.todo = fetch[f].todo]]
    /\ FetchStep
    /\ UNCHANGED <<ackSet, pending, rounds>>

Register(f) ==
    /\ fetch[f].at = "register"
    /\ ackSet' = ackSet \union {fetch[f].id}
    /\ At(f, "push")
    /\ FetchStep
    /\ UNCHANGED <<pending, rounds, faults>>

Push(f) ==
    /\ fetch[f].at = "push"
    /\ pending' = [pending EXCEPT ![fetch[f].id] = @ + 1]
    /\ fetch' = [fetch EXCEPT ![f] = [IdleFetch EXCEPT !.todo = fetch[f].todo]]
    /\ FetchStep
    /\ UNCHANGED <<ackSet, rounds, faults>>

-----------------------------------------------------------------------------
(* initial_synchronization, by a restart or a bootstrap.                   *)

BulkStep ==
    UNCHANGED <<isActive, server, content, retry, decrypted, pass, fetch, history>>

(* perform_begin lists the shares and tells the limit.                     *)
Begin ==
    /\ StartRound
    /\ bulk.at = "idle"
    /\ \E advertised \in ServerLimits :
            bulk' = [at |-> "fetch", todo |-> Available, got |-> {},
                     limit |-> ResolveMaxFileSize(advertised)]
    /\ BulkStep
    /\ UNCHANGED <<limit, ackSet, pending, faults>>

(* fetch_shares_for_ids, whose threads answer in any order.                *)
BulkFetched(s) ==
    /\ bulk.at = "fetch" /\ s \in bulk.todo
    /\ LET arrives == /\ server[s] = "available"
                      /\ content[s].wire <= MaxResponse(bulk.limit)
       IN  \/ /\ arrives
              /\ bulk' = [bulk EXCEPT !.todo = @ \ {s},
                                      !.got = @ \union {s}]
              /\ UNCHANGED faults
           \/ /\ IF arrives THEN Fault ELSE UNCHANGED faults
              /\ bulk' = [bulk EXCEPT !.todo = @ \ {s}]
    /\ BulkStep
    /\ UNCHANGED <<limit, ackSet, pending, rounds>>

BulkRegister ==
    /\ bulk.at = "fetch" /\ bulk.todo = {}
    /\ ackSet' = ackSet \union bulk.got
    /\ bulk' = [bulk EXCEPT !.at = "apply"]
    /\ BulkStep
    /\ UNCHANGED <<limit, pending, rounds, faults>>

(* queue_pending_shares: what is pending already is skipped.               *)
Unseen(got) == got \ Held(pending)

(* apply_initial_sync_outcome.                                             *)
BulkApply ==
    /\ bulk.at = "apply"
    /\ limit' = bulk.limit
    /\ pending' = [s \in Share |-> IF s \in Unseen(bulk.got)
                                 THEN pending[s] + 1 ELSE pending[s]]
    /\ bulk' = IdleBulk
    /\ BulkStep
    /\ UNCHANGED <<ackSet, rounds, faults>>

-----------------------------------------------------------------------------
(* The render loop and the background pass of decrypt.rs.                  *)

Due(s) == ~retry[s].waiting

(* The switch of the profile in the settings: update_profile.  The stream  *)
(* threads and the pass that run go on.                                    *)
ToggleActive ==
    /\ isActive' = ~isActive
    /\ IF isActive THEN Fault ELSE UNCHANGED faults
    /\ UNCHANGED <<server, content, limit, queues, pass, fetch, bulk, rounds,
                   history>>

(* process_shared_files_from_sync passes over a profile that is not        *)
(* active: start_decryption_if_idle, then a tab for all that is decoded.   *)
Render ==
    /\ isActive
    /\ pass' = IF pass.at = "idle" /\ \E s \in Held(pending) : Due(s)
               THEN [pass EXCEPT !.at = "start"] ELSE pass
    /\ tabs' = [s \in Share |-> tabs[s] + decrypted[s]]
    /\ decrypted' = NoCopies
    /\ UNCHANGED <<isActive, server, content, limit, ackSet, pending, retry,
                   fetch, bulk, rounds, faults, decoded, givenUp>>

PassStep ==
    UNCHANGED <<isActive, content, limit, fetch, bulk, rounds, tabs>>

(* run_decryption_pass takes what is due.                                  *)
Ready == {s \in Share : Due(s)}
DueCopies == Among(pending, Ready)

TakeDue ==
    /\ pass.at = "start"
    /\ pending' = Among(pending, Share \ Ready)
    /\ pass' = [at |-> "decode", limit |-> limit, due |-> DueCopies,
                failed |-> NoCopies, ids |-> {}]
    /\ PassStep
    /\ UNCHANGED <<server, ackSet, retry, decrypted, decoded, givenUp, faults>>

(* Without the private key all of it waits for KEY_RETRY_DELAY             *)
(* (defer_batch_for_key_retry), and no attempt is counted.                 *)
KeyMissing ==
    /\ pass.at = "start"
    /\ pending' = Among(pending, Share \ Ready)
    /\ pass' = [at |-> "decode", limit |-> limit, due |-> NoCopies,
                failed |-> DueCopies, ids |-> {}]
    /\ retry' = [s \in Share |-> IF DueCopies[s] > 0
                                 THEN [retry[s] EXCEPT !.waiting = TRUE]
                                 ELSE retry[s]]
    /\ PassStep
    /\ UNCHANGED <<server, ackSet, decrypted, decoded, givenUp, faults>>

(* Mutant: a failed attempt is not counted.                                *)
FailsUncounted(s) ==
    /\ retry' = [retry EXCEPT ![s].waiting = TRUE]
    /\ pass' = [pass EXCEPT !.due[s] = @ - 1, !.failed[s] = @ + 1]
    /\ UNCHANGED givenUp

(* A payload that does not decode is tried again later or, after the last  *)
(* attempt, quarantined.                                                   *)
Fails(s) ==
    LET attempts == retry[s].attempts + 1
    IN  IF attempts >= MaxAttempts
        THEN /\ retry' = [retry EXCEPT ![s] = NoRetry]
             /\ pass' = [pass EXCEPT !.due[s] = @ - 1]
             /\ givenUp' = givenUp \union {s}
        ELSE /\ retry' = [retry EXCEPT ![s] = [attempts |-> attempts,
                                              waiting |-> TRUE]]
             /\ pass' = [pass EXCEPT !.due[s] = @ - 1, !.failed[s] = @ + 1]
             /\ UNCHANGED givenUp

(* Mutant: what does not decode counts as downloaded all the same.         *)
DecodeAndAcknowledge ==
    /\ pass.at = "decode"
    /\ \E s \in Held(pass.due) :
           /\ pass' = [pass EXCEPT !.due[s] = @ - 1, !.ids = @ \union {s}]
           /\ retry' = [retry EXCEPT ![s] = NoRetry]
           /\ IF Decodes(content[s], pass.limit)
              THEN /\ decrypted' = [decrypted EXCEPT ![s] = @ + 1]
                   /\ decoded' = decoded \union {s}
                   /\ UNCHANGED givenUp
              ELSE /\ givenUp' = givenUp \union {s}
                   /\ UNCHANGED <<decrypted, decoded>>
    /\ PassStep
    /\ UNCHANGED <<server, ackSet, pending, faults>>

DecodeNext ==
    /\ pass.at = "decode"
    /\ \E s \in Held(pass.due) :
           \/ /\ Exceeds(content[s].wire, pass.limit)
              /\ pass' = [pass EXCEPT !.due[s] = @ - 1]
              /\ givenUp' = givenUp \union {s}
              /\ UNCHANGED <<retry, decrypted, decoded>>
           \/ /\ ~Exceeds(content[s].wire, pass.limit)
              /\ Decodes(content[s], pass.limit)
              /\ decrypted' = [decrypted EXCEPT ![s] = @ + 1]
              /\ decoded' = decoded \union {s}
              /\ retry' = [retry EXCEPT ![s] = NoRetry]
              /\ pass' = [pass EXCEPT !.due[s] = @ - 1, !.ids = @ \union {s}]
              /\ UNCHANGED givenUp
           \/ /\ ~Exceeds(content[s].wire, pass.limit)
              /\ ~Decodes(content[s], pass.limit)
              /\ Fails(s)
              /\ UNCHANGED <<decrypted, decoded>>
    /\ PassStep
    /\ UNCHANGED <<server, ackSet, pending, faults>>

(* Mutant: the failed shares replace the queue.                            *)
RequeueAlone ==
    /\ pass.at = "decode" /\ pass.due = NoCopies
    /\ pending' = pass.failed
    /\ pass' = IF pass.ids \intersect ackSet = {} THEN IdlePass
               ELSE [pass EXCEPT !.at = "ack", !.failed = NoCopies,
                                 !.ids = @ \intersect ackSet]
    /\ PassStep
    /\ UNCHANGED <<server, ackSet, retry, decrypted, decoded, givenUp, faults>>

(* What failed goes back to what arrived meanwhile; then the               *)
(* decoded shares that are registered are acknowledged.                    *)
Requeue ==
    /\ pass.at = "decode" /\ pass.due = NoCopies
    /\ pending' = Plus(pass.failed, pending)
    /\ pass' = IF pass.ids \intersect ackSet = {} THEN IdlePass
               ELSE [pass EXCEPT !.at = "ack", !.failed = NoCopies,
                                 !.ids = @ \intersect ackSet]
    /\ PassStep
    /\ UNCHANGED <<server, ackSet, retry, decrypted, decoded, givenUp, faults>>

(* acknowledge_share_download; a share that is gone is taken as consumed,  *)
(* and if the answer is lost the id stays registered.                      *)
Acknowledge(s) ==
    /\ pass.at = "ack" /\ s \in pass.ids
    /\ pass' = IF pass.ids = {s} THEN IdlePass
               ELSE [pass EXCEPT !.ids = @ \ {s}]
    /\ \/ /\ server' = [server EXCEPT ![s] = "consumed"]
          /\ ackSet' = ackSet \ {s}
          /\ UNCHANGED faults
       \/ /\ Fault
          /\ server' \in {server, [server EXCEPT ![s] = "consumed"]}
          /\ UNCHANGED ackSet
    /\ PassStep
    /\ UNCHANGED <<pending, retry, decrypted, decoded, givenUp>>

(* A backoff window ends.                                                  *)
WindowEnds(s) ==
    /\ retry[s].waiting
    /\ retry' = [retry EXCEPT ![s].waiting = FALSE]
    /\ UNCHANGED <<isActive, server, content, limit, ackSet, pending, decrypted,
                   pass, fetch, bulk, rounds, faults, history>>

(* The application ends and starts again: nothing of this is stored.       *)
Relaunch ==
    /\ Fault
    /\ limit' = NoLimit
    /\ ackSet' = {} /\ pending' = NoCopies /\ decrypted' = NoCopies
    /\ retry' = [s \in Share |-> NoRetry]
    /\ pass' = IdlePass
    /\ fetch' = [f \in Fetcher |-> IdleFetch]
    /\ bulk' = IdleBulk
    /\ givenUp' = {}
    /\ UNCHANGED <<isActive, server, content, rounds, tabs, decoded>>

Fetching(f) ==
    \/ \E s \in Share : LookUp(f, s)
    \/ Fetched(f) \/ Register(f) \/ Push(f)

Synchronizing ==
    \/ \E s \in Share : BulkFetched(s)
    \/ BulkRegister \/ BulkApply

Pass ==
    \/ TakeDue \/ KeyMissing \/ DecodeNext \/ Requeue
    \/ \E s \in Share : Acknowledge(s)

Next ==
    \/ \E s \in Share, max \in Limits : ShareFile(s, max)
    \/ \E f \in Fetcher : Announce(f) \/ Fetching(f)
    \/ Begin \/ Synchronizing
    \/ ToggleActive \/ Render \/ Pass
    \/ \E s \in Share : WindowEnds(s)
    \/ Relaunch

(* Threads are scheduled, frames are drawn and backoff windows end.  Of    *)
(* the passes that are started again and again, some find the key: a       *)
(* missing one is retried every KEY_RETRY_DELAY without end.               *)
Fairness ==
    /\ \A f \in Fetcher : WF_vars(Fetching(f))
    /\ WF_vars(Synchronizing)
    /\ WF_vars(Render) /\ WF_vars(Pass) /\ SF_vars(TakeDue)
    /\ \A s \in Share : WF_vars(WindowEnds(s))

Spec == Init /\ [][Next]_vars /\ Fairness

-----------------------------------------------------------------------------
(* Types; a share in a backoff window has at least one attempt left, and   *)
(* the pass holds nothing while it is idle.                                *)
TypeOK ==
    /\ isActive \in BOOLEAN
    /\ server \in [Share -> {"absent", "available", "consumed"}]
    /\ content \in [Share -> Contents]
    /\ limit \in Limits
    /\ ackSet \subseteq Share
    /\ {pending, decrypted, pass.due, pass.failed} \subseteq Queue
    /\ retry \in [Share -> [attempts : 0..MaxAttempts - 1,
                            waiting : BOOLEAN]]
    /\ pass.at \in {"idle", "start", "decode", "ack"}
    /\ pass.ids \subseteq Share
    /\ pass.at = "idle" => pass = IdlePass
    /\ \A f \in Fetcher :
            /\ fetch[f].at \in {"idle", "fetch", "register", "push"}
            /\ fetch[f].todo \subseteq Share
            /\ fetch[f].id \in Share \union {NoShare}
    /\ bulk.at \in {"idle", "fetch", "apply"} /\ {bulk.todo, bulk.got} \subseteq SUBSET Share
    /\ rounds \in 0..MaxRounds /\ faults \in 0..MaxFaults
    /\ tabs \in [Share -> Nat]
    /\ decoded \subseteq Share /\ givenUp \subseteq Share

(* Doorbells and catch-ups skip a share that is registered, so a           *)
(* registered share is on its way to a tab, was decoded, or was given up:  *)
(* no fetch is suppressed for a copy that got lost.                        *)
OnItsWay(s) ==
    \/ pending[s] + pass.due[s] + pass.failed[s] > 0 \/ s \in bulk.got
    \/ \E f \in Fetcher : fetch[f].at = "push" /\ fetch[f].id = s
SuppressedIsOnItsWay ==
    \A s \in ackSet : OnItsWay(s) \/ s \in decoded \/ s \in givenUp

(* What the queues do is what ShareDelivery promises: each fetched copy is *)
(* decoded or given up once and opened once, and the server lets a share   *)
(* go only after a copy of it was decoded.                                 *)
Delivery == INSTANCE ShareDelivery WITH
    waiting <- Plus(pending, Plus(pass.due, pass.failed)),
    ready <- decrypted
ImplementsDelivery == Delivery!Spec

(* Nothing stays on its way: a pending share is opened or given up in the  *)
(* end, whatever windows of backoff it waits for, unless the application   *)
(* ends or the profile is deactivated, which leaves it where it is.  A     *)
(* missing key puts a share off without counting an attempt, so this       *)
(* relies on the key being found again and again (Fairness): without it    *)
(* the share is neither opened nor given up.                               *)
PendingEnds ==
    \A s \in Share :
        s \in Held(pending)
            ~> \/ ~(OnItsWay(s) \/ s \in Held(decrypted))
               \/ ~isActive
=============================================================================
