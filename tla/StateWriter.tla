---------------------------- MODULE StateWriter ----------------------------
(***************************************************************************)
(* The session-state writer (src/fulgur/state/writer.rs) with the drop of  *)
(* its worker thread (src/fulgur/utils/worker.rs).                         *)
(*                                                                         *)
(* Two threads share a mailbox of one snapshot and a bounded channel.      *)
(* The UI thread saves asynchronously (fill the mailbox, then try to wake  *)
(* the writer), or blocks until the writer replies, or drops the writer.   *)
(* The writer thread waits for a message or for the throttle to expire,    *)
(* writes a snapshot to the database, and flushes the mailbox when the     *)
(* last sender is gone.  A snapshot describes the whole session, so it is  *)
(* abstracted to the number of the save that built it.                     *)
(***************************************************************************)
EXTENDS Naturals, Sequences

CONSTANTS
    Capacity,   \* CHANNEL_CAPACITY: the messages the channel holds
    Throttle,   \* SAVE_THROTTLE, in ticks
    MaxSaves,   \* bound: the saves a behaviour issues
    MaxFaults   \* bound: the panics of the writer thread and the restarts

ASSUME WriterAssumption ==
    /\ Capacity \in Nat \ {0}
    /\ Throttle \in Nat
    /\ MaxSaves \in Nat
    /\ MaxFaults \in Nat

NoSnapshot == 0

(* WriterMessage: a blocking request, or the wakeup of a filled mailbox.   *)
Blocking(s) == [type |-> "Blocking", state |-> s]
MailboxFilled == [type |-> "MailboxFilled", state |-> NoSnapshot]
WriterMessage == [type : {"Blocking", "MailboxFilled"}, state : Nat]

(* The database the writer owns: the file, the in-memory fallback, none.   *)
Databases == {"file", "memory", "none"}

VARIABLES
    mailbox,    \* SnapshotMailbox.pending
    queue,      \* the channel from the UI thread to the writer
    ui,         \* where the UI thread is in save_async, save_blocking, drop
    call,       \* the snapshot of the UI thread's blocking save
    reply,      \* what the reply channel of that save holds
    writer,     \* where the writer thread is in StateWriter::run
    job,        \* the snapshot the writer thread holds
    purpose,    \* why it holds it: a blocking save, a flush, the shutdown
    sinceWrite, \* ticks since last_write_at, counted up to Throttle
    database,   \* which database was opened at launch
    disk,       \* the snapshot the state.db file reflects
    memory,     \* the snapshot the in-memory database reflects
    issued,     \* history: the saves issued so far
    latest,     \* history: the newest snapshot of this run of the program
    acked,      \* history: the newest snapshot reported saved to the file
    lost,       \* history: snapshots whose write or hand-off failed
    faults      \* history: panics and restarts so far

uiVars == <<ui, call>>
writerVars == <<writer, job, purpose, sinceWrite>>
dbVars == <<database, disk, memory>>
history == <<issued, latest, acked, lost, faults>>
vars == <<mailbox, queue, ui, call, reply, writer, job, purpose, sinceWrite,
          database, disk, memory, issued, latest, acked, lost, faults>>

(* What the open database reflects.                                        *)
Stored == IF database = "file" THEN disk ELSE memory

SenderAlive == ui \notin {"joining", "gone"}
WriterGone == writer \in {"exited", "panicked"}

Init ==
    /\ mailbox = NoSnapshot
    /\ queue = <<>>
    /\ ui = "idle"
    /\ call = NoSnapshot
    /\ reply = "none"
    /\ writer = "loop"
    /\ job = NoSnapshot
    /\ purpose = "flush"
    /\ sinceWrite = Throttle
    /\ database \in Databases
    /\ disk = NoSnapshot
    /\ memory = NoSnapshot
    /\ issued = 0
    /\ latest = NoSnapshot
    /\ acked = NoSnapshot
    /\ lost = {}
    /\ faults = 0

-----------------------------------------------------------------------------
(* The UI thread.                                                          *)

IssueSave ==
    /\ ui = "idle"
    /\ issued < MaxSaves
    /\ issued' = issued + 1
    /\ latest' = issued + 1

(* save_async: SnapshotMailbox::put, replacing a snapshot already waiting. *)
SaveAsync ==
    /\ IssueSave
    /\ mailbox' = issued + 1
    /\ ui' = "waking"
    /\ UNCHANGED <<queue, call, reply, writerVars, dbVars, acked, lost, faults>>

(* save_async: try_send of the wakeup.  A full channel is ignored; a       *)
(* writer that has exited makes the snapshot be dropped.                   *)
WakeWriter ==
    /\ ui = "waking"
    /\ ui' = "idle"
    /\ \/ /\ ~WriterGone
          /\ queue' = IF Len(queue) < Capacity
                      THEN Append(queue, MailboxFilled) ELSE queue
          /\ UNCHANGED <<mailbox, lost>>
       \/ /\ WriterGone
          /\ mailbox' = NoSnapshot
          /\ lost' = lost \cup {mailbox}
          /\ UNCHANGED queue
    /\ UNCHANGED <<call, reply, writerVars, dbVars, issued, latest, acked, faults>>

(* save_blocking: the request is built.                                    *)
SaveBlocking ==
    /\ IssueSave
    /\ call' = issued + 1
    /\ ui' = "sending"
    /\ reply' = "none"
    /\ UNCHANGED <<mailbox, queue, writerVars, dbVars, acked, lost, faults>>

(* save_blocking: send waits for room, and fails once the writer is gone.  *)
SendBlocking ==
    /\ ui = "sending"
    /\ \/ /\ ~WriterGone
          /\ Len(queue) < Capacity
          /\ queue' = Append(queue, Blocking(call))
          /\ ui' = "waiting"
          /\ UNCHANGED lost
       \/ /\ WriterGone
          /\ ui' = "idle"
          /\ lost' = lost \cup {call}
          /\ UNCHANGED queue
    /\ UNCHANGED <<mailbox, call, reply, writerVars, dbVars, issued, latest,
                   acked, faults>>

(* save_blocking: the reply arrives.                                       *)
ReceiveReply ==
    /\ ui = "waiting"
    /\ reply # "none"
    /\ ui' = "idle"
    /\ reply' = "none"
    /\ acked' = IF reply = "ok" /\ database = "file" THEN call ELSE acked
    /\ UNCHANGED <<mailbox, queue, call, writerVars, dbVars, issued, latest,
                   lost, faults>>

(* save_blocking: the writer died with the request; the reply channel      *)
(* closes.                                                                 *)
ReplyClosed ==
    /\ ui = "waiting"
    /\ reply = "none"
    /\ WriterGone
    /\ ui' = "idle"
    /\ lost' = lost \cup {call}
    /\ UNCHANGED <<mailbox, queue, call, reply, writerVars, dbVars, issued,
                   latest, acked, faults>>

(* Dropping the StateWriter drops the sender, then the worker: Worker::drop *)
(* polls for the end of the thread.                                        *)
DropWriter ==
    /\ ui = "idle"
    /\ ui' = "joining"
    /\ UNCHANGED <<mailbox, queue, call, reply, writerVars, dbVars, history>>

(* The poll ends when the thread is finished, or after WRITER_JOIN_TIMEOUT *)
(* whatever the thread is doing.                                           *)
JoinOrDetach ==
    /\ ui = "joining"
    /\ ui' = "gone"
    /\ UNCHANGED <<mailbox, queue, call, reply, writerVars, dbVars, history>>

-----------------------------------------------------------------------------
(* The writer thread: StateWriter::run.                                    *)

(* Mutant: the loop always waits without a deadline.                       *)
MailboxDeadlineMissing ==
    /\ writer = "loop"
    /\ writer' = "recv"
    /\ UNCHANGED <<mailbox, queue, uiVars, reply, job, purpose, sinceWrite,
                   dbVars, history>>

(* mailbox_deadline: only a waiting snapshot makes the wait a timed one.   *)
MailboxDeadline ==
    /\ writer = "loop"
    /\ writer' = IF mailbox = NoSnapshot THEN "recv" ELSE "recvTimeout"
    /\ UNCHANGED <<mailbox, queue, uiVars, reply, job, purpose, sinceWrite,
                   dbVars, history>>

(* recv or recv_timeout returns the oldest message.                        *)
Receive ==
    /\ writer \in {"recv", "recvTimeout"}
    /\ queue # <<>>
    /\ queue' = Tail(queue)
    /\ \/ /\ Head(queue).type = "MailboxFilled"
          /\ writer' = "loop"
          /\ UNCHANGED <<job, purpose>>
       \/ /\ Head(queue).type = "Blocking"
          /\ writer' = "take"
          /\ job' = Head(queue).state
          /\ purpose' = "blocking"
    /\ UNCHANGED <<mailbox, uiVars, reply, sinceWrite, dbVars, history>>

(* recv_timeout reaches the deadline, last_write_at + throttle.            *)
ThrottleElapsed ==
    /\ writer = "recvTimeout"
    /\ queue = <<>>
    /\ SenderAlive
    /\ sinceWrite = Throttle
    /\ writer' = "take"
    /\ purpose' = "flush"
    /\ job' = NoSnapshot
    /\ UNCHANGED <<mailbox, queue, uiVars, reply, sinceWrite, dbVars, history>>

(* Mutant: the thread ends without shut_down.                              *)
DisconnectedUnflushed ==
    /\ writer \in {"recv", "recvTimeout"}
    /\ queue = <<>>
    /\ ~SenderAlive
    /\ writer' = "exited"
    /\ purpose' = "shutdown"
    /\ job' = NoSnapshot
    /\ UNCHANGED <<mailbox, queue, uiVars, reply, sinceWrite, dbVars, history>>

(* The channel is empty and its sender is gone: leave the loop, shut_down. *)
Disconnected ==
    /\ writer \in {"recv", "recvTimeout"}
    /\ queue = <<>>
    /\ ~SenderAlive
    /\ writer' = "take"
    /\ purpose' = "shutdown"
    /\ job' = NoSnapshot
    /\ UNCHANGED <<mailbox, queue, uiVars, reply, sinceWrite, dbVars, history>>

(* After shut_down the thread ends, otherwise it goes round the loop.      *)
AfterWrite == IF purpose = "shutdown" THEN "exited" ELSE "loop"

(* Mutant: handle_blocking leaves the older snapshot in the mailbox.       *)
TakeMailboxKept ==
    /\ writer = "take"
    /\ mailbox' = IF purpose = "blocking" THEN mailbox ELSE NoSnapshot
    /\ job' = IF purpose = "blocking" THEN job ELSE mailbox
    /\ writer' = IF job' # NoSnapshot THEN "write" ELSE AfterWrite
    /\ UNCHANGED <<queue, uiVars, reply, purpose, sinceWrite, dbVars, history>>

(* SnapshotMailbox::take: handle_blocking throws the waiting snapshot      *)
(* away, flush_mailbox and shut_down keep it to write it.                  *)
TakeMailbox ==
    /\ writer = "take"
    /\ mailbox' = NoSnapshot
    /\ job' = IF purpose = "blocking" THEN job ELSE mailbox
    /\ writer' = IF job' # NoSnapshot THEN "write" ELSE AfterWrite
    /\ UNCHANGED <<queue, uiVars, reply, purpose, sinceWrite, dbVars, history>>

(* WriterState::write: apply, record when, report to a blocked caller.     *)
WriteSucceeds ==
    /\ writer = "write"
    /\ database # "none"
    /\ disk' = IF database = "file" THEN job ELSE disk
    /\ memory' = IF database = "memory" THEN job ELSE memory
    /\ reply' = IF purpose = "blocking" THEN "ok" ELSE reply
    /\ sinceWrite' = 0
    /\ writer' = AfterWrite
    /\ job' = NoSnapshot
    /\ UNCHANGED <<mailbox, queue, uiVars, purpose, database, history>>

(* Mutant: a failed write is reported as a success.                        *)
WriteFailsSilently ==
    /\ writer = "write"
    /\ reply' = IF purpose = "blocking" THEN "ok" ELSE reply
    /\ sinceWrite' = 0
    /\ writer' = AfterWrite
    /\ job' = NoSnapshot
    /\ lost' = lost \cup {job}
    /\ UNCHANGED <<mailbox, queue, uiVars, purpose, dbVars, issued, latest,
                   acked, faults>>

(* Mutant: the blocked caller is not told of a failed write.               *)
WriteFailsUnreported ==
    /\ writer = "write"
    /\ sinceWrite' = 0
    /\ writer' = AfterWrite
    /\ job' = NoSnapshot
    /\ lost' = lost \cup {job}
    /\ UNCHANGED <<mailbox, queue, uiVars, reply, purpose, dbVars, issued,
                   latest, acked, faults>>

(* No database, or a failed transaction: the error is logged, reported to  *)
(* a blocked caller, and the snapshot is dropped.                          *)
WriteFails ==
    /\ writer = "write"
    /\ reply' = IF purpose = "blocking" THEN "err" ELSE reply
    /\ sinceWrite' = 0
    /\ writer' = AfterWrite
    /\ job' = NoSnapshot
    /\ lost' = lost \cup {job}
    /\ UNCHANGED <<mailbox, queue, uiVars, purpose, dbVars, issued, latest,
                   acked, faults>>

(* The writer thread unwinds while writing: the receiver and everything    *)
(* queued in it are dropped.                                               *)
WriterPanics ==
    /\ writer = "write"
    /\ faults < MaxFaults
    /\ faults' = faults + 1
    /\ writer' = "panicked"
    /\ queue' = <<>>
    /\ job' = NoSnapshot
    /\ lost' = lost \cup {job}
    /\ UNCHANGED <<mailbox, uiVars, reply, purpose, sinceWrite, dbVars, issued,
                   latest, acked>>

-----------------------------------------------------------------------------
(* The environment.                                                        *)

Tick ==
    /\ sinceWrite < Throttle
    /\ sinceWrite' = sinceWrite + 1
    /\ UNCHANGED <<mailbox, queue, uiVars, reply, writer, job, purpose, dbVars,
                   history>>

(* The process ends, cleanly or killed, and is launched again: the session *)
(* restarts from what the file holds, or from nothing when it cannot be    *)
(* opened.                                                                 *)
Relaunch ==
    /\ faults < MaxFaults
    /\ faults' = faults + 1
    /\ mailbox' = NoSnapshot
    /\ queue' = <<>>
    /\ ui' = "idle"
    /\ call' = NoSnapshot
    /\ reply' = "none"
    /\ writer' = "loop"
    /\ job' = NoSnapshot
    /\ purpose' = "flush"
    /\ sinceWrite' = Throttle
    /\ database' \in Databases
    /\ memory' = NoSnapshot
    /\ latest' = IF database' = "file" THEN disk ELSE NoSnapshot
    /\ UNCHANGED <<disk, issued, acked, lost>>

UiStep == WakeWriter \/ SendBlocking \/ ReceiveReply \/ ReplyClosed
WriterStep ==
    \/ MailboxDeadline \/ Receive \/ ThrottleElapsed \/ Disconnected
    \/ TakeMailbox \/ WriteSucceeds \/ WriteFails

Next ==
    \/ SaveAsync \/ SaveBlocking \/ DropWriter \/ JoinOrDetach
    \/ UiStep
    \/ WriterStep
    \/ WriterPanics
    \/ Tick
    \/ Relaunch

(* Both threads keep running and time passes; nobody has to save, to drop  *)
(* the writer, to panic or to relaunch.                                    *)
Fairness == WF_vars(UiStep) /\ WF_vars(WriterStep) /\ WF_vars(Tick)

Spec == Init /\ [][Next]_vars
FairSpec == Spec /\ Fairness

-----------------------------------------------------------------------------
TypeOK ==
    /\ mailbox \in Nat
    /\ queue \in Seq(WriterMessage)
    /\ Len(queue) <= Capacity
    /\ ui \in {"idle", "waking", "sending", "waiting", "joining", "gone"}
    /\ call \in Nat
    /\ reply \in {"none", "ok", "err"}
    /\ writer \in {"loop", "recv", "recvTimeout", "take", "write", "exited",
                   "panicked"}
    /\ job \in Nat
    /\ purpose \in {"blocking", "flush", "shutdown"}
    /\ sinceWrite \in 0..Throttle
    /\ database \in Databases
    /\ disk \in Nat
    /\ memory \in Nat
    /\ issued \in Nat
    /\ latest \in Nat
    /\ acked \in Nat
    /\ lost \in SUBSET Nat
    /\ faults \in Nat

(* The snapshots on their way to the database; a writer that is gone has   *)
(* none.                                                                   *)
Queued ==
    {queue[i].state : i \in {j \in DOMAIN queue : queue[j].type = "Blocking"}}
Sending == IF ui = "sending" THEN {call} ELSE {}
InFlight ==
    IF WriterGone THEN {}
    ELSE ({mailbox, job} \cup Queued \cup Sending) \ {NoSnapshot}

(* Nothing is forgotten: while the writer has not panicked, the newest     *)
(* snapshot of the session is in the database or still on its way there,   *)
(* unless its own write failed.  handle_blocking throws the mailbox away   *)
(* because what it holds "is by construction older" (writer.rs), and a     *)
(* wakeup is not sent into a full channel: neither loses the newest        *)
(* snapshot.  An exited writer holds nothing, so shut_down flushes.        *)
NewestNotForgotten ==
    (writer # "panicked" /\ latest \notin lost)
        => latest \in InFlight \cup {Stored}

(* The snapshots on their way are newer than what the database reflects,   *)
(* and overtake each other only towards the newer: the mailbox is newer    *)
(* than a flush under way and older than a blocking save.                  *)
SnapshotsInOrder ==
    /\ Stored <= latest /\ latest <= issued
    /\ \A s \in {mailbox, job} \ {NoSnapshot} : Stored < s /\ s <= latest
    /\ (job # NoSnapshot /\ mailbox # NoSnapshot)
          => IF purpose = "blocking" THEN mailbox < job ELSE job < mailbox
    /\ \A s \in (Queued \cup Sending) \ {NoSnapshot} :
          s = latest /\ Stored < s /\ mailbox < s /\ job < s

(* A save_blocking that reports success has its snapshot in the database   *)
(* when the caller reads the reply.                                        *)
ReplyMeansStored == reply = "ok" => Stored = call

(* What save_blocking reported saved to the file is never lost again, not  *)
(* by a later flush of an older snapshot, nor by a crash.                  *)
AckedIsDurable == acked <= disk

(* The file never goes back to an older snapshot.                          *)
DiskNeverGoesBack == [][disk' >= disk]_vars

(* A blocking save never hangs the UI thread: the writer's failures, its   *)
(* death and a full channel all end the call.                              *)
BlockingSaveReturns == ui \in {"sending", "waiting"} ~> ui = "idle"

(* An asynchronous snapshot leaves the mailbox: no wakeup is lost, even    *)
(* when the writer decides to block just before the mailbox is filled.     *)
MailboxDrains ==
    (mailbox # NoSnapshot) ~> (mailbox = NoSnapshot \/ writer = "panicked")
=============================================================================
