---------------------------- MODULE FileWatcher ----------------------------
(***************************************************************************)
(* The file watcher of one window (src/fulgur/files/file_watcher): the     *)
(* callback thread of the notify library turns notifications into events,  *)
(* pairing the two halves of a Linux rename through an accumulator under a *)
(* mutex; a bounded channel carries the events; a task of the user         *)
(* interface consumes them and expires a first half whose second half      *)
(* never comes.                                                            *)
(***************************************************************************)
EXTENDS Integers, SequencesExt

CONSTANTS
    Paths,      \* the watched paths and the destinations of renames
    NoPath,     \* pending_rename_from = None
    Capacity,   \* FILE_WATCH_EVENT_CHANNEL_CAPACITY
    MaxNotify   \* bound: notifications in a behaviour

ASSUME FileWatcherAssumption ==
    /\ NoPath \notin Paths
    /\ Capacity \in Nat \ {0}
    /\ MaxNotify \in Nat

VARIABLES
    pending,   \* pending_rename_from: path, and whether the timeout passed
    channel,   \* the events sent and not consumed
    consumer,  \* the consumer task: at the top of its loop, blocked on the
               \* channel, or waiting for the channel and a timer
    notified,  \* the number of notifications so far
    moved,     \* history: per path, first halves received
    reported   \* history: per path, first halves turned into an event

watcherVars == <<pending, channel, consumer, notified, moved, reported>>

NonePending == [path |-> NoPath, stale |-> FALSE]

Modified(p) == [kind |-> "Modified", path |-> p]
Deleted(p) == [kind |-> "Deleted", path |-> p]
Renamed(from, to) == [kind |-> "Renamed", path |-> from, to |-> to]

Events == [kind : {"Modified", "Deleted"}, path : Paths]
            \cup [kind : {"Renamed"}, path : Paths, to : Paths]
            \cup [kind : {"Error"}]

WatcherInit ==
    /\ pending = NonePending
    /\ channel = <<>>
    /\ consumer = "top"
    /\ notified = 0
    /\ moved = [p \in Paths |-> 0]
    /\ reported = [p \in Paths |-> 0]

(* send_event: try_send, an event that finds the channel full is dropped.  *)
SendEvent(ch, event) ==
    IF Len(ch) < Capacity THEN Append(ch, event) ELSE ch

-----------------------------------------------------------------------------
(* Mutant: the expired half is reported and stays in the accumulator.      *)
ExpiredKept(pend) == pend

(* expire_pending_rename_from: the accumulator, the channel and the        *)
(* reports after it; the half is taken under the lock.                     *)
Expired(pend) == IF pend.stale THEN NonePending ELSE pend

ExpiredChannel ==
    IF pending.stale THEN SendEvent(channel, Deleted(pending.path)) ELSE channel

ExpiredReports ==
    IF pending.stale THEN [reported EXCEPT ![pending.path] = @ + 1]
    ELSE reported

(* What every notification does first.                                     *)
Notify ==
    /\ notified < MaxNotify
    /\ notified' = notified + 1
    /\ UNCHANGED consumer

(* A change, creation or removal of a watched file.                        *)
NotifyChange(event) ==
    /\ Notify
    /\ pending' = Expired(pending)
    /\ channel' = SendEvent(ExpiredChannel, event)
    /\ reported' = ExpiredReports
    /\ UNCHANGED moved

(* RenameMode::From: remembered until its second half arrives.             *)
NotifyFrom(p) ==
    /\ Notify
    /\ pending' = [path |-> p, stale |-> FALSE]
    /\ channel' = ExpiredChannel
    /\ reported' = ExpiredReports
    /\ moved' = [moved EXCEPT ![p] = @ + 1]

(* RenameMode::To: paired with the half in the accumulator, if any.        *)
NotifyTo(p) ==
    /\ Notify
    /\ pending' = NonePending
    /\ \/ /\ pending.path # NoPath /\ ~pending.stale
          /\ channel' = SendEvent(channel, Renamed(pending.path, p))
          /\ reported' = [reported EXCEPT ![pending.path] = @ + 1]
       \/ /\ pending.path = NoPath \/ pending.stale
          /\ channel' = SendEvent(ExpiredChannel, Modified(p))
          /\ reported' = ExpiredReports
    /\ UNCHANGED moved

(* Another single-path rename: flush the accumulator.  RenameMode::Any, a  *)
(* rename without a destination, is reported as a deletion.                *)
NotifyAny(events) ==
    /\ Notify
    /\ pending' = NonePending
    /\ \/ /\ pending.path # NoPath
          /\ channel' = FoldLeft(SendEvent, channel,
                                 <<Deleted(pending.path)>> \o events)
          /\ reported' = [reported EXCEPT ![pending.path] = @ + 1]
       \/ /\ pending.path = NoPath
          /\ channel' = FoldLeft(SendEvent, channel, events)
          /\ UNCHANGED reported
    /\ UNCHANGED moved

(* The notify library reports an error of its own.                         *)
NotifyError ==
    /\ Notify
    /\ channel' = SendEvent(channel, [kind |-> "Error"])
    /\ UNCHANGED <<pending, moved, reported>>

(* PENDING_RENAME_TIMEOUT passes for the half in the accumulator.          *)
TimeoutPasses ==
    /\ pending.path # NoPath /\ ~pending.stale
    /\ pending' = [pending EXCEPT !.stale = TRUE]
    /\ UNCHANGED <<channel, consumer, notified, moved, reported>>

-----------------------------------------------------------------------------
(* spawn_file_watch_consumer, the top of the loop: a timer is armed only   *)
(* if a half is pending at this moment.                                    *)
ConsumerLooksAtPending ==
    /\ consumer = "top"
    /\ consumer' = IF pending.path # NoPath THEN "timed" ELSE "blocked"
    /\ UNCHANGED <<pending, channel, notified, moved, reported>>

(* Mutant: once the timer is armed the channel is no longer polled.        *)
ConsumerTakesEventUntimed ==
    /\ consumer = "blocked"
    /\ channel # <<>>
    /\ channel' = Tail(channel)
    /\ consumer' = "top"
    /\ UNCHANGED <<pending, notified, moved, reported>>

(* handle_file_watch_event gets the next event; the wait is over.          *)
ConsumerTakesEvent ==
    /\ consumer \in {"timed", "blocked"}
    /\ channel # <<>>
    /\ channel' = Tail(channel)
    /\ consumer' = "top"
    /\ UNCHANGED <<pending, notified, moved, reported>>

(* The timer ends first.                                                   *)
ConsumerTimer ==
    /\ consumer = "timed"
    /\ channel = <<>>
    /\ pending' = Expired(pending)
    /\ channel' = ExpiredChannel
    /\ reported' = ExpiredReports
    /\ consumer' = "top"
    /\ UNCHANGED <<notified, moved>>

ConsumerStep == ConsumerLooksAtPending \/ ConsumerTakesEvent \/ ConsumerTimer

WatcherNext ==
    \/ \E p \in Paths :
          \/ NotifyChange(Modified(p)) \/ NotifyChange(Deleted(p))
          \/ NotifyFrom(p) \/ NotifyTo(p) \/ NotifyAny(<<Deleted(p)>>)
          \/ \E q \in Paths \ {p} : NotifyChange(Renamed(p, q))
    \/ NotifyAny(<<>>) \/ NotifyError
    \/ TimeoutPasses
    \/ ConsumerStep

WatcherSpec == WatcherInit /\ [][WatcherNext]_watcherVars

(* Time passes, and the executor keeps polling the consumer; nothing       *)
(* promises another notification.                                          *)
WatcherFairness ==
    /\ WF_watcherVars(TimeoutPasses)
    /\ WF_watcherVars(ConsumerStep)

WatcherFairSpec == WatcherSpec /\ WatcherFairness

-----------------------------------------------------------------------------
WatcherTypeOK ==
    /\ pending \in [path : Paths, stale : BOOLEAN] \cup {NonePending}
    /\ channel \in Seq(Events) /\ Len(channel) <= Capacity
    /\ consumer \in {"top", "blocked", "timed"}
    /\ notified \in 0..MaxNotify
    /\ moved \in [Paths -> 0..MaxNotify]
    /\ reported \in [Paths -> 0..MaxNotify]

(* However the callback thread and the timer of the consumer race for it,  *)
(* a file renamed away is reported at most once: never both as renamed and *)
(* as deleted.                                                             *)
ReportedOnce ==
    \A p \in Paths :
        reported[p] + (IF pending.path = p THEN 1 ELSE 0) <= moved[p]

(* Every event in the channel reaches the window.                          *)
EventsConsumed == channel # <<>> ~> channel = <<>>

(* "Maximum time a Linux inotify rename `From` event waits for its         *)
(* matching `To` before it is treated as a deletion" (watcher.rs): the     *)
(* wait ends.                                                              *)
RenameWaitEnds == pending.path # NoPath ~> pending.path = NoPath
=============================================================================
