------------------------------ MODULE LogView ------------------------------
(***************************************************************************)
(* The log view of one tab: a read-only display that follows the end of a  *)
(* file (src/src/fulgur/ui/log_view).                                      *)
(*                                                                         *)
(* The tab keeps its text buffer; the display is a second buffer filled    *)
(* from that text when the view is switched on and then by a polling task  *)
(* that reads what was appended to the file beyond the offset already      *)
(* consumed.  A task is told to stop by a flag it looks at only when its   *)
(* timer fires, so a read under way is applied after the task was stopped, *)
(* and even after a second task was started for the same tab.              *)
(*                                                                         *)
(* A file is the sequence of its lines; a line is the number it was        *)
(* written under, and lengths in bytes are lengths in lines.  The warning  *)
(* about large files, the flag that offers "Load full", and failures to    *)
(* read the file (which leave everything as it was) are left out.          *)
(***************************************************************************)
EXTENDS Integers, Sequences

CONSTANTS
    LineCap,        \* LOG_LINE_CAP, in lines
    MaxLines,       \* bound: lines ever written to the file
    MaxTruncations, \* bound: times the file is truncated or rotated
    MaxPolls        \* bound: polling tasks ever started

ASSUME LogViewAssumption ==
    /\ LineCap \in Nat \ {0}
    /\ {MaxLines, MaxTruncations, MaxPolls} \subseteq Nat

VARIABLES
    file,       \* the lines of the file on disk
    written,    \* lines written so far
    truncated,  \* times the file was truncated
    buffer,     \* the text of the tab, as last loaded
    active,     \* the tab is the one shown in its window
    log,        \* the view: [on, seeded, follow, full, display, offset, pending]
    poll,       \* log_tail_cancel[tab]: the task that is not told to stop, or 0
    polls,      \* the polling tasks: their step and what they have read
    filled,     \* history: lines written when the display was last filled
    seen,       \* history: truncations before log.offset was taken
    gap         \* history: a truncation was overlooked, or noticed too late

history == <<filled, seen, gap>>
logVars == <<file, written, truncated, buffer, active, log, poll, polls, history>>

Poll == 1 .. MaxPolls
NoPoll == 0
NoChunk == [text |-> <<>>, offset |-> 0, truncated |-> FALSE, seen |-> 0]

\* trim_to_last_lines and the cut of append_log_to_bottom: what is kept.
LastLines(s) == SubSeq(s, Len(s) - LineCap + 1, Len(s))
Trimmed(s) == IF Len(s) > LineCap THEN LastLines(s) ELSE s
Shown(s, full) == IF full THEN s ELSE Trimmed(s)

\* The view switched on; a session restores it on but not yet filled.
LogOn(text, offset) ==
    [on |-> TRUE, seeded |-> TRUE, follow |-> TRUE, full |-> FALSE,
     display |-> Trimmed(text), offset |-> offset, pending |-> <<>>]

LogUnseeded == [LogOn(<<>>, 0) EXCEPT !.seeded = FALSE]

\* start_log_poll_task does nothing while the tab has a task.
StartedOnce(ps, p) ==
    \E q \in Poll :
        /\ ps[q].step = "none"
        /\ \A o \in Poll : ps[o].step = "none" => q <= o
        /\ poll' = q
        /\ polls' = [ps EXCEPT ![q].step = "timer"]

StartPoll ==
    IF poll # NoPoll
    THEN UNCHANGED <<poll, polls>>
    ELSE StartedOnce(polls, poll)

LogInit ==
    /\ file \in {<<1>>, <<1, 2>>}
    /\ written = Len(file)
    /\ truncated = 0
    /\ buffer = file
    /\ \/ active = TRUE /\ poll = 1 /\ log = LogOn(file, Len(file))
       \/ active = FALSE /\ poll = NoPoll /\ log = LogUnseeded
    /\ polls = [p \in Poll |->
            [step |-> IF p = poll THEN "timer" ELSE "none", chunk |-> NoChunk]]
    /\ filled = written /\ seen = 0 /\ gap = FALSE
-----------------------------------------------------------------------------
(* The program that writes the log. *)

LineWritten ==
    /\ written < MaxLines
    /\ written' = written + 1
    /\ file' = Append(file, written')
    /\ UNCHANGED <<truncated, buffer, active, log, poll, polls, history>>

\* The file is emptied, or replaced by a new one with the line just written.
FileTruncated ==
    /\ truncated < MaxTruncations
    /\ truncated' = truncated + 1
    /\ \/ file' = <<>> /\ UNCHANGED written
       \/ written < MaxLines /\ written' = written + 1 /\ file' = <<written'>>
    /\ UNCHANGED <<buffer, active, log, poll, polls, history>>

\* The editor reloads the text of the tab; the display is a buffer of its own.
BufferReloaded ==
    /\ buffer # file
    /\ buffer' = file
    /\ UNCHANGED <<file, written, truncated, active, log, poll, polls, history>>
-----------------------------------------------------------------------------
(* The user. *)

\* The display is filled, and the offset taken from the length of the file.
Filled ==
    /\ filled' = written /\ seen' = truncated /\ gap' = FALSE

\* activate_log_view: the display starts from the buffer, the offset from the
\* length the file has now.
Activate ==
    /\ log' = LogOn(buffer, Len(file))
    /\ Filled
    /\ StartPoll

\* deactivate_log_view keeps the choice of following.
Deactivate ==
    /\ poll' = NoPoll
    /\ log' = [LogUnseeded EXCEPT !.on = FALSE, !.follow = log.follow]
    /\ UNCHANGED <<polls, history>>

ToggleLogView ==
    /\ active
    /\ IF log.on THEN Deactivate ELSE Activate
    /\ UNCHANGED <<file, written, truncated, buffer, active>>

\* flush_log_follow appends what was put aside and trims the display.
Flushed(l) ==
    [l EXCEPT !.follow = TRUE,
              !.display = Shown(l.display \o l.pending, l.full),
              !.pending = <<>>]

ToggleLogFollow ==
    /\ active /\ log.on
    /\ log' = IF log.follow THEN [log EXCEPT !.follow = FALSE] ELSE Flushed(log)
    /\ UNCHANGED <<file, written, truncated, buffer, active, poll, polls, history>>

LoadFullLog ==
    /\ active /\ log.on /\ log.seeded
    /\ log' = [log EXCEPT !.display = file, !.offset = Len(file), !.pending = <<>>,
                          !.full = TRUE, !.follow = TRUE]
    /\ Filled
    /\ UNCHANGED <<file, written, truncated, buffer, active, poll, polls>>

\* set_active_tab stops the polling of the tab it leaves; a new tab does not.
LeaveTab ==
    /\ active
    /\ active' = FALSE
    /\ poll' \in {poll, NoPoll}
    /\ UNCHANGED <<file, written, truncated, buffer, log, polls, history>>

\* set_active_tab resumes it, or fills a view that never was (resume_log_view);
\* close_tab_manage_focus does not.
ReturnToTab ==
    /\ ~active
    /\ active' = TRUE
    /\ CASE log.on /\ ~log.seeded -> Activate
         [] log.on /\ log.seeded -> StartPoll /\ UNCHANGED <<log, history>>
         [] OTHER -> UNCHANGED <<log, poll, polls, history>>
    /\ UNCHANGED <<file, written, truncated, buffer>>

NeighbourClosed ==
    /\ ~active
    /\ active' = TRUE
    /\ UNCHANGED <<file, written, truncated, buffer, log, poll, polls, history>>
-----------------------------------------------------------------------------
(* The polling tasks. *)

\* The timer fires: a stopped task ends, and so does one whose view is off.
TimerFires(p) ==
    /\ polls[p].step = "timer"
    /\ polls' = [polls EXCEPT ![p] =
            [step  |-> IF poll = p /\ log.on THEN "reading" ELSE "ended",
             chunk |-> IF poll = p
                       THEN [NoChunk EXCEPT !.offset = log.offset, !.seen = seen]
                       ELSE NoChunk]]
    /\ UNCHANGED <<file, written, truncated, buffer, active, log, poll, history>>

\* read_new_log_bytes: truncation shows only when the file is shorter than
\* what was consumed.
NewLines(offset) ==
    [text      |-> IF Len(file) < offset THEN file ELSE SubSeq(file, offset + 1, Len(file)),
     offset    |-> Len(file),
     truncated |-> Len(file) < offset,
     seen      |-> truncated]

ReadChunk(p) ==
    /\ polls[p].step = "reading"
    /\ LET chunk == NewLines(polls[p].chunk.offset)
       IN polls' = [polls EXCEPT ![p] =
            IF chunk.text = <<>> /\ ~chunk.truncated
            THEN [step |-> "timer", chunk |-> NoChunk]
            ELSE [step |-> "applying", chunk |-> chunk]]
    /\ gap' = \/ gap
              \/ /\ polls[p].chunk.seen # truncated
                 /\ polls[p].chunk.offset \in 1 .. Len(file)
    /\ UNCHANGED <<file, written, truncated, buffer, active, log, poll, filled, seen>>

AppliedUnbuffered(l, chunk) ==
    CASE chunk.truncated ->
            [l EXCEPT !.offset = chunk.offset, !.pending = <<>>,
                      !.display = Shown(chunk.text, l.full)]
      [] ~chunk.truncated /\ ~l.follow -> [l EXCEPT !.offset = chunk.offset]
      [] OTHER ->
            [l EXCEPT !.offset = chunk.offset, !.pending = <<>>,
                      !.display = Shown(l.display \o chunk.text, l.full)]

\* apply_log_tail_chunk: what the chunk does to a view that is on.
Applied(l, chunk) ==
    CASE chunk.truncated ->
            [l EXCEPT !.offset = chunk.offset, !.pending = <<>>,
                      !.display = Shown(chunk.text, l.full)]
      [] ~chunk.truncated /\ ~l.follow ->
            [l EXCEPT !.offset = chunk.offset, !.pending = @ \o chunk.text]
      [] OTHER ->
            [l EXCEPT !.offset = chunk.offset, !.pending = <<>>,
                      !.display = Shown(l.display \o chunk.text, l.full)]

ApplyChunk(p) ==
    /\ polls[p].step = "applying"
    /\ log' = IF log.seeded THEN Applied(log, polls[p].chunk) ELSE log
    /\ seen' = IF log.seeded THEN polls[p].chunk.seen ELSE seen
    /\ polls' = [polls EXCEPT ![p] = [step |-> "timer", chunk |-> NoChunk]]
    /\ gap' = \/ gap
              \/ log.seeded /\ polls[p].chunk.truncated /\ poll # p
    /\ UNCHANGED <<file, written, truncated, buffer, active, poll, filled>>
-----------------------------------------------------------------------------
PollStep(p) == TimerFires(p) \/ ReadChunk(p) \/ ApplyChunk(p)

LogNext ==
    \/ LineWritten \/ FileTruncated \/ BufferReloaded
    \/ ToggleLogView \/ ToggleLogFollow \/ LoadFullLog
    \/ LeaveTab \/ ReturnToTab \/ NeighbourClosed
    \/ \E p \in Poll : PollStep(p)

\* The executor runs every task it was given and every timer fires.
LogFairness == \A p \in Poll : WF_logVars(PollStep(p))

LogSpec == LogInit /\ [][LogNext]_logVars /\ LogFairness
-----------------------------------------------------------------------------
(* What must hold. *)

LogTypeOK ==
    /\ file \in Seq(1 .. MaxLines) /\ buffer \in Seq(1 .. MaxLines)
    /\ written \in 0 .. MaxLines /\ truncated \in 0 .. MaxTruncations
    /\ log.display \in Seq(1 .. MaxLines) /\ log.pending \in Seq(1 .. MaxLines)
    /\ log.offset \in Nat
    /\ log.seeded => log.on
    /\ poll \in Poll \cup {NoPoll}
    /\ poll # NoPoll => log.on /\ polls[poll].step \in {"timer", "reading", "applying"}

\* A view that stays on, following and polled reads the file to its end.  Of the
\* lines written since it was filled it ends with the last one, and lacks none
\* as long as the cap cut nothing off; some may be there twice, when two tasks
\* read them.  Set apart are two cases of a truncated file.  It is read on from
\* the offset before, which read_new_log_bytes does when the new file is not
\* shorter than that: the view then lacks the beginning of the new file.  Or a
\* task that was told to stop notices it, and empties the display under the task
\* that came after it.
Followed == log.seeded /\ log.follow /\ poll # NoPoll
NewLinesShown ==
    \A i \in DOMAIN file : file[i] > filled =>
        /\ log.display # <<>> /\ log.display[Len(log.display)] = file[Len(file)]
        /\ log.full \/ Len(log.display) < LineCap =>
              \E k \in DOMAIN log.display : log.display[k] = file[i]
TailIsShown ==
    <>[]Followed =>
        <>[](log.offset = Len(file) /\ (~gap => NewLinesShown))

\* What the module comment of log_view says of a paused view ("when off, the
\* view is frozen"), and the code does not do when the file is truncated.
PausedIsFrozen ==
    [][log.seeded /\ ~log.follow /\ ~log'.follow => log'.display \in {log.display, <<>>}]_logVars
=============================================================================
