------------------------- MODULE WindowQueuesProofs -------------------------
(***************************************************************************)
(* Proofs about the queues of WindowQueues.                                *)
(*                                                                         *)
(* The file watcher, for any set of paths, any capacity and any number of  *)
(* notifications: a file renamed away is reported at most once.  The       *)
(* accumulator and the two histories decide it alone: a half leaves the    *)
(* accumulator in the step that reports it, whether the event then finds a *)
(* place in the channel or not.                                            *)
(*                                                                         *)
(* The requests, for any windows, files and number of requests: a window   *)
(* shows a file twice only if both tabs were asked for before either was   *)
(* read.  A read is between the two, and what is remembered of it is which *)
(* reads of the file the window had when it began; so the invariant speaks *)
(* of tabs and reads alike, and relates each two of one file and window.   *)
(***************************************************************************)
EXTENDS WindowQueues, SequenceTheorems, FiniteSetTheorems, TLAPS

-----------------------------------------------------------------------------
(***************************************************************************)
(* The events of the file watcher.                                         *)
(***************************************************************************)

\* A half in the accumulator is of a path; an empty accumulator is not stale.
AccumulatorType ==
    /\ pending \in [path : Paths, stale : BOOLEAN] \cup {NonePending}
    /\ moved \in [Paths -> Nat]
    /\ reported \in [Paths -> Nat]

WatcherInv == AccumulatorType /\ ReportedOnce

-----------------------------------------------------------------------------
\* What the type says of the accumulator, in the words of the steps.
LEMMA Accumulator ==
    ASSUME AccumulatorType
    PROVE  /\ pending = NonePending \/ pending.path \in Paths
           /\ pending.path # NoPath <=> pending.path \in Paths
           /\ pending.stale \in BOOLEAN
           /\ pending.stale => pending.path \in Paths
           /\ NonePending.path = NoPath /\ ~NonePending.stale
           /\ NoPath \notin Paths
<1>1. NonePending.path = NoPath /\ ~NonePending.stale /\ NonePending.stale \in BOOLEAN
  BY DEF NonePending
<1>2. NoPath \notin Paths
  BY FileWatcherAssumption
<1>3. CASE pending \in [path : Paths, stale : BOOLEAN]
  <2>1. pending.path \in Paths /\ pending.stale \in BOOLEAN
    BY <1>3
  <2>. QED  BY <1>1, <1>2, <2>1
<1>4. CASE pending = NonePending
  BY <1>1, <1>2, <1>4
<1>. QED  BY <1>3, <1>4 DEF AccumulatorType

\* Reporting the half that is there gives it up.
LEMMA ReportAndClear ==
    ASSUME WatcherInv, pending.path \in Paths, pending' = NonePending,
           reported' = [reported EXCEPT ![pending.path] = @ + 1], moved' = moved
    PROVE  WatcherInv'
<1>1. AccumulatorType'
  BY DEF WatcherInv, AccumulatorType
<1>2. ASSUME NEW p \in Paths
      PROVE  reported'[p] + (IF pending'.path = p THEN 1 ELSE 0) <= moved'[p]
  <2>1. pending'.path # p
    BY <1>2, Accumulator DEF WatcherInv
  <2>2. reported[p] \in Nat /\ moved[p] \in Nat
        /\ reported[p] + (IF pending.path = p THEN 1 ELSE 0) <= moved[p]
    BY <1>2 DEF WatcherInv, AccumulatorType, ReportedOnce
  <2>3. reported'[p] = reported[p] + (IF pending.path = p THEN 1 ELSE 0)
    BY <1>2, <2>2 DEF WatcherInv, AccumulatorType
  <2>. QED  BY <2>1, <2>2, <2>3
<1>. QED  BY <1>1, <1>2 DEF WatcherInv, ReportedOnce

\* Giving up whatever is there without a report keeps the balance.
LEMMA ClearOnly ==
    ASSUME WatcherInv, pending' = NonePending, reported' = reported, moved' = moved
    PROVE  WatcherInv'
<1>1. AccumulatorType'
  BY DEF WatcherInv, AccumulatorType
<1>2. ASSUME NEW p \in Paths
      PROVE  reported'[p] + (IF pending'.path = p THEN 1 ELSE 0) <= moved'[p]
  <2>1. pending'.path # p
    BY <1>2, Accumulator DEF WatcherInv
  <2>2. reported[p] \in Nat /\ moved[p] \in Nat
        /\ reported[p] + (IF pending.path = p THEN 1 ELSE 0) <= moved[p]
    BY <1>2 DEF WatcherInv, AccumulatorType, ReportedOnce
  <2>. QED  BY <2>1, <2>2
<1>. QED  BY <1>1, <1>2 DEF WatcherInv, ReportedOnce

\* expire_pending_rename_from: by the callback thread or by the timer.
LEMMA Expire ==
    ASSUME WatcherInv, pending' = Expired(pending), reported' = ExpiredReports, moved' = moved
    PROVE  WatcherInv'
<1>1. CASE pending.stale
  BY <1>1, Accumulator, ReportAndClear DEF WatcherInv, Expired, ExpiredReports
<1>2. CASE ~pending.stale
  BY <1>2 DEF WatcherInv, AccumulatorType, ReportedOnce, Expired, ExpiredReports
<1>. QED  BY <1>1, <1>2

-----------------------------------------------------------------------------
(* The notifications. *)

\* The first half of a rename: an earlier one that is stale is reported, one
\* that is not is forgotten.
LEMMA FromStep ==
    ASSUME WatcherInv, NEW p \in Paths, NotifyFrom(p)
    PROVE  WatcherInv'
<1>1. /\ pending' = [path |-> p, stale |-> FALSE]
      /\ moved' = [moved EXCEPT ![p] = @ + 1]
      /\ reported' = ExpiredReports
  BY DEF NotifyFrom
<1>2. reported' \in [Paths -> Nat]
  BY <1>1, Accumulator DEF WatcherInv, AccumulatorType, ExpiredReports
<1>3. AccumulatorType'
  <2>1. pending' \in [path : Paths, stale : BOOLEAN]
    BY <1>1
  <2>2. moved' \in [Paths -> Nat]
    BY <1>1 DEF WatcherInv, AccumulatorType
  <2>. QED  BY <1>2, <2>1, <2>2 DEF AccumulatorType
<1>4. ASSUME NEW q \in Paths
      PROVE  reported'[q] + (IF pending'.path = q THEN 1 ELSE 0) <= moved'[q]
  <2>1. reported[q] \in Nat /\ moved[q] \in Nat
        /\ reported[q] + (IF pending.path = q THEN 1 ELSE 0) <= moved[q]
    BY <1>4 DEF WatcherInv, AccumulatorType, ReportedOnce
  <2>2. reported'[q] <= reported[q] + (IF pending.path = q THEN 1 ELSE 0)
    BY <1>1, <1>4, <2>1, Accumulator DEF WatcherInv, AccumulatorType, ExpiredReports
  <2>3. moved'[q] = moved[q] + (IF p = q THEN 1 ELSE 0) /\ pending'.path = p
    BY <1>1, <1>4, <2>1 DEF WatcherInv, AccumulatorType
  <2>4. reported'[q] \in Nat
    BY <1>2, <1>4
  <2>. QED  BY <2>1, <2>2, <2>3, <2>4
<1>. QED  BY <1>3, <1>4 DEF WatcherInv, ReportedOnce

\* The second half: paired with a first half that is there, and not stale.
LEMMA ToStep ==
    ASSUME WatcherInv, NEW p \in Paths, NotifyTo(p)
    PROVE  WatcherInv'
<1>1. pending' = NonePending /\ moved' = moved
  BY DEF NotifyTo
<1>2. CASE pending.path # NoPath /\ ~pending.stale
  <2>1. reported' = [reported EXCEPT ![pending.path] = @ + 1]
    BY <1>2 DEF NotifyTo
  <2>. QED  BY <1>1, <1>2, <2>1, Accumulator, ReportAndClear DEF WatcherInv
<1>3. CASE pending.path = NoPath \/ pending.stale
  <2>1. reported' = ExpiredReports
    BY <1>3, Accumulator DEF NotifyTo, WatcherInv
  <2>2. CASE pending.stale
    BY <1>1, <2>1, <2>2, Accumulator, ReportAndClear DEF WatcherInv, ExpiredReports
  <2>3. CASE ~pending.stale
    BY <1>1, <2>1, <2>3, ClearOnly DEF ExpiredReports
  <2>. QED  BY <2>2, <2>3
<1>. QED  BY <1>2, <1>3

\* Every other rename: whatever is in the accumulator is reported.
LEMMA AnyStep ==
    ASSUME WatcherInv, NEW events, NotifyAny(events)
    PROVE  WatcherInv'
<1>1. pending' = NonePending /\ moved' = moved
  BY DEF NotifyAny
<1>2. CASE pending.path # NoPath
  <2>1. reported' = [reported EXCEPT ![pending.path] = @ + 1]
    BY <1>2 DEF NotifyAny
  <2>. QED  BY <1>1, <1>2, <2>1, Accumulator, ReportAndClear DEF WatcherInv
<1>3. CASE pending.path = NoPath
  <2>1. reported' = reported
    BY <1>3 DEF NotifyAny
  <2>. QED  BY <1>1, <2>1, ClearOnly
<1>. QED  BY <1>2, <1>3

\* The passing of time changes no path.
LEMMA TimeoutStep == ASSUME WatcherInv, TimeoutPasses PROVE WatcherInv'
<1>1. /\ pending.path \in Paths /\ pending' = [pending EXCEPT !.stale = TRUE]
      /\ moved' = moved /\ reported' = reported
  BY Accumulator DEF WatcherInv, TimeoutPasses
<1>2. pending \in [path : Paths, stale : BOOLEAN]
  BY <1>1, Accumulator DEF WatcherInv, AccumulatorType
<1>3. pending' \in [path : Paths, stale : BOOLEAN] /\ pending'.path = pending.path
  BY <1>1, <1>2
<1>. QED  BY <1>1, <1>3 DEF WatcherInv, AccumulatorType, ReportedOnce

LEMMA WatcherInitInv == WatcherInit => WatcherInv
<1>1. SUFFICES ASSUME WatcherInit PROVE WatcherInv
  OBVIOUS
<1>2. AccumulatorType
  BY <1>1 DEF WatcherInit, AccumulatorType
<1>. QED  BY <1>1, <1>2, Accumulator DEF WatcherInit, WatcherInv, ReportedOnce

LEMMA WatcherStepInv == WatcherInv /\ [WatcherNext]_watcherVars => WatcherInv'
<1>. SUFFICES ASSUME WatcherInv, [WatcherNext]_watcherVars PROVE WatcherInv'
  OBVIOUS
<1>1. ASSUME NEW event, NotifyChange(event) PROVE WatcherInv'
  BY <1>1, Expire DEF NotifyChange
<1>2. ASSUME NEW p \in Paths, NotifyFrom(p) PROVE WatcherInv'
  BY <1>2, FromStep
<1>3. ASSUME NEW p \in Paths, NotifyTo(p) PROVE WatcherInv'
  BY <1>3, ToStep
<1>4. ASSUME NEW events, NotifyAny(events) PROVE WatcherInv'
  BY <1>4, AnyStep
<1>5. CASE TimeoutPasses
  BY <1>5, TimeoutStep
<1>6. CASE ConsumerTimer
  BY <1>6, Expire DEF ConsumerTimer
<1>7. CASE NotifyError \/ ConsumerLooksAtPending \/ ConsumerTakesEvent
           \/ UNCHANGED watcherVars
  BY <1>7 DEF NotifyError, ConsumerLooksAtPending, ConsumerTakesEvent, watcherVars,
              WatcherInv, AccumulatorType, ReportedOnce
<1>. QED  BY <1>1, <1>2, <1>3, <1>4, <1>5, <1>6, <1>7 DEF WatcherNext, ConsumerStep

\* The invariant of the file watcher: the accumulator holds a watched path or
\* nothing, and no half is both reported and held (watcher.rs).
THEOREM WatcherInvariance == WatcherSpec => []WatcherInv
BY WatcherInitInv, WatcherStepInv, PTL DEF WatcherSpec

\* However the callback thread and the consumer's timer race for the half of a
\* rename, and however full the channel is, one file renamed away is not reported
\* twice.
THEOREM RenameReportedOnce == WatcherSpec => []ReportedOnce
<1>1. WatcherInv => ReportedOnce
  BY DEF WatcherInv
<1>. QED  BY <1>1, WatcherInvariance, PTL

-----------------------------------------------------------------------------
(***************************************************************************)
(* The requests.                                                           *)
(***************************************************************************)

(* A window's list of tabs. *)

Opened(s) == {s[i] : i \in 1 .. Len(s)} \ {BlankTab}
\* No tab but a blank one is there twice.
Apart(s) == \A i, j \in 1 .. Len(s) : s[i] = s[j] /\ s[i] # BlankTab => i = j
TabList == Seq(Request \cup {BlankTab})

LEMMA Removed ==
    ASSUME NEW s \in TabList, NEW i \in 1 .. Len(s), Apart(s)
    PROVE  /\ RemoveAt(s, i) \in TabList /\ Apart(RemoveAt(s, i))
           /\ Opened(RemoveAt(s, i)) \subseteq Opened(s)
<1>. DEFINE E == Request \cup {BlankTab}
            a == SubSeq(s, 1, i - 1)
            b == SubSeq(s, i + 1, Len(s))
            t == a \o b
<1>1. Len(s) \in Nat /\ i \in Nat /\ \A k \in 1 .. Len(s) : s[k] \in E
  BY DEF TabList
<1>2. /\ a \in Seq(E) /\ Len(a) = i - 1
      /\ \A k \in 1 .. i - 1 : a[k] = s[k]
  BY <1>1, SubSeqProperties
<1>3. /\ b \in Seq(E) /\ Len(b) = Len(s) - i
      /\ \A k \in 1 .. Len(s) - i : b[k] = s[k + i]
  BY <1>1, SubSeqProperties
<1>. HIDE DEF a, b
<1>4. /\ t \in Seq(E) /\ Len(t) = Len(a) + Len(b)
      /\ \A k \in 1 .. Len(a) + Len(b) :
            t[k] = IF k <= Len(a) THEN a[k] ELSE b[k - Len(a)]
  <2>1. a \in Seq(E) /\ b \in Seq(E)
    BY <1>2, <1>3
  <2>. HIDE DEF E
  <2>. QED  BY <2>1, ConcatProperties
<1>5. RemoveAt(s, i) = t
  BY DEF RemoveAt, a, b
<1>. HIDE DEF t, E
<1>6. Len(t) = Len(s) - 1
  BY <1>1, <1>2, <1>3, <1>4
<1>7. ASSUME NEW k \in 1 .. Len(t)
      PROVE  t[k] = s[IF k < i THEN k ELSE k + 1]
  <2>1. CASE k < i
    BY <1>1, <1>2, <1>4, <1>6, <2>1
  <2>2. CASE ~(k < i)
    <3>1. k - (i - 1) \in 1 .. Len(s) - i /\ (k - (i - 1)) + i = k + 1
      BY <1>1, <1>6, <2>2
    <3>2. b[k - (i - 1)] = s[k + 1]
      BY <1>3, <3>1
    <3>. QED  BY <1>1, <1>2, <1>3, <1>4, <1>6, <2>2, <3>2
  <2>. QED  BY <2>1, <2>2
<1>8. \A k \in 1 .. Len(t) : (IF k < i THEN k ELSE k + 1) \in 1 .. Len(s)
  BY <1>1, <1>6
<1>9. Apart(t)
  <2>. SUFFICES ASSUME NEW k \in 1 .. Len(t), NEW l \in 1 .. Len(t),
                       t[k] = t[l], t[k] # BlankTab
                PROVE  k = l
    BY DEF Apart
  <2>1. (IF k < i THEN k ELSE k + 1) = (IF l < i THEN l ELSE l + 1)
    BY <1>7, <1>8 DEF Apart
  <2>. QED  BY <1>1, <1>6, <2>1
<1>10. Opened(t) \subseteq Opened(s)
  BY <1>7, <1>8 DEF Opened
<1>. QED  BY <1>4, <1>5, <1>9, <1>10 DEF TabList, E

LEMMA WithoutLast ==
    ASSUME NEW s \in TabList, s # <<>>, Apart(s)
    PROVE  /\ Front(s) \in TabList /\ Apart(Front(s))
           /\ Opened(Front(s)) \subseteq Opened(s)
<1>. DEFINE E == Request \cup {BlankTab}
            n == Len(s) - 1
            t == SubSeq(s, 1, n)
<1>1. n \in Nat /\ Len(s) = n + 1 /\ \A k \in 1 .. n + 1 : s[k] \in E
  BY EmptySeq DEF TabList
<1>2. Front(s) = t
  BY DEF Front
<1>. HIDE DEF n
<1>3. \A k \in 1 .. n : s[k] \in E
  BY <1>1
<1>a. t \in Seq(E)
  BY <1>1, <1>3
<1>b. Len(t) = n
  BY <1>1, <1>3
<1>c. \A k \in 1 .. n : t[k] = s[k]
  BY <1>1, <1>3
<1>4. t \in Seq(E) /\ Len(t) = n /\ \A k \in 1 .. n : t[k] = s[k]
  BY <1>a, <1>b, <1>c
<1>. HIDE DEF t
<1>. QED  BY <1>1, <1>2, <1>4 DEF TabList, Apart, Opened

LEMMA Added ==
    ASSUME NEW s \in TabList, Apart(s), NEW r \in Request, r \notin Opened(s)
    PROVE  /\ Append(s, r) \in TabList /\ Apart(Append(s, r))
           /\ Opened(Append(s, r)) \subseteq Opened(s) \cup {r}
<1>. DEFINE E == Request \cup {BlankTab}
            t == Append(s, r)
<1>1. Len(s) \in Nat /\ r \in E /\ r # BlankTab
  BY DEF TabList, Request, BlankTab
<1>2. /\ t \in Seq(E) /\ Len(t) = Len(s) + 1
      /\ \A k \in 1 .. Len(s) : t[k] = s[k]
      /\ t[Len(s) + 1] = r
  BY <1>1, AppendProperties DEF TabList
<1>. HIDE DEF t
<1>3. \A k \in 1 .. Len(t) : k \in 1 .. Len(s) \/ k = Len(s) + 1
  BY <1>1, <1>2
<1>4. \A k \in 1 .. Len(s) : s[k] # r
  BY <1>1 DEF Opened
<1>5. Apart(t)
  BY <1>1, <1>2, <1>3, <1>4 DEF Apart
<1>6. Opened(t) \subseteq Opened(s) \cup {r}
  BY <1>2, <1>3 DEF Opened
<1>. QED  BY <1>2, <1>5, <1>6 DEF TabList, t

LEMMA BlanksAdded ==
    ASSUME NEW s \in TabList, Apart(s), NEW n \in Nat
    PROVE  LET t == s \o [i \in 1 .. n |-> BlankTab]
           IN  t \in TabList /\ Apart(t) /\ Opened(t) \subseteq Opened(s)
<1>. DEFINE E == Request \cup {BlankTab}
            b == [i \in 1 .. n |-> BlankTab]
            t == s \o b
<1>1. Len(s) \in Nat /\ b \in Seq(E) /\ Len(b) = n /\ \A i \in 1 .. n : b[i] = BlankTab
  BY DEF TabList
<1>. HIDE DEF b
<1>2. /\ t \in Seq(E) /\ Len(t) = Len(s) + n
      /\ \A i \in 1 .. Len(s) + n : t[i] = IF i <= Len(s) THEN s[i] ELSE b[i - Len(s)]
  BY <1>1, ConcatProperties DEF TabList
<1>. HIDE DEF t
<1>3. \A i \in 1 .. Len(t) : \/ i \in 1 .. Len(s) /\ t[i] = s[i]
                             \/ t[i] = BlankTab
  <2>. TAKE i \in 1 .. Len(t)
  <2>1. CASE i <= Len(s)
    BY <1>1, <1>2, <2>1
  <2>2. CASE ~(i <= Len(s))
    <3>1. i - Len(s) \in 1 .. n
      BY <1>1, <1>2, <2>2
    <3>. QED  BY <1>1, <1>2, <2>2, <3>1
  <2>. QED  BY <2>1, <2>2
<1>4. Apart(t) /\ Opened(t) \subseteq Opened(s)
  BY <1>3 DEF Apart, Opened
<1>. QED  BY <1>2, <1>4 DEF TabList, t, b

-----------------------------------------------------------------------------
(* Requests and the tabs they opened. *)

RequestRecord ==
    [what : Files \cup {Untitled, NewTab, NewWindow},
     step : {"none", "argument", "sent", "queued", "reading", "ended"},
     window : Windows \cup {NoWindow}, rivals : SUBSET Request]

\* One of the two was there before the other was read.
Overlap(q, a, b) == a \in q[b].rivals \/ b \in q[a].rivals

\* The requests q with the tabs ts: a tab was opened by a request that ended, and
\* wherever a file is shown or being read for one window twice, the requests overlap.
Sound(q, ts) ==
    /\ \A w \in Windows : \A a \in Opened(ts[w]) : q[a].step = "ended"
    /\ \A w \in Windows : \A a, b \in Opened(ts[w]) :
          a # b /\ q[a].what = q[b].what => Overlap(q, a, b)
    /\ \A r \in Request : q[r].step = "reading" =>
          /\ q[r].window \in Windows
          /\ \A a \in Opened(ts[q[r].window]) :
                q[a].what = q[r].what => Overlap(q, a, r)
          /\ \A o \in Request :
                /\ q[o].step = "reading" /\ q[o].window = q[r].window
                /\ q[o].what = q[r].what /\ o # r
                => Overlap(q, o, r)

\* What a step does to the requests: those that ended keep what they were, and a
\* read that begins is of a file the window does not show, and its request knows
\* every other read of it.
Begins(q, q2, ts) ==
    \A r \in Request :
       /\ q[r].step = "ended" =>
             /\ q2[r].step = "ended" /\ q2[r].what = q[r].what
             /\ q2[r].rivals = q[r].rivals
       /\ q2[r].step = "reading" =>
             \/ q2[r] = q[r]
             \/ /\ q2[r].window \in Windows
                /\ \A a \in Opened(ts[q2[r].window]) : q[a].what # q2[r].what
                /\ \A o \in Request :
                      /\ q2[o].step = "reading" /\ q2[o].window = q2[r].window
                      /\ q2[o].what = q2[r].what /\ o # r
                      => o \in q2[r].rivals

Fewer(ts, ts2) == \A w \in Windows : Opened(ts2[w]) \subseteq Opened(ts[w])

LEMMA OpenedIsAsked ==
    ASSUME NEW ts \in [Windows -> TabList], NEW w \in Windows
    PROVE  Opened(ts[w]) \subseteq Request
BY DEF TabList, Opened

LEMMA BeginsSound ==
    ASSUME NEW q, NEW q2, NEW ts \in [Windows -> TabList], NEW ts2,
           Sound(q, ts), Begins(q, q2, ts), Fewer(ts, ts2)
    PROVE  Sound(q2, ts2)
<1>1. ASSUME NEW w \in Windows, NEW a \in Opened(ts2[w])
      PROVE  /\ a \in Opened(ts[w]) /\ a \in Request
             /\ q[a].step = "ended" /\ q2[a].step = "ended"
             /\ q2[a].what = q[a].what /\ q2[a].rivals = q[a].rivals
  <2>1. a \in Opened(ts[w]) /\ a \in Request
    BY <1>1, OpenedIsAsked DEF Fewer
  <2>. QED  BY <2>1 DEF Sound, Begins
<1>2. ASSUME NEW w \in Windows, NEW a \in Opened(ts2[w]), NEW b \in Opened(ts2[w]),
             a # b, q2[a].what = q2[b].what
      PROVE  Overlap(q2, a, b)
  <2>1. Overlap(q, a, b)
    BY <1>1, <1>2 DEF Sound
  <2>. QED  BY <1>1, <2>1 DEF Overlap
<1>3. ASSUME NEW r \in Request, q2[r].step = "reading"
      PROVE  /\ q2[r].window \in Windows
             /\ \A a \in Opened(ts2[q2[r].window]) :
                   q2[a].what = q2[r].what => Overlap(q2, a, r)
  <2>1. q2[r].window \in Windows
    BY <1>3 DEF Begins, Sound
  <2>2. ASSUME NEW a \in Opened(ts2[q2[r].window]), q2[a].what = q2[r].what
        PROVE  Overlap(q2, a, r)
    <3>1. /\ a \in Opened(ts[q2[r].window]) /\ q2[a].what = q[a].what
          /\ q2[a].rivals = q[a].rivals
      BY <1>1, <2>1, <2>2
    <3>2. q2[r] = q[r]
      BY <1>3, <2>2, <3>1 DEF Begins
    <3>3. Overlap(q, a, r)
      BY <1>3, <2>2, <3>1, <3>2 DEF Sound
    <3>. QED  BY <3>1, <3>2, <3>3 DEF Overlap
  <2>. QED  BY <2>1, <2>2
<1>4. ASSUME NEW r \in Request, NEW o \in Request, o # r,
             q2[r].step = "reading", q2[o].step = "reading",
             q2[o].window = q2[r].window, q2[o].what = q2[r].what
      PROVE  Overlap(q2, o, r)
  <2>1. CASE q2[r] = q[r] /\ q2[o] = q[o]
    <3>1. Overlap(q, o, r)
      BY <1>4, <2>1 DEF Sound
    <3>. QED  BY <2>1, <3>1 DEF Overlap
  <2>2. CASE q2[r] # q[r]
    BY <1>4, <2>2 DEF Begins, Overlap
  <2>3. CASE q2[o] # q[o]
    BY <1>4, <2>3 DEF Begins, Overlap
  <2>. QED  BY <2>1, <2>2, <2>3
<1>. QED  BY <1>1, <1>2, <1>3, <1>4 DEF Sound

\* A read that ends well: its request takes its place among the tabs.
LEMMA ReadSound ==
    ASSUME NEW q \in [Request -> RequestRecord], NEW r \in Request,
           NEW ts \in [Windows -> TabList], NEW ts2, Sound(q, ts), q[r].step = "reading",
           \A w \in Windows : Opened(ts2[w]) \subseteq
              Opened(ts[w]) \cup (IF w = q[r].window THEN {r} ELSE {})
    PROVE  Sound([q EXCEPT ![r] = Done(q[r])], ts2)
<1>. DEFINE q2 == [q EXCEPT ![r] = Done(q[r])]
<1>0. /\ q2 \in [Request -> RequestRecord]
      /\ q2[r].step = "ended" /\ q2[r].what = q[r].what /\ q2[r].rivals = q[r].rivals
      /\ \A o \in Request : o # r => q2[o] = q[o]
  BY DEF RequestRecord, Done
<1>. HIDE DEF q2
<1>1. ASSUME NEW w \in Windows, NEW a \in Opened(ts2[w])
      PROVE  /\ a \in Request
             /\ \/ a = r /\ w = q[r].window
                \/ a \in Opened(ts[w]) /\ a # r /\ q[a].step = "ended"
  <2>1. \A b \in Opened(ts[w]) : b \in Request /\ q[b].step = "ended"
    BY OpenedIsAsked DEF Sound
  <2>. QED  BY <2>1
<1>2. \A a \in Request : q2[a].what = q[a].what /\ q2[a].rivals = q[a].rivals
  BY <1>0
<1>3. ASSUME NEW w \in Windows, NEW a \in Opened(ts2[w]) PROVE q2[a].step = "ended"
  BY <1>0, <1>1
<1>4. ASSUME NEW w \in Windows, NEW a \in Opened(ts2[w]), NEW b \in Opened(ts2[w]),
             a # b, q2[a].what = q2[b].what
      PROVE  Overlap(q2, a, b)
  <2>1. a \in Request /\ b \in Request /\ q[a].what = q[b].what
    BY <1>1, <1>2, <1>4
  <2>2. Overlap(q, a, b)
    <3>1. CASE a = r
      BY <1>1, <1>4, <2>1, <3>1 DEF Sound, Overlap
    <3>2. CASE b = r
      BY <1>1, <1>4, <2>1, <3>2 DEF Sound, Overlap
    <3>3. CASE a # r /\ b # r
      BY <1>1, <1>4, <2>1, <3>3 DEF Sound
    <3>. QED  BY <3>1, <3>2, <3>3
  <2>. QED  BY <1>2, <2>1, <2>2 DEF Overlap
<1>5. ASSUME NEW o \in Request, q2[o].step = "reading"
      PROVE  /\ o # r /\ q2[o] = q[o] /\ q[o].window \in Windows
  BY <1>0, <1>5 DEF Sound
<1>6. ASSUME NEW o \in Request, q2[o].step = "reading",
             NEW a \in Opened(ts2[q2[o].window]), q2[a].what = q2[o].what
      PROVE  Overlap(q2, a, o)
  <2>1. a \in Request /\ q[a].what = q[o].what /\ q[o].step = "reading"
    BY <1>1, <1>2, <1>5, <1>6
  <2>2. Overlap(q, a, o)
    <3>1. CASE a = r
      BY <1>1, <1>5, <1>6, <2>1, <3>1 DEF Sound
    <3>2. CASE a # r
      BY <1>1, <1>5, <1>6, <2>1, <3>2 DEF Sound
    <3>. QED  BY <3>1, <3>2
  <2>. QED  BY <1>2, <2>1, <2>2 DEF Overlap
<1>7. ASSUME NEW o \in Request, NEW p \in Request, o # p,
             q2[o].step = "reading", q2[p].step = "reading",
             q2[p].window = q2[o].window, q2[p].what = q2[o].what
      PROVE  Overlap(q2, p, o)
  <2>1. Overlap(q, p, o)
    BY <1>5, <1>7 DEF Sound
  <2>. QED  BY <1>2, <2>1 DEF Overlap
<1>. QED  BY <1>3, <1>4, <1>5, <1>6, <1>7 DEF Sound, q2

-----------------------------------------------------------------------------
(* The invariant of the requests. *)

OpenTypes ==
    /\ tabs \in [Windows -> TabList]
    /\ request \in [Request -> RequestRecord]
    /\ pendingFiles \in Seq(Request) /\ commands \in Seq(Request)

OpenInv ==
    /\ OpenTypes
    /\ \A i \in 1 .. Len(pendingFiles) : request[pendingFiles[i]].step = "queued"
    /\ \A w \in Windows : Apart(tabs[w])
    /\ Sound(request, tabs)

LEMMA RecordTypes ==
    /\ NotAsked \in RequestRecord
    /\ \A r \in RequestRecord : /\ Done(r) \in RequestRecord /\ Done(r).step = "ended"
                                /\ Done(r).what = r.what /\ Done(r).rivals = r.rivals
BY DEF NotAsked, RequestRecord, Done

LEMMA AskedFields ==
    ASSUME NEW what \in Files \cup {Untitled, NewTab, NewWindow}, NEW w \in Windows \cup {NoWindow},
           NEW step \in {"none", "argument", "sent", "queued", "reading", "ended"}
    PROVE  /\ Asked(what, step, w) \in RequestRecord
           /\ Asked(what, step, w).what = what /\ Asked(what, step, w).step = step
           /\ Asked(what, step, w).window = w
BY DEF Asked, NotAsked, RequestRecord

LEMMA OpenInitInv == OpenInit => OpenInv
<1>. SUFFICES ASSUME OpenInit PROVE OpenInv
  OBVIOUS
<1>1. /\ tabs = [w \in Windows |-> <<>>] /\ pendingFiles = <<>> /\ commands = <<>>
  BY DEF OpenInit
<1>2. 1 \in Windows
  BY OpenRequestsAssumption
<1>3. /\ request \in [Request -> RequestRecord]
      /\ \A r \in Request : request[r].step \in {"none", "argument"}
  <2>1. CASE request = [r \in Request |-> NotAsked]
    BY <2>1, RecordTypes DEF NotAsked
  <2>2. CASE \E p \in Files : request = [r \in Request |->
                IF r = 1 THEN Asked(p, "argument", 1) ELSE NotAsked]
    <3>1. PICK p \in Files : request = [r \in Request |->
                IF r = 1 THEN Asked(p, "argument", 1) ELSE NotAsked]
      BY <2>2
    <3>2. /\ Asked(p, "argument", 1) \in RequestRecord
          /\ Asked(p, "argument", 1).step = "argument"
      BY <1>2, AskedFields
    <3>. QED  BY <3>1, <3>2, RecordTypes DEF NotAsked
  <2>. QED  BY <2>1, <2>2 DEF OpenInit
<1>4. \A w \in Windows : tabs[w] = <<>> /\ Opened(tabs[w]) = {} /\ Apart(tabs[w])
  BY <1>1 DEF Opened, Apart
<1>5. Sound(request, tabs)
  BY <1>3, <1>4 DEF Sound
<1>6. OpenTypes
  BY <1>1, <1>3 DEF OpenTypes, TabList
<1>. QED  BY <1>1, <1>4, <1>5, <1>6 DEF OpenInv

\* Steps that leave requests and tabs alone.
OpenKept == UNCHANGED <<request, tabs, pendingFiles, commands>>

LEMMA KeptStep == ASSUME OpenInv, OpenKept PROVE OpenInv'
BY DEF OpenInv, OpenTypes, OpenKept, Sound, Overlap, Apart, Opened

\* The other steps, by what they do to requests, tabs and queues.
Lists(ts) == /\ ts \in [Windows -> TabList] /\ \A w \in Windows : Apart(ts[w])
             /\ Fewer(tabs, ts)
Waits(q, list) == list \in Seq(Request) /\ \A i \in 1 .. Len(list) : q[list[i]].step = "queued"

LEMMA AssembleStep ==
    ASSUME NEW q \in [Request -> RequestRecord], NEW ts \in [Windows -> TabList],
           \A w \in Windows : Apart(ts[w]), Sound(q, ts),
           NEW list, Waits(q, list), commands' \in Seq(Request),
           request' = q, tabs' = ts, pendingFiles' = list
    PROVE  OpenInv'
<1>1. OpenTypes'
  BY DEF OpenTypes, Waits
<1>2. \A i \in 1 .. Len(list) : q[list[i]].step = "queued"
  BY DEF Waits
<1>3. Sound(request', tabs')
  OBVIOUS
<1>. QED  BY <1>1, <1>2, <1>3 DEF OpenInv, Sound, Apart, Opened, Overlap

LEMMA RequestsStep ==
    ASSUME OpenInv, NEW q \in [Request -> RequestRecord], Begins(request, q, tabs),
           NEW ts, Lists(ts), NEW list, Waits(q, list), commands' \in Seq(Request),
           request' = q, tabs' = ts, pendingFiles' = list
    PROVE  OpenInv'
<1>1. Sound(q, ts)
  BY BeginsSound DEF OpenInv, OpenTypes, Lists
<1>. QED  BY <1>1, AssembleStep DEF Lists

LEMMA KeptLists == OpenInv => Lists(tabs)
BY DEF OpenInv, OpenTypes, Lists, Fewer

\* A request that was not made yet is of no one's concern.
LEMMA NextIsNew ==
    ASSUME OpenInv, NEW r, NextRequest(r)
    PROVE  /\ r \in Request /\ request[r].step = "none"
           /\ \A i \in 1 .. Len(pendingFiles) : pendingFiles[i] # r
BY DEF OpenInv, NextRequest

\* A file that is not among those a window shows is of none of its tabs.
LEMMA OpenedIsShown ==
    ASSUME OpenInv, NEW w \in Windows, NEW a \in Opened(tabs[w])
    PROVE  request[a].what \in WhatsOf(w)
<1>1. PICK i \in 1 .. Len(tabs[w]) : tabs[w][i] = a
  BY DEF Opened
<1>2. a # BlankTab /\ DOMAIN tabs[w] = 1 .. Len(tabs[w])
  BY DEF Opened, OpenInv, OpenTypes, TabList
<1>3. WhatOf(tabs[w][i]) = request[a].what
  BY <1>1, <1>2 DEF WhatOf
<1>. QED  BY <1>1, <1>2, <1>3 DEF WhatsOf

\* do_open_file: a read begins only if no tab of the window shows the file, and
\* knows the others.
LEMMA DispatchBegins ==
    ASSUME OpenInv, NEW w \in Windows, NEW asked \in SUBSET Request,
           NEW reqs \in [Request -> RequestRecord],
           \A r \in Request : IF r \in asked
               THEN request[r].step \notin {"reading", "ended"}
               ELSE reqs[r] = request[r]
    PROVE  /\ Dispatched(reqs, w, asked) \in [Request -> RequestRecord]
           /\ Begins(request, Dispatched(reqs, w, asked), tabs)
           /\ \A r \in Request \ asked : Dispatched(reqs, w, asked)[r] = request[r]
<1>. DEFINE d == Dispatched(reqs, w, asked)
            rivals(r) == Rivals(w, reqs[r].what) \cup {o \in asked : reqs[o].what = reqs[r].what}
            begun(r) == [reqs[r] EXCEPT !.step = "reading", !.window = w, !.rivals = rivals(r)]
<1>1. ASSUME NEW r \in Request
      PROVE  \/ r \notin asked /\ d[r] = request[r]
             \/ r \in asked /\ d[r] = Done(reqs[r])
             \/ r \in asked /\ reqs[r].what \notin WhatsOf(w) /\ d[r] = begun(r)
  BY DEF Dispatched
<1>3. \A r \in Request : request[r] \in RequestRecord /\ reqs[r] \in RequestRecord
  BY DEF OpenInv, OpenTypes
<1>2. ASSUME NEW r \in Request
      PROVE  /\ begun(r) \in RequestRecord /\ begun(r).step = "reading"
             /\ begun(r).what = reqs[r].what /\ begun(r).window = w
             /\ begun(r).rivals = rivals(r)
  <2>1. rivals(r) \in SUBSET Request
    BY DEF Rivals
  <2>. HIDE DEF rivals
  <2>2. reqs[r] \in RequestRecord
    BY <1>3
  <2>. QED  BY <2>1, <2>2 DEF RequestRecord
<1>. HIDE DEF begun
<1>4. d \in [Request -> RequestRecord]
  <2>1. d = [r \in Request |-> d[r]]
    BY DEF Dispatched
  <2>. HIDE DEF d
  <2>2. \A r \in Request : d[r] \in RequestRecord
    BY <1>1, <1>2, <1>3, RecordTypes
  <2>. QED  BY <2>1, <2>2
<1>. HIDE DEF d
<1>5. \A r \in Request : r \notin asked => d[r] = request[r]
  BY <1>1
<1>6. ASSUME NEW r \in Request, request[r].step = "ended"
      PROVE  d[r] = request[r]
  BY <1>5, <1>6
<1>7. ASSUME NEW r \in Request, d[r].step = "reading", r \in asked
      PROVE  /\ d[r].what = reqs[r].what /\ d[r].window = w /\ d[r].rivals = rivals(r)
             /\ \A a \in Opened(tabs[w]) : request[a].what # d[r].what
  <2>1. d[r] = begun(r) /\ reqs[r].what \notin WhatsOf(w)
    BY <1>1, <1>3, <1>7, RecordTypes
  <2>. QED  BY <1>2, <2>1, OpenedIsShown
<1>8. ASSUME NEW r \in Request, d[r].step = "reading", r \in asked,
             NEW o \in Request, d[o].step = "reading", d[o].window = d[r].window,
             d[o].what = d[r].what
      PROVE  o \in d[r].rivals
  <2>1. CASE o \in asked
    BY <1>7, <1>8, <2>1
  <2>2. CASE o \notin asked
    <3>1. d[o] = request[o]
      BY <1>5, <2>2
    <3>2. o \in Rivals(w, reqs[r].what)
      BY <1>7, <1>8, <3>1 DEF Rivals, Reading
    <3>. QED  BY <1>7, <1>8, <3>2
  <2>. QED  BY <2>1, <2>2
<1>9. Begins(request, d, tabs)
  BY <1>5, <1>6, <1>7, <1>8 DEF Begins
<1>. QED  BY <1>4, <1>5, <1>9 DEF d

-----------------------------------------------------------------------------
(* Windows. *)

LEMMA CreateWindowStep ==
    ASSUME OpenInv, NEW w \in Windows, CreateWindow(w)
    PROVE  OpenInv'
<1>. DEFINE d == Dispatched(request, w, Arguments(w))
            ts == [tabs EXCEPT ![w] = <<BlankTab>>]
<1>1. /\ request' = d /\ tabs' = ts /\ pendingFiles' = pendingFiles /\ commands' = commands
  BY DEF CreateWindow, queueVars
<1>2. /\ Arguments(w) \in SUBSET Request
      /\ \A r \in Arguments(w) : request[r].step = "argument"
  BY DEF Arguments
<1>3. d \in [Request -> RequestRecord] /\ Begins(request, d, tabs)
      /\ \A r \in Request \ Arguments(w) : d[r] = request[r]
  <2>1. \A r \in Request : IF r \in Arguments(w)
               THEN request[r].step \notin {"reading", "ended"}
               ELSE request[r] = request[r]
    BY <1>2
  <2>2. request \in [Request -> RequestRecord]
    BY DEF OpenInv, OpenTypes
  <2>. QED  BY <1>2, <2>1, <2>2, DispatchBegins
<1>. HIDE DEF d
<1>4. Waits(d, pendingFiles)
  BY <1>2, <1>3 DEF Waits, OpenInv, OpenTypes
<1>5. Lists(ts)
  <2>1. <<BlankTab>> \in TabList /\ Apart(<<BlankTab>>) /\ Opened(<<BlankTab>>) = {}
    BY DEF TabList, Apart, Opened
  <2>. QED  BY <2>1 DEF OpenInv, OpenTypes, Lists, Fewer
<1>. HIDE DEF ts
<1>. QED  BY <1>1, <1>3, <1>4, <1>5, RequestsStep DEF OpenInv, OpenTypes

LEMMA CreationFailsStep ==
    ASSUME OpenInv, NEW w \in Windows, CreationFails(w)
    PROVE  OpenInv'
<1>. DEFINE d == [r \in Request |-> IF r \in Arguments(w) THEN Done(request[r]) ELSE request[r]]
<1>1. /\ request' = d /\ tabs' = tabs /\ pendingFiles' = pendingFiles /\ commands' = commands
  BY DEF CreationFails, queueVars
<1>2. \A r \in Request : /\ request[r] \in RequestRecord
                         /\ r \in Arguments(w) => request[r].step = "argument"
  BY DEF Arguments, OpenInv, OpenTypes
<1>3. d \in [Request -> RequestRecord] /\ Begins(request, d, tabs) /\ Waits(d, pendingFiles)
  BY <1>2, RecordTypes DEF Begins, Waits, OpenInv, OpenTypes
<1>. HIDE DEF d
<1>. QED  BY <1>1, <1>3, RequestsStep, KeptLists DEF OpenInv, OpenTypes

\* The window goes: its reads go on and find nobody.
LEMMA LeavesStep ==
    ASSUME OpenInv, NEW w \in Windows, Leaves(w)
    PROVE  OpenInv'
<1>. DEFINE ts == [tabs EXCEPT ![w] = <<>>]
<1>1. /\ request' = request /\ tabs' = ts /\ pendingFiles' = pendingFiles /\ commands' = commands
  BY DEF Leaves, queueVars
<1>2. Begins(request, request, tabs) /\ Waits(request, pendingFiles)
  BY DEF Begins, Waits, OpenInv, OpenTypes
<1>3. Lists(ts)
  <2>1. <<>> \in TabList /\ Apart(<<>>) /\ Opened(<<>>) = {}
    BY DEF TabList, Apart, Opened
  <2>. QED  BY <2>1 DEF OpenInv, OpenTypes, Lists, Fewer
<1>. HIDE DEF ts
<1>. QED  BY <1>1, <1>2, <1>3, RequestsStep DEF OpenInv, OpenTypes

LEMMA TabClosesStep ==
    ASSUME OpenInv, NEW w \in Windows, NEW i, TabCloses(w, i)
    PROVE  OpenInv'
<1>. DEFINE left == RemoveAt(tabs[w], i)
            ts == [tabs EXCEPT ![w] = left]
<1>1. /\ request' = request /\ tabs' = ts /\ pendingFiles' = pendingFiles /\ commands' = commands
      /\ i \in 1 .. Len(tabs[w])
  BY DEF TabCloses, queueVars, OpenInv, OpenTypes, TabList
<1>2. Begins(request, request, tabs) /\ Waits(request, pendingFiles)
  BY DEF Begins, Waits, OpenInv, OpenTypes
<1>3. left \in TabList /\ Apart(left) /\ Opened(left) \subseteq Opened(tabs[w])
  BY <1>1, Removed DEF OpenInv, OpenTypes
<1>. HIDE DEF left
<1>4. Lists(ts)
  BY <1>3 DEF OpenInv, OpenTypes, Lists, Fewer
<1>. HIDE DEF ts
<1>. QED  BY <1>1, <1>2, <1>4, RequestsStep DEF OpenInv, OpenTypes

-----------------------------------------------------------------------------
(* Requests. *)

\* A request that begins nothing is made, or goes on to the queues or to its end.
LEMMA MovesOn ==
    ASSUME OpenInv, NEW r \in Request, request[r].step \notin {"reading", "ended"},
           NEW rec \in RequestRecord, rec.step # "reading"
    PROVE  LET q == [request EXCEPT ![r] = rec]
           IN  /\ q \in [Request -> RequestRecord] /\ Begins(request, q, tabs)
               /\ \A o \in Request : q[o] = IF o = r THEN rec ELSE request[o]
<1>. DEFINE q == [request EXCEPT ![r] = rec]
<1>1. /\ q \in [Request -> RequestRecord]
      /\ \A o \in Request : q[o] = IF o = r THEN rec ELSE request[o]
  BY DEF OpenInv, OpenTypes
<1>. HIDE DEF q
<1>2. Begins(request, q, tabs)
  BY <1>1 DEF Begins
<1>. QED  BY <1>1, <1>2 DEF q

LEMMA StillWait ==
    ASSUME OpenInv, NEW q, NEW r \in Request, request[r].step # "queued",
           \A o \in Request : o # r => q[o] = request[o]
    PROVE  Waits(q, pendingFiles)
<1>1. \A i \in 1 .. Len(pendingFiles) :
         /\ pendingFiles[i] \in Request /\ request[pendingFiles[i]].step = "queued"
  BY DEF OpenInv, OpenTypes
<1>. QED  BY <1>1 DEF Waits, OpenInv, OpenTypes

LEMMA WaitsToo ==
    ASSUME NEW q, Waits(q, pendingFiles), NEW r \in Request, q[r].step = "queued"
    PROVE  Waits(q, Append(pendingFiles, r))
<1>. DEFINE list == Append(pendingFiles, r)
<1>1. /\ list \in Seq(Request) /\ Len(list) = Len(pendingFiles) + 1
      /\ \A i \in 1 .. Len(pendingFiles) : list[i] = pendingFiles[i]
      /\ list[Len(pendingFiles) + 1] = r /\ Len(pendingFiles) \in Nat
  BY AppendProperties DEF Waits
<1>. HIDE DEF list
<1>2. \A i \in 1 .. Len(list) : i \in 1 .. Len(pendingFiles) \/ i = Len(pendingFiles) + 1
  BY <1>1
<1>. QED  BY <1>1, <1>2 DEF Waits, list

LEMMA ForwardStep ==
    ASSUME OpenInv, NEW r \in Request, NEW what \in Files \cup {NewTab, NewWindow},
           Forward(r, what)
    PROVE  OpenInv'
<1>. DEFINE rec == Asked(what, "sent", NoWindow)
            q == [request EXCEPT ![r] = rec]
<1>1. /\ request' = q /\ tabs' = tabs /\ pendingFiles' = pendingFiles /\ commands' = commands
      /\ request[r].step = "none"
  BY NextIsNew DEF Forward, queueVars
<1>2. rec \in RequestRecord /\ rec.step = "sent"
  BY AskedFields
<1>. HIDE DEF rec
<1>3. /\ q \in [Request -> RequestRecord] /\ Begins(request, q, tabs)
      /\ \A o \in Request : q[o] = IF o = r THEN rec ELSE request[o]
  BY <1>1, <1>2, MovesOn
<1>. HIDE DEF q
<1>4. Waits(q, pendingFiles)
  BY <1>1, <1>3, StillWait
<1>. QED  BY <1>1, <1>3, <1>4, RequestsStep, KeptLists DEF OpenInv, OpenTypes

LEMMA ListenerReceivesStep ==
    ASSUME OpenInv, NEW r \in Request, ListenerReceives(r)
    PROVE  OpenInv'
<1>1. /\ request[r].step = "sent" /\ tabs' = tabs
      /\ request[r] \in RequestRecord
  BY DEF ListenerReceives, OpenInv, OpenTypes
<1>2. CASE request' = [request EXCEPT ![r].step = "queued"] /\ Queued(r)
  <2>. DEFINE rec == [request[r] EXCEPT !.step = "queued"]
              q == [request EXCEPT ![r] = rec]
  <2>1. request' = q
    BY <1>2
  <2>2. rec \in RequestRecord /\ rec.step = "queued"
    BY <1>1 DEF RequestRecord
  <2>. HIDE DEF rec
  <2>3. /\ q \in [Request -> RequestRecord] /\ Begins(request, q, tabs)
        /\ \A o \in Request : q[o] = IF o = r THEN rec ELSE request[o]
    BY <1>1, <2>2, MovesOn
  <2>. HIDE DEF q
  <2>4. Waits(q, pendingFiles) /\ Waits(q, Append(pendingFiles, r))
    BY <1>1, <2>2, <2>3, StillWait, WaitsToo
  <2>5. /\ pendingFiles' \in {pendingFiles, Append(pendingFiles, r)}
        /\ commands' \in Seq(Request)
    <3>1. CASE request[r].what \in Files
      BY <1>2, <3>1 DEF Queued, OpenInv, OpenTypes
    <3>2. CASE request[r].what \notin Files
      <4>1. Append(commands, r) \in Seq(Request)
        BY AppendProperties DEF OpenInv, OpenTypes
      <4>. QED  BY <1>2, <3>2, <4>1 DEF Queued
    <3>. QED  BY <3>1, <3>2
  <2>6. Waits(q, pendingFiles')
    BY <2>4, <2>5
  <2>. QED  BY <1>1, <2>1, <2>3, <2>5, <2>6, RequestsStep, KeptLists
<1>3. CASE request' = [request EXCEPT ![r] = Done(@)] /\ UNCHANGED queueVars
  <2>. DEFINE rec == Done(request[r])
              q == [request EXCEPT ![r] = rec]
  <2>1. request' = q /\ pendingFiles' = pendingFiles /\ commands' = commands
    BY <1>3 DEF queueVars
  <2>2. rec \in RequestRecord /\ rec.step = "ended"
    BY <1>1, RecordTypes
  <2>. HIDE DEF rec
  <2>3. /\ q \in [Request -> RequestRecord] /\ Begins(request, q, tabs)
        /\ \A o \in Request : q[o] = IF o = r THEN rec ELSE request[o]
    BY <1>1, <2>2, MovesOn
  <2>. HIDE DEF q
  <2>4. Waits(q, pendingFiles)
    BY <1>1, <2>3, StillWait
  <2>. QED  BY <1>1, <2>1, <2>3, <2>4, RequestsStep, KeptLists DEF OpenInv, OpenTypes
<1>. QED  BY <1>2, <1>3 DEF ListenerReceives

LEMMA OpenEventStep ==
    ASSUME OpenInv, NEW r \in Request, NEW p \in Files, OpenEvent(r, p)
    PROVE  OpenInv'
<1>. DEFINE rec == Asked(p, "queued", NoWindow)
            q == [request EXCEPT ![r] = rec]
            list == Append(pendingFiles, r)
<1>1. /\ request' = q /\ tabs' = tabs /\ pendingFiles' = list /\ commands' = commands
      /\ request[r].step = "none"
  BY NextIsNew DEF OpenEvent
<1>2. rec \in RequestRecord /\ rec.step = "queued"
  BY AskedFields
<1>. HIDE DEF rec
<1>3. /\ q \in [Request -> RequestRecord] /\ Begins(request, q, tabs)
      /\ \A o \in Request : q[o] = IF o = r THEN rec ELSE request[o]
  BY <1>1, <1>2, MovesOn
<1>. HIDE DEF q
<1>4. Waits(q, list)
  BY <1>1, <1>2, <1>3, StillWait, WaitsToo
<1>. HIDE DEF list
<1>. QED  BY <1>1, <1>3, <1>4, RequestsStep, KeptLists DEF OpenInv, OpenTypes

LEMMA OpenHereStep ==
    ASSUME OpenInv, NEW r \in Request, NEW w \in Windows, NEW p \in Files, OpenHere(w, r, p)
    PROVE  OpenInv'
<1>. DEFINE rec == Asked(p, "queued", w)
            reqs == [request EXCEPT ![r] = rec]
            d == Dispatched(reqs, w, {r})
<1>1. /\ request' = d /\ tabs' = tabs /\ pendingFiles' = pendingFiles /\ commands' = commands
      /\ request[r].step = "none"
  BY NextIsNew DEF OpenHere, queueVars
<1>2. rec \in RequestRecord /\ rec.step = "queued"
  BY AskedFields
<1>. HIDE DEF rec
<1>3. /\ reqs \in [Request -> RequestRecord]
      /\ \A o \in Request : IF o \in {r} THEN request[o].step \notin {"reading", "ended"}
                            ELSE reqs[o] = request[o]
  BY <1>1, <1>2 DEF OpenInv, OpenTypes
<1>. HIDE DEF reqs
<1>4. /\ d \in [Request -> RequestRecord] /\ Begins(request, d, tabs)
      /\ \A o \in Request : o # r => d[o] = request[o]
  <2>1. {r} \in SUBSET Request
    OBVIOUS
  <2>2. /\ d \in [Request -> RequestRecord] /\ Begins(request, d, tabs)
        /\ \A o \in Request \ {r} : d[o] = request[o]
    BY <1>3, <2>1, DispatchBegins
  <2>. QED  BY <2>2
<1>. HIDE DEF d
<1>5. Waits(d, pendingFiles)
  BY <1>1, <1>4, StillWait
<1>. QED  BY <1>1, <1>4, <1>5, RequestsStep, KeptLists DEF OpenInv, OpenTypes

\* A picked file is looked for in the window only, and knows the reads of it there.
LEMMA OpenPickedStep ==
    ASSUME OpenInv, NEW r \in Request, NEW w \in Windows, NEW p \in Files, OpenPicked(w, r, p)
    PROVE  OpenInv'
<1>. DEFINE rec == IF p \in WhatsOf(w) THEN Asked(p, "ended", NoWindow)
                   ELSE [Asked(p, "reading", w) EXCEPT !.rivals = Rivals(w, p)]
            q == [request EXCEPT ![r] = rec]
<1>1. /\ request' = q /\ tabs' = tabs /\ pendingFiles' = pendingFiles /\ commands' = commands
      /\ request[r].step = "none"
  BY NextIsNew DEF OpenPicked, queueVars
<1>2. /\ rec \in RequestRecord
      /\ \/ rec.step = "ended"
         \/ /\ rec.step = "reading" /\ rec.window = w /\ rec.what = p
            /\ rec.rivals = Rivals(w, p) /\ p \notin WhatsOf(w)
  <2>1. CASE p \in WhatsOf(w)
    BY <2>1, AskedFields
  <2>2. CASE p \notin WhatsOf(w)
    <3>1. /\ Asked(p, "reading", w) \in RequestRecord
          /\ Asked(p, "reading", w).what = p /\ Asked(p, "reading", w).step = "reading"
          /\ Asked(p, "reading", w).window = w
      BY AskedFields
    <3>2. Rivals(w, p) \in SUBSET Request
      BY DEF Rivals
    <3>. QED  BY <2>2, <3>1, <3>2 DEF RequestRecord
  <2>. QED  BY <2>1, <2>2
<1>. HIDE DEF rec
<1>3. /\ q \in [Request -> RequestRecord]
      /\ q[r] = rec /\ \A o \in Request : o # r => q[o] = request[o]
  BY <1>2 DEF OpenInv, OpenTypes
<1>. HIDE DEF q
<1>4. ASSUME q[r].step = "reading"
      PROVE  /\ q[r].window = w /\ q[r].what = p
             /\ \A a \in Opened(tabs[w]) : request[a].what # p
             /\ \A o \in Request :
                   /\ q[o].step = "reading" /\ q[o].window = w /\ q[o].what = p /\ o # r
                   => o \in q[r].rivals
  <2>1. q[r].window = w /\ q[r].what = p /\ q[r].rivals = Rivals(w, p) /\ p \notin WhatsOf(w)
    BY <1>2, <1>3, <1>4
  <2>2. \A a \in Opened(tabs[w]) : request[a].what # p
    BY <2>1, OpenedIsShown
  <2>3. \A o \in Request :
           /\ q[o].step = "reading" /\ q[o].window = w /\ q[o].what = p /\ o # r
           => o \in Rivals(w, p)
    BY <1>3 DEF Rivals, Reading
  <2>. QED  BY <2>1, <2>2, <2>3
<1>5. Begins(request, q, tabs)
  BY <1>1, <1>3, <1>4 DEF Begins
<1>6. Waits(q, pendingFiles)
  BY <1>1, <1>3, StillWait
<1>. QED  BY <1>1, <1>3, <1>5, <1>6, RequestsStep, KeptLists DEF OpenInv, OpenTypes

\* The tab takes its place.
LEMMA ReadSucceedsStep ==
    ASSUME OpenInv, NEW r \in Request, ReadSucceeds(r)
    PROVE  OpenInv'
<1>. DEFINE w == request[r].window
            kept == IF tabs[w] # <<>> /\ Last(tabs[w]) = BlankTab THEN Front(tabs[w]) ELSE tabs[w]
            list == Append(kept, r)
            ts == [tabs EXCEPT ![w] = list]
            q == [request EXCEPT ![r] = Done(request[r])]
<1>1. /\ request' = q /\ tabs' = ts /\ pendingFiles' = pendingFiles /\ commands' = commands
      /\ request[r].step = "reading"
  BY DEF ReadSucceeds, Reading, queueVars
<1>2. w \in Windows
  BY <1>1 DEF OpenInv, Sound
<1>3. kept \in TabList /\ Apart(kept) /\ Opened(kept) \subseteq Opened(tabs[w])
  BY <1>2, WithoutLast DEF OpenInv, OpenTypes
<1>. HIDE DEF kept
<1>4. r \notin Opened(kept)
  <2>1. \A a \in Opened(tabs[w]) : request[a].step = "ended"
    BY <1>2 DEF OpenInv, Sound
  <2>. QED  BY <1>1, <1>3, <2>1
<1>5. list \in TabList /\ Apart(list) /\ Opened(list) \subseteq Opened(tabs[w]) \cup {r}
  <2>1. list \in TabList /\ Apart(list) /\ Opened(list) \subseteq Opened(kept) \cup {r}
    BY <1>3, <1>4, Added
  <2>. QED  BY <1>3, <2>1
<1>. HIDE DEF list
<1>6. /\ ts \in [Windows -> TabList] /\ \A v \in Windows : Apart(ts[v])
      /\ \A v \in Windows : Opened(ts[v]) \subseteq
            Opened(tabs[v]) \cup (IF v = request[r].window THEN {r} ELSE {})
  BY <1>2, <1>5 DEF OpenInv, OpenTypes
<1>. HIDE DEF ts, w
<1>7. request \in [Request -> RequestRecord] /\ tabs \in [Windows -> TabList]
      /\ Sound(request, tabs)
  BY DEF OpenInv, OpenTypes
<1>8. Sound(q, ts)
  BY <1>1, <1>6, <1>7, ReadSound
<1>9. /\ q \in [Request -> RequestRecord]
      /\ \A o \in Request : o # r => q[o] = request[o]
  BY <1>7, RecordTypes
<1>. HIDE DEF q
<1>10. Waits(q, pendingFiles)
  BY <1>1, <1>9, StillWait
<1>. QED  BY <1>1, <1>6, <1>8, <1>9, <1>10, AssembleStep DEF OpenInv, OpenTypes

LEMMA ReadFailsStep ==
    ASSUME OpenInv, NEW r \in Request, ReadFails(r)
    PROVE  OpenInv'
<1>. DEFINE q == [request EXCEPT ![r] = Done(request[r])]
<1>1. /\ request' = q /\ tabs' = tabs /\ pendingFiles' = pendingFiles /\ commands' = commands
      /\ request[r].step = "reading"
  BY DEF ReadFails, Reading, queueVars
<1>2. /\ q \in [Request -> RequestRecord] /\ q[r].step = "ended"
      /\ \A o \in Request : o # r => q[o] = request[o]
  BY RecordTypes DEF OpenInv, OpenTypes
<1>. HIDE DEF q
<1>3. Begins(request, q, tabs)
  BY <1>1, <1>2 DEF Begins
<1>4. Waits(q, pendingFiles)
  BY <1>1, <1>2, StillWait
<1>. QED  BY <1>1, <1>2, <1>3, <1>4, RequestsStep, KeptLists DEF OpenInv, OpenTypes

-----------------------------------------------------------------------------
(* Rendering. *)

\* A window that empties the queues: the commands end, and the files begin to be
\* read or end.
LEMMA TakesStep ==
    ASSUME OpenInv, NEW w \in Windows, FilesTaken(w), CommandsRun(w)
    PROVE  OpenInv'
<1>. DEFINE asked == ToSet(pendingFiles)
            d == Dispatched(request, w, asked)
            q == [r \in Request |-> IF Contains(commands, r) THEN Done(request[r]) ELSE d[r]]
            n == Cardinality({i \in DOMAIN commands : request[commands[i]].what = NewTab})
            list == tabs[w] \o [i \in 1 .. n |-> BlankTab]
            ts == [tabs EXCEPT ![w] = list]
<1>1. /\ request' = q /\ tabs' = ts /\ pendingFiles' = <<>> /\ commands' = <<>>
  BY DEF FilesTaken, CommandsRun
<1>2. /\ asked \in SUBSET Request
      /\ \A r \in asked : request[r].step = "queued"
  <2>1. DOMAIN pendingFiles = 1 .. Len(pendingFiles)
        /\ \A i \in 1 .. Len(pendingFiles) : pendingFiles[i] \in Request
    BY DEF OpenInv, OpenTypes
  <2>. QED  BY <2>1 DEF ToSet, OpenInv
<1>. HIDE DEF asked
<1>3. request \in [Request -> RequestRecord] /\ tabs \in [Windows -> TabList]
  BY DEF OpenInv, OpenTypes
<1>4. d \in [Request -> RequestRecord] /\ Begins(request, d, tabs)
  <2>1. \A r \in Request : IF r \in asked
               THEN request[r].step \notin {"reading", "ended"}
               ELSE request[r] = request[r]
    BY <1>2
  <2>. QED  BY <1>2, <1>3, <2>1, DispatchBegins
<1>. HIDE DEF d
<1>5. /\ q \in [Request -> RequestRecord]
      /\ \A r \in Request : \/ q[r] = d[r]
                            \/ q[r] = Done(request[r])
  BY <1>3, <1>4, RecordTypes
<1>. HIDE DEF q
<1>6. Begins(request, q, tabs)
  <2>1. \A r \in Request : request[r].step = "ended" =>
             /\ q[r].step = "ended" /\ q[r].what = request[r].what
             /\ q[r].rivals = request[r].rivals
    BY <1>3, <1>4, <1>5, RecordTypes DEF Begins
  <2>2. \A r \in Request : q[r].step = "reading" => q[r] = d[r]
    BY <1>3, <1>5, RecordTypes
  <2>. QED  BY <1>4, <2>1, <2>2 DEF Begins
<1>7. n \in Nat
  <2>1. DOMAIN commands = 1 .. Len(commands) /\ Len(commands) \in Nat
    BY DEF OpenInv, OpenTypes
  <2>2. IsFiniteSet(1 .. Len(commands))
    BY <2>1, FS_Interval
  <2>3. {i \in DOMAIN commands : request[commands[i]].what = NewTab} \subseteq 1 .. Len(commands)
    BY <2>1
  <2>. QED  BY <2>2, <2>3, FS_Subset, FS_CardinalityType
<1>. HIDE DEF n
<1>8. list \in TabList /\ Apart(list) /\ Opened(list) \subseteq Opened(tabs[w])
  BY <1>3, <1>7, BlanksAdded DEF OpenInv
<1>. HIDE DEF list
<1>9. Lists(ts)
  BY <1>3, <1>8 DEF Lists, Fewer, OpenInv
<1>. HIDE DEF ts
<1>10. Waits(q, <<>>) /\ <<>> \in Seq(Request)
  BY DEF Waits
<1>. QED  BY <1>1, <1>5, <1>6, <1>9, <1>10, RequestsStep

LEMMA RenderStep ==
    ASSUME OpenInv, NEW w \in Windows, Render(w)
    PROVE  OpenInv'
<1>1. CASE Takes(w)
  BY <1>1, TakesStep DEF Render
<1>2. CASE ~Takes(w)
  BY <1>2, KeptStep DEF Render, OpenKept, queueVars
<1>. QED  BY <1>1, <1>2

-----------------------------------------------------------------------------
(* Every step. *)

LEMMA WindowStepInv ==
    ASSUME OpenInv, NEW w \in Windows, WindowStep(w)
    PROVE  OpenInv'
<1>1. CASE CreationEnds(w)
  BY <1>1, CreateWindowStep, CreationFailsStep DEF CreationEnds
<1>2. CASE AskForWindow(w) \/ SwitchTo(w)
  BY <1>2, KeptStep DEF AskForWindow, SwitchTo, OpenKept, queueVars
<1>3. CASE CloseWindow(w) \/ WindowSentAway(w)
  BY <1>3, LeavesStep DEF CloseWindow, WindowSentAway
<1>4. CASE \E i \in 1 .. MaxRequests + 1 : TabCloses(w, i)
  BY <1>4, TabClosesStep
<1>5. CASE Render(w)
  BY <1>5, RenderStep
<1>. QED  BY <1>1, <1>2, <1>3, <1>4, <1>5 DEF WindowStep

LEMMA RequestStepInv ==
    ASSUME OpenInv, NEW r \in Request, RequestStep(r)
    PROVE  OpenInv'
<1>1. CASE \E what \in Files \cup {NewTab, NewWindow} : Forward(r, what)
  BY <1>1, ForwardStep
<1>2. CASE ListenerReceives(r)
  BY <1>2, ListenerReceivesStep
<1>3. CASE \E p \in Files : OpenEvent(r, p)
  BY <1>3, OpenEventStep
<1>4. CASE \E w \in Windows, p \in Files : OpenHere(w, r, p) \/ OpenPicked(w, r, p)
  BY <1>4, OpenHereStep, OpenPickedStep
<1>5. CASE ReadEnds(r)
  BY <1>5, ReadSucceedsStep, ReadFailsStep DEF ReadEnds
<1>. QED  BY <1>1, <1>2, <1>3, <1>4, <1>5 DEF RequestStep

LEMMA OpenStepInv == OpenInv /\ [OpenNext]_requestVars => OpenInv'
<1>. SUFFICES ASSUME OpenInv, [OpenNext]_requestVars PROVE OpenInv'
  OBVIOUS
<1>1. CASE \E w \in Windows : WindowStep(w)
  BY <1>1, WindowStepInv
<1>2. CASE SwitchTo(NoWindow)
  BY <1>2, KeptStep DEF SwitchTo, OpenKept, queueVars
<1>3. CASE \E r \in Request : RequestStep(r)
  BY <1>3, RequestStepInv
<1>4. CASE \E what \in Files \cup {Untitled} : ChooseEntry(what)
  BY <1>4, KeptStep DEF ChooseEntry, OpenKept, queueVars
<1>5. CASE EntryArrives
  BY <1>5, KeptStep DEF EntryArrives, OpenKept, queueVars
<1>6. CASE UNCHANGED requestVars
  BY <1>6, KeptStep DEF requestVars, OpenKept
<1>. QED  BY <1>1, <1>2, <1>3, <1>4, <1>5, <1>6 DEF OpenNext

LEMMA OverlapFromInv == OpenInv => TwiceOnlyByOverlap
<1>. SUFFICES ASSUME OpenInv, NEW w \in Windows, NEW i \in DOMAIN tabs[w], NEW j \in DOMAIN tabs[w],
                     i # j, tabs[w][i] # BlankTab, tabs[w][j] # BlankTab,
                     request[tabs[w][i]].what = request[tabs[w][j]].what
              PROVE  \/ tabs[w][i] \in request[tabs[w][j]].rivals
                     \/ tabs[w][j] \in request[tabs[w][i]].rivals
  BY DEF TwiceOnlyByOverlap
<1>1. DOMAIN tabs[w] = 1 .. Len(tabs[w])
  BY DEF OpenInv, OpenTypes, TabList
<1>2. tabs[w][i] \in Opened(tabs[w]) /\ tabs[w][j] \in Opened(tabs[w])
  BY <1>1 DEF Opened
<1>3. tabs[w][i] # tabs[w][j]
  BY <1>1 DEF OpenInv, Apart
<1>. QED  BY <1>2, <1>3 DEF OpenInv, Sound, Overlap

\* The invariant of the requests: a tab is of a request that ended, no request has
\* two tabs, and two reads or tabs of one file in one window know of each other
\* (open_ops/, window_manager/).
THEOREM OpenInvariance == OpenSpec => []OpenInv
BY OpenInitInv, OpenStepInv, PTL DEF OpenSpec

\* However requests come, through the system, a second process or the user, and
\* whichever window takes them: two tabs of one window show the same file only if
\* both were asked for before either was read (do_open_file, open_file_from_path).
THEOREM ShownTwiceOnlyByOverlap == OpenSpec => []TwiceOnlyByOverlap
BY OpenInvariance, OverlapFromInv, PTL

-----------------------------------------------------------------------------
(***************************************************************************)
(* The queues together.                                                    *)
(***************************************************************************)

\* Neither queue disturbs the other: both properties hold of every behaviour of
\* WindowQueues, whichever queue it is about.
THEOREM QueuesInvariance == Spec => [](ReportedOnce /\ TwiceOnlyByOverlap)
<1>. DEFINE Both == WatcherInv /\ OpenInv
<1>1. Init => Both
  BY WatcherInitInv, OpenInitInv DEF Init
<1>2. Both /\ [Next]_vars => Both'
  <2>1. [Next]_vars => [WatcherNext]_watcherVars /\ [OpenNext]_requestVars
    BY DEF Next, vars
  <2>. QED  BY <2>1, WatcherStepInv, OpenStepInv
<1>3. Both => ReportedOnce /\ TwiceOnlyByOverlap
  BY OverlapFromInv DEF WatcherInv
<1>. HIDE DEF Both
<1>. QED  BY <1>1, <1>2, <1>3, PTL DEF Spec
=============================================================================
