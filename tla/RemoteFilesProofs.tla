------------------------- MODULE RemoteFilesProofs -------------------------
(***************************************************************************)
(* Proofs about RemoteFiles: no two users of a session, a clean tab shows  *)
(* what the server had, and only the newest answer moves its baseline.     *)
(* The invariant Inv says of every task what it may hold, of every outcome *)
(* that its text was the server's, of the requests that each has one task  *)
(* or the password dialog, and that a cancelled save is not the newest.    *)
(***************************************************************************)
EXTENDS RemoteFiles, WellFoundedInduction, FiniteSetTheorems, TLAPS

-----------------------------------------------------------------------------
(* A session that nobody uses. *)

LEMMA HostFinite == IsFiniteSet(Host) /\ Cardinality(Host) = 2
<1>1. IsFiniteSet({"home"}) /\ Cardinality({"home"}) = 1
  BY FS_Singleton
<1>2. Host = {"home"} \cup {"elsewhere"} /\ "elsewhere" \notin {"home"}
  BY DEF Host
<1>. QED  BY <1>1, <1>2, FS_AddElement

\* A function has at most as many values as arguments.
LEMMA ImageBound ==
    ASSUME NEW S, IsFiniteSet(S), NEW f \in [S -> Nat]
    PROVE  /\ IsFiniteSet({f[x] : x \in S})
           /\ Cardinality({f[x] : x \in S}) \in Nat
           /\ Cardinality({f[x] : x \in S}) <= Cardinality(S)
<1>. DEFINE T == {f[x] : x \in S}
<1>1. f \in Surjection(S, T)
  BY DEF Surjection
<1>2. IsFiniteSet(T) /\ Cardinality(T) <= Cardinality(S)
  BY <1>1, FS_Surjection
<1>. QED  BY <1>2, FS_CardinalityType

\* The sessions of the pool and of the tasks, with one task that has none, are
\* fewer than there are.
LEMMA Unused ==
    ASSUME NEW P, IsFiniteSet(P), NEW Q, IsFiniteSet(Q), NEW m \in Nat, NEW n \in Nat,
           Cardinality(P) \in Nat, Cardinality(P) <= m,
           Cardinality(Q) \in Nat, Cardinality(Q) <= n, 0 \in Q
    PROVE  \E id \in 1 .. (m + n) : id \notin P \cup Q
<1>. DEFINE U == P \cup Q
            W == U \ {0}
            k == m + n
<1>1. IsFiniteSet(P \cap Q) /\ Cardinality(P \cap Q) \in Nat
  BY FS_Subset, FS_CardinalityType
<1>2. IsFiniteSet(U) /\ Cardinality(U) = Cardinality(P) + Cardinality(Q) - Cardinality(P \cap Q)
  BY FS_Union
<1>3. 0 \in U /\ Cardinality(U) \in Nat
  BY <1>2, FS_CardinalityType
<1>. HIDE DEF U
<1>4. IsFiniteSet(W) /\ Cardinality(W) = Cardinality(U) - 1
  BY <1>2, <1>3, FS_RemoveElement
<1>. HIDE DEF W
<1>5. k \in Nat /\ Cardinality(U) <= k /\ Cardinality(W) < k
  BY <1>1, <1>2, <1>3, <1>4
<1>6. CASE k = 0
  BY <1>3, <1>4, <1>5, <1>6, FS_CardinalityType
<1>7. CASE k # 0
  <2>. HIDE DEF k
  <2>1. IsFiniteSet(1 .. k) /\ Cardinality(1 .. k) = k
    BY <1>5, <1>7, FS_Interval
  <2>2. PICK id \in 1 .. k : id \notin W
    <3>1. SUFFICES ASSUME 1 .. k \subseteq W PROVE FALSE
      OBVIOUS
    <3>2. Cardinality(1 .. k) <= Cardinality(W)
      BY <1>4, <3>1, FS_Subset
    <3>. QED  BY <1>3, <1>4, <1>5, <2>1, <3>2
  <2>3. id \in 1 .. k /\ id # 0
    BY <1>5
  <2>. QED  BY <2>2, <2>3 DEF U, W, k
<1>. QED  BY <1>6, <1>7

LEMMA FreshExists ==
    ASSUME NEW p \in [Host -> Nat], NEW q \in [Task -> Nat], 
           NEW t \in Task, q[t] = NoSession
    PROVE  \E id \in SessionId : /\ \A h \in Host : p[h] # id
                                 /\ \A u \in Task : q[u] # id
<1>. DEFINE P == {p[h] : h \in Host}
            Q == {q[u] : u \in Task}
<1>1. /\ IsFiniteSet(P) /\ Cardinality(P) \in Nat /\ Cardinality(P) <= Cardinality(Host)
      /\ IsFiniteSet(Q) /\ Cardinality(Q) \in Nat /\ Cardinality(Q) <= Cardinality(Task)
      /\ Cardinality(Host) \in Nat /\ Cardinality(Task) \in Nat
  BY ImageBound, HostFinite, BoundsAssumption, FS_CardinalityType
<1>2. 0 \in Q
  BY DEF NoSession
<1>3. PICK id \in 1 .. (Cardinality(Host) + Cardinality(Task)) : id \notin P \cup Q
  <2>. HIDE DEF P, Q
  <2>. QED  BY <1>1, <1>2, Unused
<1>. QED  BY <1>3 DEF SessionId

-----------------------------------------------------------------------------
(* The outcomes that are applied one after the other. *)

\* A set of numbers that holds something holds a least one.
LEMMA Least ==
    ASSUME NEW T \in SUBSET Nat, T # {}
    PROVE  \E x \in T : \A y \in T : x <= y
<1>1. PICK x \in T : \A y \in T : <<y, x>> \notin OpToRel(<, Nat)
  BY WFMin, NatLessThanWellFounded, Zenon
<1>2. \A y \in T : ~(y < x)
  BY <1>1, Zenon DEF OpToRel
<1>3. x \in Nat /\ \A y \in T : y \in Nat
  OBVIOUS
<1>. QED  BY <1>2, <1>3

\* Induction, over a set of numbers.
LEMMA NatSet ==
    ASSUME NEW S \in SUBSET Nat, 0 \in S, \A n \in S : n + 1 \in S
    PROVE  S = Nat
<1>1. SUFFICES ASSUME Nat \ S # {} PROVE FALSE
  OBVIOUS
<1>2. PICK x \in Nat \ S : \A y \in Nat \ S : x <= y
  BY <1>1, Least
<1>3. x \in Nat /\ x # 0 /\ x - 1 \in Nat
  BY <1>2
<1>4. x - 1 \in S
  BY <1>2, <1>3
<1>5. x \in S
  BY <1>3, <1>4
<1>. QED  BY <1>2, <1>5

\* The recursive definition of AppliedAll has a solution.
After(w, list, m, g) ==
    g = [n \in 0 .. m |-> IF n = 0 THEN w ELSE Applied(g[n - 1], list[n])]

LEMMA AfterExists ==
    ASSUME NEW w, NEW list
    PROVE  \A m \in Nat : \E g : After(w, list, m, g)
<1>. DEFINE S == {m \in Nat : \E g : After(w, list, m, g)}
<1>1. 0 \in S
  <2>. DEFINE g == [n \in 0 .. 0 |-> w]
  <2>1. g = [n \in 0 .. 0 |-> IF n = 0 THEN w ELSE Applied(g[n - 1], list[n])]
    OBVIOUS
  <2>. QED  BY <2>1 DEF After
<1>2. ASSUME NEW m \in S PROVE m + 1 \in S
  <2>1. PICK g : g = [n \in 0 .. m |-> IF n = 0 THEN w ELSE Applied(g[n - 1], list[n])]
    BY DEF After
  <2>. DEFINE h == [n \in 0 .. (m + 1) |-> IF n = m + 1 THEN Applied(g[m], list[m + 1]) ELSE g[n]]
  <2>2. ASSUME NEW n \in 0 .. (m + 1)
        PROVE  h[n] = IF n = 0 THEN w ELSE Applied(h[n - 1], list[n])
    <3>1. CASE n = m + 1
      BY <3>1
    <3>2. CASE n # m + 1
      <4>1. n \in 0 .. m /\ h[n] = g[n]
        BY <3>2
      <4>2. CASE n = 0
        BY <2>1, <4>1, <4>2
      <4>3. CASE n # 0
        <5>1. n - 1 \in 0 .. m /\ n - 1 # m + 1 /\ n - 1 \in 0 .. (m + 1)
          BY <4>1, <4>3
        <5>2. h[n - 1] = g[n - 1]
          BY <5>1
        <5>3. g[n] = Applied(g[n - 1], list[n])
          BY <2>1, <4>1, <4>3
        <5>. QED  BY <4>1, <4>3, <5>2, <5>3
      <4>. QED  BY <4>2, <4>3
    <3>. QED  BY <3>1, <3>2
  <2>3. h = [n \in 0 .. (m + 1) |-> IF n = 0 THEN w ELSE Applied(h[n - 1], list[n])]
    <3>1. h = [n \in 0 .. (m + 1) |-> h[n]]
      OBVIOUS
    <3>. HIDE DEF h
    <3>. QED  BY <2>2, <3>1
  <2>. HIDE DEF h
  <2>. QED  BY <2>3 DEF After
<1>. QED  BY <1>1, <1>2, NatSet

\* g lists the windows between the outcomes.
Between(w, list, g) ==
    /\ g[0] = w /\ AppliedAll(w, list) = g[Len(list)]
    /\ \A n \in 1 .. Len(list) : g[n] = Applied(g[n - 1], list[n])

LEMMA AppliedAllSteps ==
    ASSUME NEW w, NEW list, Len(list) \in Nat
    PROVE  \E g : Between(w, list, g)
<1>. DEFINE g == CHOOSE f : After(w, list, Len(list), f)
<1>1. After(w, list, Len(list), g)
  BY AfterExists
<1>2. AppliedAll(w, list) = g[Len(list)]
  BY DEF AppliedAll, After
<1>. HIDE DEF g
<1>3. g = [n \in 0 .. Len(list) |-> IF n = 0 THEN w ELSE Applied(g[n - 1], list[n])]
  BY <1>1 DEF After
<1>4. \A n \in 0 .. Len(list) : g[n] = IF n = 0 THEN w ELSE Applied(g[n - 1], list[n])
  BY <1>3
<1>. QED  BY <1>2, <1>4 DEF Between

-----------------------------------------------------------------------------
(* The invariant. *)

Password == {"none", "good", "bad"}
TabRecord == [open : BOOLEAN, text : Text, base : Text, modified : BOOLEAN]
UiRecord == [active : BOOLEAN, tab : TabRecord,
             restore : SUBSET {"pending", "inflight"},
             latest : [open : Request, save : Request]]
TaskRecord ==
    [kind : Kind \cup {"none"}, request : Request, text : Text,
     password : Password, place : Place, ok : BOOLEAN,
     monitor : BOOLEAN, hostKey : {"none", "posted", "shown", "rejected"},
     cancelled : BOOLEAN, finished : BOOLEAN,
     slot : {"none", "ok", "error"}, session : SessionId \cup {NoSession}]
DialogRecord == [kind : Kind \cup {"none"}, request : Request, text : Text]
OutcomeRecord == [request : Request, ok : BOOLEAN, text : Text]

Types ==
    /\ server \in Text /\ stored \subseteq Text
    /\ ui \in UiRecord
    /\ edits \in 0 .. MaxEdits /\ requests \in Request
    /\ password \in Password /\ known \in BOOLEAN
    /\ pool \in [Host -> SessionId \cup {NoSession}]
    /\ dialog \in DialogRecord
    /\ task \in [Task -> TaskRecord]
    /\ outcomes \in Seq(OutcomeRecord)

\* What a task may hold: a session only while it works, and a text that its
\* outcome will call good only if the server had it.  A task without a monitor
\* no longer decides anything, but may have a reload to push.
\* (had are the texts the server had, made the requests that were made.)
TaskSound(r, had, made) ==
    /\ r.session # NoSession <=> r.place \in {"work", "direct"}
    /\ r.ok => r.text \in had
    /\ r.slot = "ok" => r.text \in had
    /\ r.slot # "none" => r.place = "end"
    /\ r.monitor \/ (r.place = "push" /\ r.kind = "reload") => r.request \in 1 .. made

TasksSound ==
    \A t \in Task : /\ TaskSound(task[t], stored, requests)
                    /\ task[t].place = "publish" => task[t].monitor

OutcomesSound ==
    \A i \in 1 .. Len(outcomes) :
        outcomes[i].request \in 1 .. requests /\ (outcomes[i].ok => outcomes[i].text \in stored)

\* The tab's baseline came from the server or from the state database.
TabSound ==
    /\ server \in stored
    /\ ui.tab.base \in stored \cup {Placeholder, Restored}
    /\ ~ui.tab.modified => ui.tab.text = ui.tab.base

\* A request has one task, or the dialog that asks for its password, and a
\* cancelled save is not the newest one.
RequestsSound ==
    /\ \A t, u \in Task :
          task[t].monitor /\ task[u].monitor /\ task[t].request = task[u].request => t = u
    /\ dialog # NoDialog =>
          /\ dialog.kind \in Kind /\ dialog.request \in 1 .. requests
          /\ \A t \in Task : task[t].monitor => task[t].request # dialog.request
    /\ \A t \in Task : task[t].monitor /\ task[t].kind = "save" /\ task[t].cancelled =>
                          ui.latest.save # task[t].request

Inv == /\ Types /\ TasksSound /\ OutcomesSound /\ TabSound /\ RequestsSound
       /\ SessionHasOneUser

LEMMA Constants ==
    /\ {Placeholder, Initial, Restored, Torn} \subseteq Text
    /\ NoRequest \in Request /\ NoSession \notin SessionId /\ 1 \in SessionId
    /\ Idle \in TaskRecord /\ NoDialog \in DialogRecord /\ Closed \in TabRecord
<1>1. /\ {Placeholder, Initial, Restored, Torn} \subseteq Text
      /\ NoRequest \in Request
  BY BoundsAssumption DEF Placeholder, Initial, Restored, Torn, Text, NoRequest, Request
<1>2. NoSession \notin SessionId /\ 1 \in SessionId
  <2>1. Cardinality(Host) + Cardinality(Task) \in Nat /\ Cardinality(Host) + Cardinality(Task) >= 1
    BY HostFinite, BoundsAssumption, FS_CardinalityType
  <2>. QED  BY <2>1 DEF SessionId, NoSession
<1>3. Idle \in TaskRecord
  BY <1>1 DEF Idle, TaskRecord, Password, Place
<1>4. NoDialog \in DialogRecord
  BY <1>1 DEF NoDialog, DialogRecord
<1>5. Closed \in TabRecord
  BY <1>1 DEF Closed, TabRecord
<1>. QED  BY <1>1, <1>2, <1>3, <1>4, <1>5

LEMMA InitInv == Init => Inv
<1>. SUFFICES ASSUME Init PROVE Inv
  OBVIOUS
<1>0. /\ server = Initial /\ stored = {Initial} /\ edits = 0 /\ requests = 0
      /\ password = "none" /\ known = FALSE
      /\ pool = [h \in Host |-> IF h = "elsewhere" THEN 1 ELSE NoSession]
      /\ dialog = NoDialog /\ task = [t \in Task |-> Idle] /\ outcomes = <<>>
  BY DEF Init
<1>1. PICK modified \in BOOLEAN, text \in {Restored, Placeholder} :
          ui = [active |-> FALSE,
                tab |-> [open |-> TRUE, text |-> text, base |-> text,
                         modified |-> modified],
                restore |-> {"pending"},
                latest |-> [open |-> NoRequest, save |-> NoRequest]]
  BY DEF Init
<1>t. Types
  <2>1. ui \in UiRecord
    BY <1>1, Constants DEF UiRecord, TabRecord
  <2>2. pool \in [Host -> SessionId \cup {NoSession}]
    BY <1>0, Constants
  <2>3. requests \in Request /\ edits \in 0 .. MaxEdits
    BY <1>0, BoundsAssumption DEF Request
  <2>4. task \in [Task -> TaskRecord] /\ dialog \in DialogRecord
    BY <1>0, Constants
  <2>5. server \in Text /\ stored \subseteq Text /\ outcomes \in Seq(OutcomeRecord)
    BY <1>0, Constants
  <2>. QED  BY <1>0, <2>1, <2>2, <2>3, <2>4, <2>5 DEF Types, Password
<1>a. TasksSound
  BY <1>0 DEF TasksSound, TaskSound, Idle
<1>b. OutcomesSound
  BY <1>0 DEF OutcomesSound
<1>c. TabSound
  BY <1>0, <1>1 DEF TabSound
<1>d. RequestsSound
  BY <1>0 DEF RequestsSound, Idle
<1>e. SessionHasOneUser
  <2>1. \A h \in Host : pool[h] = IF h = "elsewhere" THEN 1 ELSE NoSession
    BY <1>0
  <2>. QED  BY <1>0, <2>1 DEF SessionHasOneUser, Idle, NoSession
<1>. QED  BY <1>t, <1>a, <1>b, <1>c, <1>d, <1>e DEF Inv

-----------------------------------------------------------------------------
(* What the steps of a task leave of its record. *)

LEMMA TaskFields ==
    ASSUME Types, NEW t \in Task
    PROVE  /\ task[t] \in TaskRecord
           /\ task[t].kind \in Kind \cup {"none"} /\ task[t].request \in Request
           /\ task[t].text \in Text /\ task[t].password \in Password
           /\ task[t].place \in Place /\ task[t].ok \in BOOLEAN
           /\ task[t].monitor \in BOOLEAN
           /\ task[t].hostKey \in {"none", "posted", "shown", "rejected"}
           /\ task[t].cancelled \in BOOLEAN /\ task[t].finished \in BOOLEAN
           /\ task[t].slot \in {"none", "ok", "error"}
           /\ task[t].session \in SessionId \cup {NoSession}
<1>1. task[t] \in TaskRecord
  BY DEF Types
<1>. QED  BY <1>1 DEF TaskRecord

LEMMA ClearedFields ==
    ASSUME NEW r \in TaskRecord
    PROVE  /\ Cleared(r) \in TaskRecord
           /\ Cleared(r).monitor = r.monitor
           /\ r.monitor => Cleared(r) = r
           /\ r.place \in {"work", "direct"} => /\ Cleared(r).session = r.session
                                               /\ Cleared(r).place = r.place
           /\ \/ Cleared(r) = Idle
              \/ /\ Cleared(r).place = r.place /\ Cleared(r).kind = r.kind
                 /\ Cleared(r).text = r.text /\ Cleared(r).slot = r.slot
                 /\ Cleared(r).session = r.session
                 /\ Cleared(r).ok => r.ok
                 /\ r.place = "publish" => r.monitor
                 /\ r.place = "push" /\ r.kind = "reload" => Cleared(r).request = r.request
           /\ ~r.monitor /\ r.place \in {"publish", "end"} => Cleared(r) = Idle
<1>0. /\ r.monitor \in BOOLEAN /\ r.ok \in BOOLEAN /\ r.place \in Place
      /\ r.kind \in Kind \cup {"none"}
  BY DEF TaskRecord
<1>1. CASE r.monitor \/ (r.place = "push" /\ r.kind = "reload")
  <2>1. Cleared(r) = r
    BY <1>1 DEF Cleared
  <2>. QED  BY <1>0, <1>1, <2>1 DEF TaskRecord
<1>2. CASE ~r.monitor /\ (r.place \in {"publish", "end"} \/ (r.place = "push" /\ r.kind = "save"))
  <2>1. Cleared(r) = Idle /\ Idle.monitor = FALSE
    BY <1>2 DEF Cleared, Idle
  <2>. QED  BY <1>0, <1>2, <2>1, Constants
<1>3. CASE /\ ~(r.monitor \/ (r.place = "push" /\ r.kind = "reload"))
           /\ ~(~r.monitor /\ (r.place \in {"publish", "end"}
                              \/ (r.place = "push" /\ r.kind = "save")))
  <2>1. Cleared(r) = [r EXCEPT !.request = NoRequest, !.ok = FALSE,
                               !.cancelled = FALSE, !.finished = TRUE]
    BY <1>3 DEF Cleared
  <2>2. Cleared(r) \in TaskRecord
    BY <2>1, Constants DEF TaskRecord
  <2>. QED  BY <1>0, <1>3, <2>1, <2>2 DEF TaskRecord
<1>. QED  BY <1>1, <1>2, <1>3

\* What a task may become.
LEMMA ClearedSound ==
    ASSUME NEW r \in TaskRecord, NEW had, NEW made, TaskSound(r, had, made)
    PROVE  /\ TaskSound(Cleared(r), had, made)
           /\ Cleared(r).place = "publish" => Cleared(r).monitor
<1>. DEFINE c == Cleared(r)
<1>1. CASE c = Idle
  BY <1>1, Constants DEF TaskSound, Idle
<1>2. CASE c # Idle
  <2>. HIDE DEF c
  <2>. QED  BY <1>2, ClearedFields DEF TaskSound, c
<1>. QED  BY <1>1, <1>2

\* A task that is sound stays so when the server and the user go on.
LEMMA TaskSoundGrows ==
    ASSUME NEW r, NEW had, NEW had2, NEW made \in Nat, NEW made2 \in Nat,
           TaskSound(r, had, made), had \subseteq had2, made <= made2
    PROVE  TaskSound(r, had2, made2)
BY DEF TaskSound

-----------------------------------------------------------------------------
(* The worker thread. *)

\* Its steps change its own record, except for what the user and the monitor
\* see to, and they add texts to those the server had.
Keeps(t, r) ==
    /\ r.monitor = task[t].monitor /\ r.kind = task[t].kind
    /\ r.request = task[t].request /\ r.cancelled = task[t].cancelled
Server ==
    /\ server' \in stored' /\ stored \subseteq stored' /\ stored' \subseteq Text
Caches == password' \in Password /\ known' \in BOOLEAN
Appends ==
    \/ UNCHANGED outcomes
    \/ \E o \in OutcomeRecord : /\ o.request \in 1 .. requests
                                /\ o.ok => o.text \in stored
                                /\ outcomes' = Append(outcomes, o)
\* Each session that is in use afterwards was in use at one place before, or is
\* fresh.
NobodysSession(id) ==
    id \in SessionId /\ (\A h \in Host : pool[h] # id)
                     /\ (\A u \in Task : task[u].session # id)
Passes(t, r) ==
    LET Kept(h) == pool'[h] \in {pool[h], NoSession}
    IN  /\ pool' \in [Host -> SessionId \cup {NoSession}]
        /\ \/ /\ \A h \in Host : Kept(h)
              /\ r.session \in {task[t].session, NoSession} \/ NobodysSession(r.session)
           \/ /\ \A h \in Host \ {"home"} : Kept(h)
              /\ pool'["home"] = NoSession /\ r.session = pool["home"]
           \/ /\ \A h \in Host \ {"home"} : Kept(h)
              /\ pool'["home"] = task[t].session /\ r.session = NoSession

\* An outcome joins those that wait for the window.
LEMMA AppendSteps ==
    ASSUME Inv, Appends, stored \subseteq stored', UNCHANGED requests
    PROVE  outcomes' \in Seq(OutcomeRecord) /\ OutcomesSound'
<1>1. CASE UNCHANGED outcomes
  BY <1>1 DEF Inv, Types, OutcomesSound
<1>2. ASSUME NEW o \in OutcomeRecord, o.request \in 1 .. requests,
             o.ok => o.text \in stored, outcomes' = Append(outcomes, o)
      PROVE  outcomes' \in Seq(OutcomeRecord) /\ OutcomesSound'
  <2>1. outcomes \in Seq(OutcomeRecord)
    BY DEF Inv, Types
  <2>2. /\ outcomes' \in Seq(OutcomeRecord) /\ Len(outcomes') = Len(outcomes) + 1
        /\ \A i \in 1 .. Len(outcomes) + 1 :
              outcomes'[i] = IF i = Len(outcomes) + 1 THEN o ELSE outcomes[i]
    BY <1>2, <2>1
  <2>3. \A i \in 1 .. Len(outcomes) + 1 : i = Len(outcomes) + 1 \/ i \in 1 .. Len(outcomes)
    BY <2>1
  <2>. QED  BY <1>2, <2>2, <2>3 DEF Inv, OutcomesSound
<1>. QED  BY <1>1, <1>2 DEF Appends

\* No two users of a session come of it.
LEMMA SessionSteps ==
    ASSUME Inv, NEW t \in Task, NEW r \in TaskRecord, Moves(t, r), Passes(t, r)
    PROVE  SessionHasOneUser'
<1>1. /\ task \in [Task -> TaskRecord] /\ pool \in [Host -> SessionId \cup {NoSession}]
      /\ "home" \in Host
  BY DEF Inv, Types, Host
<1>. DEFINE s == Cleared(r).session
<1>2. \A u \in Task : task'[u].session = IF u = t THEN s ELSE task[u].session
  BY <1>1 DEF Moves
<1>3. s \in {r.session, NoSession}
  BY ClearedFields DEF Idle
<1>. HIDE DEF s
<1>4. CASE /\ \A h \in Host : pool'[h] \in {pool[h], NoSession}
           /\ r.session \in {task[t].session, NoSession}
  BY <1>1, <1>2, <1>3, <1>4 DEF Inv, SessionHasOneUser
<1>5. CASE /\ \A h \in Host : pool'[h] \in {pool[h], NoSession}
           /\ NobodysSession(r.session)
  BY <1>1, <1>2, <1>3, <1>5 DEF Inv, SessionHasOneUser, NobodysSession
<1>6. CASE /\ \A h \in Host \ {"home"} : pool'[h] \in {pool[h], NoSession}
           /\ pool'["home"] = NoSession /\ r.session = pool["home"]
  BY <1>1, <1>2, <1>3, <1>6 DEF Inv, SessionHasOneUser
<1>7. CASE /\ \A h \in Host \ {"home"} : pool'[h] \in {pool[h], NoSession}
           /\ pool'["home"] = task[t].session /\ r.session = NoSession
  BY <1>1, <1>2, <1>3, <1>7 DEF Inv, SessionHasOneUser
<1>. QED  BY <1>4, <1>5, <1>6, <1>7 DEF Passes

LEMMA ThreadSteps ==
    ASSUME Inv, NEW t \in Task, NEW r \in TaskRecord, Moves(t, r), Keeps(t, r),
           TaskSound(r, stored', requests), Passes(t, r), Server, Caches,
           OnlyThread, Appends
    PROVE  Inv'
<1>. USE DEF OnlyThread
<1>0. /\ task \in [Task -> TaskRecord]
      /\ Cleared(r) \in TaskRecord /\ Cleared(r).monitor = r.monitor
      /\ r.monitor => Cleared(r) = r
      /\ requests \in Nat
  BY ClearedFields DEF Inv, Types, Request
<1>1. \A u \in Task : task'[u] = IF u = t THEN Cleared(r) ELSE task[u]
  BY <1>0 DEF Moves
<1>t. Types'
  <2>1. task' \in [Task -> TaskRecord]
    BY <1>0 DEF Moves
  <2>2. outcomes' \in Seq(OutcomeRecord)
    BY AppendSteps DEF Server
  <2>. QED  BY <2>1, <2>2 DEF Inv, Types, Passes, Server, Caches
<1>a. TasksSound'
  <2>. SUFFICES ASSUME NEW u \in Task
                PROVE  /\ TaskSound(task'[u], stored', requests)
                       /\ task'[u].place = "publish" => task'[u].monitor
    BY DEF TasksSound
  <2>1. CASE u = t
    BY <1>1, <2>1, ClearedSound
  <2>2. CASE u # t
    BY <1>0, <1>1, <2>2, TaskSoundGrows DEF Inv, TasksSound, Server
  <2>. QED  BY <2>1, <2>2
<1>b. OutcomesSound'
  BY AppendSteps DEF Server
<1>c. TabSound'
  BY DEF Inv, TabSound, Server
<1>d. RequestsSound'
  BY <1>0, <1>1 DEF Inv, RequestsSound, Keeps
<1>e. SessionHasOneUser'
  BY SessionSteps
<1>. QED  BY <1>t, <1>a, <1>b, <1>c, <1>d, <1>e DEF Inv

\* A step that needs no session keeps the one it has.
LEMMA QuietServer ==
    ASSUME Inv
    PROVE  /\ UNCHANGED <<server, stored>> => Server
           /\ UNCHANGED <<password, known>> => Caches
           /\ UNCHANGED pool => pool' \in [Host -> SessionId \cup {NoSession}]
           /\ \A t \in Task : TaskSound(task[t], stored, requests)
BY DEF Inv, Types, TabSound, TasksSound, Server, Caches

LEMMA FailedFields ==
    ASSUME Inv, NEW t \in Task, task[t].place \in {"checkout", "hostkey"}
    PROVE  /\ Failed(task[t]) \in TaskRecord /\ Keeps(t, Failed(task[t]))
           /\ TaskSound(Failed(task[t]), stored, requests)
           /\ Failed(task[t]).session = NoSession /\ task[t].session = NoSession
<1>1. TaskSound(task[t], stored, requests) /\ task[t] \in TaskRecord
  BY QuietServer, TaskFields DEF Inv
<1>2. Failed(task[t]) \in TaskRecord
  BY <1>1 DEF Failed, TaskRecord, Place
<1>3. /\ Failed(task[t]).place = "publish" /\ Failed(task[t]).ok = FALSE
      /\ Failed(task[t]).session = task[t].session /\ Failed(task[t]).slot = task[t].slot
      /\ Failed(task[t]).text = task[t].text /\ Failed(task[t]).monitor = task[t].monitor
      /\ Failed(task[t]).request = task[t].request /\ Failed(task[t]).kind = task[t].kind
      /\ Failed(task[t]).cancelled = task[t].cancelled
  BY <1>1 DEF Failed, TaskRecord
<1>. QED  BY <1>1, <1>2, <1>3 DEF TaskSound, Keeps

\* What a connection comes to: a fresh session, a question or a failure.
Connects(t) ==
    /\ \E r \in TaskRecord :
          /\ Moves(t, r) /\ Keeps(t, r) /\ TaskSound(r, stored, requests)
          /\ r.session = NoSession \/ NobodysSession(r.session)
    /\ password' \in Password

LEMMA AuthenticateResult ==
    ASSUME Inv, NEW t \in Task, task[t].place \in {"checkout", "hostkey"}, Authenticate(t)
    PROVE  Connects(t)
<1>1. /\ TaskSound(task[t], stored, requests) /\ task[t] \in TaskRecord
      /\ password \in Password
  BY QuietServer, TaskFields DEF Inv, Types
<1>2. NobodysSession(Fresh)
  <2>1. pool \in [Host -> Nat] /\ [u \in Task |-> task[u].session] \in [Task -> Nat]
    BY TaskFields DEF Inv, Types, SessionId, NoSession
  <2>2. task[t].session = NoSession
    BY FailedFields
  <2>3. \E id \in SessionId : /\ \A h \in Host : pool[h] # id
                              /\ \A u \in Task : [v \in Task |-> task[v].session][u] # id
    BY <2>1, <2>2, FreshExists
  <2>4. \E id \in SessionId : /\ \A h \in Host : pool[h] # id
                              /\ \A u \in Task : task[u].session # id
    BY <2>3
  <2>. QED  BY <2>4 DEF Fresh, NobodysSession
<1>. DEFINE r == [task[t] EXCEPT !.place = "work", !.hostKey = "none", !.session = Fresh]
<1>3. Fresh \in SessionId /\ Fresh # NoSession
  BY <1>2, Constants DEF NobodysSession
<1>4. r \in TaskRecord
  BY <1>1, <1>3 DEF TaskRecord, Place
<1>5. /\ r.session = Fresh /\ r.place = "work" /\ r.ok = task[t].ok
      /\ r.text = task[t].text /\ r.slot = task[t].slot /\ r.monitor = task[t].monitor
      /\ r.request = task[t].request /\ r.kind = task[t].kind
      /\ r.cancelled = task[t].cancelled
  BY <1>1 DEF TaskRecord
<1>. HIDE DEF r
<1>6. CASE Moves(t, r) /\ UNCHANGED password
  BY <1>1, <1>2, <1>3, <1>4, <1>5, <1>6 DEF Connects, Keeps, TaskSound
<1>7. CASE Moves(t, Failed(task[t])) /\ password' \in {password, "none"}
  BY <1>1, <1>7, FailedFields DEF Connects, Password
<1>. QED  BY <1>6, <1>7 DEF Authenticate, r

LEMMA ConnectResult ==
    ASSUME Inv, NEW t \in Task, task[t].place = "checkout", Connect(t)
    PROVE  Connects(t)
<1>1. /\ TaskSound(task[t], stored, requests) /\ task[t] \in TaskRecord
      /\ password \in Password /\ task[t].session = NoSession
  BY QuietServer, TaskFields, FailedFields DEF Inv, Types
<1>2. CASE Moves(t, Failed(task[t])) /\ UNCHANGED password
  BY <1>1, <1>2, FailedFields DEF Connects
<1>3. CASE Authenticate(t)
  BY <1>3, AuthenticateResult
<1>. DEFINE r == [task[t] EXCEPT !.place = "hostkey", !.hostKey = "posted"]
<1>4. CASE Moves(t, r) /\ UNCHANGED password
  <2>1. r \in TaskRecord
    BY <1>1 DEF TaskRecord, Place
  <2>2. /\ r.session = NoSession /\ r.place = "hostkey" /\ r.ok = task[t].ok
        /\ r.text = task[t].text /\ r.slot = task[t].slot /\ r.monitor = task[t].monitor
        /\ r.request = task[t].request /\ r.kind = task[t].kind
        /\ r.cancelled = task[t].cancelled
    BY <1>1 DEF TaskRecord
  <2>. HIDE DEF r
  <2>. QED  BY <1>1, <1>4, <2>1, <2>2 DEF Connects, Keeps, TaskSound
<1>. QED  BY <1>2, <1>3, <1>4 DEF Connect

LEMMA StaleFields ==
    ASSUME Inv, NEW left \in EvictStale(pool)
    PROVE  /\ left \in [Host -> SessionId \cup {NoSession}]
           /\ \A h \in Host : left[h] \in {pool[h], NoSession}
BY DEF EvictStale, Inv, Types

LEMMA CheckoutStep ==
    ASSUME Inv, NEW t \in Task, CheckoutOrConnect(t)
    PROVE  Inv'
<1>1. /\ task[t].place = "checkout" /\ OnlyThread
      /\ UNCHANGED <<server, stored, known, outcomes>>
      /\ task[t].session = NoSession
  BY FailedFields DEF CheckoutOrConnect
<1>2. PICK left \in EvictStale(pool) :
         \/ ~Finds(t, left) /\ pool' = left /\ Connect(t)
         \/ /\ Finds(t, left)
            /\ pool' = [left EXCEPT !["home"] = NoSession]
            /\ \/ /\ Moves(t, [task[t] EXCEPT !.place = "work",
                                              !.session = left["home"]])
                  /\ UNCHANGED password
               \/ Connect(t)
  BY DEF CheckoutOrConnect
<1>3. /\ left \in [Host -> SessionId \cup {NoSession}] /\ "home" \in Host
      /\ \A h \in Host : left[h] \in {pool[h], NoSession}
  BY StaleFields DEF Host
<1>4. pool' = left \/ pool' = [left EXCEPT !["home"] = NoSession]
  BY <1>2
<1>5. /\ pool' \in [Host -> SessionId \cup {NoSession}]
      /\ \A h \in Host : pool'[h] \in {pool[h], NoSession}
  BY <1>3, <1>4
<1>6. Server /\ known' \in BOOLEAN /\ password \in Password
  BY <1>1, QuietServer DEF Inv, Types
<1>7. CASE Connect(t)
  <2>1. Connects(t)
    BY <1>1, <1>7, ConnectResult
  <2>2. PICK r \in TaskRecord :
          /\ Moves(t, r) /\ Keeps(t, r) /\ TaskSound(r, stored, requests)
          /\ r.session = NoSession \/ NobodysSession(r.session)
    BY <2>1 DEF Connects
  <2>3. Passes(t, r) /\ Caches
    BY <1>5, <1>6, <2>1, <2>2 DEF Passes, Caches, Connects
  <2>. QED  BY <1>1, <1>6, <2>2, <2>3, ThreadSteps DEF Appends
<1>. DEFINE r == [task[t] EXCEPT !.place = "work", !.session = left["home"]]
<1>8. CASE /\ Finds(t, left) /\ pool' = [left EXCEPT !["home"] = NoSession]
           /\ Moves(t, r) /\ UNCHANGED password
  <2>1. TaskSound(task[t], stored, requests) /\ task[t] \in TaskRecord
    BY QuietServer, TaskFields DEF Inv
  <2>2. left["home"] = pool["home"] /\ left["home"] # NoSession
        /\ left["home"] \in SessionId \cup {NoSession}
    BY <1>3, <1>8 DEF Finds
  <2>3. r \in TaskRecord
    BY <2>1, <2>2 DEF TaskRecord, Place
  <2>4. /\ r.session = pool["home"] /\ r.place = "work" /\ r.ok = task[t].ok
        /\ r.text = task[t].text /\ r.slot = task[t].slot /\ r.monitor = task[t].monitor
        /\ r.request = task[t].request /\ r.kind = task[t].kind
        /\ r.cancelled = task[t].cancelled
    BY <2>1, <2>2 DEF TaskRecord
  <2>. HIDE DEF r
  <2>5. Keeps(t, r) /\ TaskSound(r, stored, requests)
    BY <1>1, <2>1, <2>2, <2>4 DEF Keeps, TaskSound
  <2>6. Passes(t, r)
    BY <1>3, <1>5, <1>8, <2>4 DEF Passes
  <2>7. Caches
    BY <1>6, <1>8 DEF Caches
  <2>. QED  BY <1>1, <1>6, <1>8, <2>3, <2>5, <2>6, <2>7, ThreadSteps DEF Appends
<1>. QED  BY <1>2, <1>7, <1>8

LEMMA TrustHostKeyStep ==
    ASSUME Inv, NEW t \in Task, TrustHostKey(t)
    PROVE  Inv'
<1>1. /\ task[t].place = "hostkey" /\ known' = TRUE /\ OnlyThread
      /\ UNCHANGED <<server, stored, pool, outcomes>>
      /\ task[t].session = NoSession
  BY FailedFields DEF TrustHostKey
<1>2. Connects(t)
  BY <1>1, AuthenticateResult DEF TrustHostKey
<1>3. PICK r \in TaskRecord :
        /\ Moves(t, r) /\ Keeps(t, r) /\ TaskSound(r, stored, requests)
        /\ r.session = NoSession \/ NobodysSession(r.session)
  BY <1>2 DEF Connects
<1>4. Server /\ pool' \in [Host -> SessionId \cup {NoSession}]
  BY <1>1, QuietServer
<1>5. Passes(t, r) /\ Caches
  BY <1>1, <1>2, <1>3, <1>4 DEF Passes, Caches, Connects
<1>. QED  BY <1>1, <1>3, <1>4, <1>5, ThreadSteps DEF Appends

LEMMA NoHostKeyStep ==
    ASSUME Inv, NEW t \in Task, NoHostKey(t)
    PROVE  Inv'
<1>. DEFINE r == Failed(task[t])
<1>1. /\ task[t].place = "hostkey" /\ Moves(t, r) /\ OnlyThread
      /\ UNCHANGED <<server, stored, password, known, pool, outcomes>>
  BY DEF NoHostKey
<1>2. /\ r \in TaskRecord /\ Keeps(t, r) /\ TaskSound(r, stored, requests)
      /\ r.session = NoSession
  BY <1>1, FailedFields
<1>3. Server /\ Caches /\ pool' \in [Host -> SessionId \cup {NoSession}]
  BY <1>1, QuietServer
<1>. HIDE DEF r
<1>4. Passes(t, r)
  BY <1>1, <1>2, <1>3 DEF Passes
<1>. QED  BY <1>1, <1>2, <1>3, <1>4, ThreadSteps DEF Appends

\* put: the pool holds what it held before, apart from the session of the task.
LEMMA PutFields ==
    ASSUME Inv, NEW id \in SessionId \cup {NoSession}, NEW left \in EvictStale(pool),
           NEW p \in Put(left, id)
    PROVE  /\ p \in [Host -> SessionId \cup {NoSession}] /\ p["home"] = id
           /\ \A h \in Host \ {"home"} : p[h] \in {pool[h], NoSession}
<1>1. PICK oldest : p = [h \in Host |-> IF h = "home" THEN id
                           ELSE IF h \in oldest THEN NoSession ELSE left[h]]
  BY DEF Put
<1>2. "home" \in Host
  BY DEF Host
<1>. QED  BY <1>1, <1>2, StaleFields

\* The work is done: well, with a text the server has had, or not.
LEMMA WorkDoneStep ==
    ASSUME Inv, NEW t \in Task, NEW ok \in BOOLEAN, NEW text \in Text,
           task[t].place \in {"work", "direct"}, WorkDone(t, ok, text),
           ok => text \in stored', Server, OnlyThread,
           UNCHANGED <<password, known, outcomes>>
    PROVE  Inv'
<1>. DEFINE r == [task[t] EXCEPT !.ok = ok, !.text = text, !.place = "publish",
                                 !.session = NoSession]
<1>1. /\ TaskSound(task[t], stored, requests) /\ task[t] \in TaskRecord
      /\ task[t].session \in SessionId \cup {NoSession}
  BY QuietServer, TaskFields DEF Inv
<1>2. r \in TaskRecord
  BY <1>1 DEF TaskRecord, Place
<1>3. /\ r.session = NoSession /\ r.place = "publish" /\ r.ok = ok
      /\ r.text = text /\ r.slot = task[t].slot /\ r.monitor = task[t].monitor
      /\ r.request = task[t].request /\ r.kind = task[t].kind
      /\ r.cancelled = task[t].cancelled
  BY <1>1 DEF TaskRecord
<1>4. Moves(t, r)
  BY DEF WorkDone
<1>. HIDE DEF r
<1>5. Keeps(t, r) /\ TaskSound(r, stored', requests)
  BY <1>1, <1>3 DEF Keeps, TaskSound, Server
<1>6. Passes(t, r)
  <2>1. CASE ok
    <3>1. PICK left \in EvictStale(pool) : pool' \in Put(left, task[t].session)
      BY <2>1 DEF WorkDone
    <3>. QED  BY <1>1, <1>3, <3>1, PutFields DEF Passes
  <2>2. CASE ~ok
    <3>1. UNCHANGED pool
      BY <2>2 DEF WorkDone
    <3>. QED  BY <1>3, <3>1, QuietServer DEF Passes
  <2>. QED  BY <2>1, <2>2
<1>7. Caches
  BY QuietServer
<1>. QED  BY <1>2, <1>4, <1>5, <1>6, <1>7, ThreadSteps DEF Appends

LEMMA StoresServer ==
    ASSUME Inv, NEW text \in Text, Stores(text)
    PROVE  Server /\ text \in stored'
BY DEF Inv, Types, Stores, Server

LEMMA ReadStep ==
    ASSUME Inv, NEW t \in Task, Read(t)
    PROVE  Inv'
<1>1. /\ task[t].place = "work" /\ OnlyThread
      /\ UNCHANGED <<server, stored, password, known, outcomes>>
      /\ WorkDone(t, TRUE, server) \/ WorkDone(t, FALSE, Placeholder)
  BY DEF Read
<1>2. Server /\ server \in stored' /\ server \in Text /\ Placeholder \in Text
  BY <1>1, QuietServer, Constants DEF Inv, Types, TabSound
<1>3. CASE WorkDone(t, TRUE, server)
  BY <1>1, <1>2, <1>3, WorkDoneStep
<1>4. CASE WorkDone(t, FALSE, Placeholder)
  BY <1>1, <1>2, <1>4, WorkDoneStep
<1>. QED  BY <1>1, <1>3, <1>4

LEMMA WriteTemporaryStep ==
    ASSUME Inv, NEW t \in Task, WriteTemporary(t)
    PROVE  Inv'
<1>. DEFINE text == task[t].text
            r == [task[t] EXCEPT !.place = "direct"]
<1>1. /\ task[t].place = "work" /\ OnlyThread
      /\ UNCHANGED <<password, known, outcomes>>
      /\ \/ Stores(text) /\ WorkDone(t, TRUE, text)
         \/ Stores(Torn) /\ Moves(t, r) /\ UNCHANGED pool
         \/ WorkDone(t, FALSE, text) /\ UNCHANGED <<server, stored>>
  BY DEF WriteTemporary
<1>2. text \in Text /\ Torn \in Text
  BY TaskFields, Constants DEF Inv
<1>3. CASE Stores(text) /\ WorkDone(t, TRUE, text)
  <2>1. Server /\ text \in stored'
    BY <1>2, <1>3, StoresServer
  <2>. QED  BY <1>1, <1>2, <1>3, <2>1, WorkDoneStep
<1>4. CASE WorkDone(t, FALSE, text) /\ UNCHANGED <<server, stored>>
  BY <1>1, <1>2, <1>4, QuietServer, WorkDoneStep
<1>5. CASE Stores(Torn) /\ Moves(t, r) /\ UNCHANGED pool
  <2>1. TaskSound(task[t], stored, requests) /\ task[t] \in TaskRecord
    BY QuietServer, TaskFields DEF Inv
  <2>2. r \in TaskRecord
    BY <2>1 DEF TaskRecord, Place
  <2>3. /\ r.session = task[t].session /\ r.place = "direct" /\ r.ok = task[t].ok
        /\ r.text = task[t].text /\ r.slot = task[t].slot /\ r.monitor = task[t].monitor
        /\ r.request = task[t].request /\ r.kind = task[t].kind
        /\ r.cancelled = task[t].cancelled
    BY <2>1 DEF TaskRecord
  <2>. HIDE DEF r
  <2>4. Server
    BY <1>2, <1>5, StoresServer
  <2>5. Keeps(t, r) /\ TaskSound(r, stored', requests)
    BY <1>1, <2>1, <2>3, <2>4 DEF Keeps, TaskSound, Server
  <2>6. Passes(t, r) /\ Caches
    BY <1>1, <1>5, <2>3, QuietServer DEF Passes
  <2>. QED  BY <1>1, <1>5, <2>2, <2>4, <2>5, <2>6, ThreadSteps DEF Appends
<1>. QED  BY <1>1, <1>3, <1>4, <1>5

LEMMA DirectWriteStep ==
    ASSUME Inv, NEW t \in Task, DirectWrite(t)
    PROVE  Inv'
<1>. DEFINE text == task[t].text
<1>1. /\ task[t].place = "direct" /\ OnlyThread
      /\ UNCHANGED <<password, known, outcomes>>
      /\ \/ Stores(text) /\ WorkDone(t, TRUE, text)
         \/ WorkDone(t, FALSE, text) /\ UNCHANGED <<server, stored>>
  BY DEF DirectWrite
<1>2. text \in Text
  BY TaskFields DEF Inv
<1>3. CASE Stores(text) /\ WorkDone(t, TRUE, text)
  <2>1. Server /\ text \in stored'
    BY <1>2, <1>3, StoresServer
  <2>. QED  BY <1>1, <1>2, <1>3, <2>1, WorkDoneStep
<1>4. CASE WorkDone(t, FALSE, text) /\ UNCHANGED <<server, stored>>
  BY <1>1, <1>2, <1>4, QuietServer, WorkDoneStep
<1>. QED  BY <1>1, <1>3, <1>4

LEMMA SwapFinishedStep ==
    ASSUME Inv, NEW t \in Task, SwapFinished(t)
    PROVE  Inv'
<1>. DEFINE place == IF task[t].cancelled \/ task[t].finished THEN "end" ELSE "push"
            r == [task[t] EXCEPT !.finished = TRUE, !.place = place]
<1>1. /\ task[t].place = "publish" /\ OnlyThread /\ Moves(t, r)
      /\ UNCHANGED <<server, stored, password, known, pool, outcomes>>
  BY DEF SwapFinished
<1>2. TaskSound(task[t], stored, requests) /\ task[t] \in TaskRecord /\ task[t].monitor
  BY <1>1, QuietServer, TaskFields DEF Inv, TasksSound
<1>3. r \in TaskRecord
  BY <1>2 DEF TaskRecord, Place
<1>4. /\ r.session = task[t].session /\ r.place \in {"end", "push"} /\ r.ok = task[t].ok
      /\ r.text = task[t].text /\ r.slot = task[t].slot /\ r.monitor = task[t].monitor
      /\ r.request = task[t].request /\ r.kind = task[t].kind
      /\ r.cancelled = task[t].cancelled
  BY <1>2 DEF TaskRecord
<1>. HIDE DEF r
<1>5. Server /\ Caches
  BY <1>1, QuietServer
<1>6. Keeps(t, r) /\ TaskSound(r, stored', requests)
  BY <1>1, <1>2, <1>4 DEF Keeps, TaskSound
<1>7. Passes(t, r)
  BY <1>1, <1>4, QuietServer DEF Passes
<1>. QED  BY <1>1, <1>3, <1>5, <1>6, <1>7, ThreadSteps DEF Appends

\* The outcome of a save goes to the slot its monitor looks at, that of a reload
\* to the window.
LEMMA PushOutcomeStep ==
    ASSUME Inv, NEW t \in Task, PushOutcome(t)
    PROVE  Inv'
<1>. DEFINE slot == IF task[t].ok THEN "ok" ELSE "error"
            r1 == [task[t] EXCEPT !.slot = slot, !.place = "end"]
            r2 == [task[t] EXCEPT !.place = "end"]
            o == Outcome(task[t], task[t].ok)
<1>1. /\ task[t].place = "push" /\ OnlyThread
      /\ UNCHANGED <<server, stored, password, known, pool>>
      /\ \/ Moves(t, r1) /\ UNCHANGED outcomes
         \/ task[t].kind = "reload" /\ Moves(t, r2) /\ outcomes' = Append(outcomes, o)
  BY DEF PushOutcome
<1>2. /\ TaskSound(task[t], stored, requests) /\ task[t] \in TaskRecord
      /\ task[t].request \in Request /\ task[t].ok \in BOOLEAN /\ task[t].text \in Text
  BY QuietServer, TaskFields DEF Inv
<1>3. r1 \in TaskRecord /\ r2 \in TaskRecord
  BY <1>2 DEF TaskRecord, Place
<1>4. /\ r1.session = task[t].session /\ r1.place = "end" /\ r1.ok = task[t].ok
      /\ r1.text = task[t].text /\ r1.slot = slot /\ r1.monitor = task[t].monitor
      /\ r1.request = task[t].request /\ r1.kind = task[t].kind
      /\ r1.cancelled = task[t].cancelled
  BY <1>2 DEF TaskRecord
<1>5. /\ r2.session = task[t].session /\ r2.place = "end" /\ r2.ok = task[t].ok
      /\ r2.text = task[t].text /\ r2.slot = task[t].slot /\ r2.monitor = task[t].monitor
      /\ r2.request = task[t].request /\ r2.kind = task[t].kind
      /\ r2.cancelled = task[t].cancelled
  BY <1>2 DEF TaskRecord
<1>6. o \in OutcomeRecord /\ o.request = task[t].request /\ o.ok = task[t].ok /\ o.text = task[t].text
  BY <1>2 DEF Outcome, OutcomeRecord
<1>. HIDE DEF r1, r2, o
<1>7. Server /\ Caches
  BY <1>1, QuietServer
<1>8. CASE Moves(t, r1) /\ UNCHANGED outcomes
  <2>1. Keeps(t, r1) /\ TaskSound(r1, stored', requests)
    BY <1>1, <1>2, <1>4 DEF Keeps, TaskSound
  <2>2. Passes(t, r1)
    BY <1>1, <1>4, QuietServer DEF Passes
  <2>. QED  BY <1>1, <1>3, <1>7, <1>8, <2>1, <2>2, ThreadSteps DEF Appends
<1>9. CASE task[t].kind = "reload" /\ Moves(t, r2) /\ outcomes' = Append(outcomes, o)
  <2>1. Keeps(t, r2) /\ TaskSound(r2, stored', requests)
    BY <1>1, <1>2, <1>5 DEF Keeps, TaskSound
  <2>2. Passes(t, r2)
    BY <1>1, <1>5, QuietServer DEF Passes
  <2>3. Appends
    BY <1>1, <1>2, <1>6, <1>9 DEF Appends, TaskSound
  <2>. QED  BY <1>1, <1>3, <1>7, <1>9, <2>1, <2>2, <2>3, ThreadSteps
<1>. QED  BY <1>1, <1>8, <1>9

-----------------------------------------------------------------------------
(* The monitor, and the cancel on its notification. *)

LEMMA UiFields ==
    ASSUME Types
    PROVE  /\ ui \in UiRecord /\ ui.active \in BOOLEAN
           /\ ui.tab \in TabRecord /\ ui.tab.open \in BOOLEAN /\ ui.tab.text \in Text
           /\ ui.tab.base \in Text /\ ui.tab.modified \in BOOLEAN
           /\ ui.restore \subseteq {"pending", "inflight"}
           /\ ui.latest \in [open : Request, save : Request]
           /\ ui.latest.open \in Request /\ ui.latest.save \in Request
<1>1. ui \in UiRecord
  BY DEF Types
<1>2. ui.tab \in TabRecord /\ ui.latest \in [open : Request, save : Request]
  BY <1>1 DEF UiRecord
<1>. QED  BY <1>1, <1>2 DEF UiRecord, TabRecord

\* Both leave the thread's part of the record alone.
Watches(t, r) ==
    /\ r.kind = task[t].kind /\ r.request = task[t].request /\ r.text = task[t].text
    /\ r.place = task[t].place /\ r.ok = task[t].ok /\ r.slot = task[t].slot
    /\ r.session = task[t].session
    /\ r.monitor => task[t].monitor
\* What becomes of the window w.
WindowSound(w) ==
    /\ w \in UiRecord
    /\ w.tab.base \in stored \cup {Placeholder, Restored}
    /\ ~w.tab.modified => w.tab.text = w.tab.base
Settles(t, r, w) ==
    /\ w.latest.save \in {ui.latest.save, NoRequest}
    /\ r.monitor /\ r.kind = "save" /\ r.cancelled => w.latest.save # r.request

LEMMA WindowIsSound == Inv => WindowSound(ui)
BY DEF Inv, Types, TabSound, WindowSound

LEMMA MonitorSteps ==
    ASSUME Inv, NEW t \in Task, NEW r \in TaskRecord, Moves(t, r), Watches(t, r),
           NEW w, ui' = w, WindowSound(w), Settles(t, r, w), Appends, OnlyWindow
    PROVE  Inv'
<1>. USE DEF OnlyWindow
<1>0. /\ task \in [Task -> TaskRecord]
      /\ Cleared(r) \in TaskRecord /\ Cleared(r).monitor = r.monitor
      /\ r.monitor => Cleared(r) = r
      /\ TaskSound(task[t], stored, requests)
      /\ pool \in [Host -> SessionId \cup {NoSession}]
  BY ClearedFields, QuietServer DEF Inv, Types, Request
<1>1. \A u \in Task : task'[u] = IF u = t THEN Cleared(r) ELSE task[u]
  BY <1>0 DEF Moves
<1>t. Types'
  <2>1. task' \in [Task -> TaskRecord]
    BY <1>0 DEF Moves
  <2>2. outcomes' \in Seq(OutcomeRecord)
    BY AppendSteps
  <2>. QED  BY <2>1, <2>2 DEF Inv, Types, WindowSound
<1>a. TasksSound'
  <2>1. TaskSound(r, stored, requests)
    BY <1>0 DEF TaskSound, Watches
  <2>2. /\ TaskSound(Cleared(r), stored, requests)
        /\ Cleared(r).place = "publish" => Cleared(r).monitor
    BY <2>1, ClearedSound
  <2>. QED  BY <1>1, <2>2 DEF Inv, TasksSound
<1>b. OutcomesSound'
  BY AppendSteps
<1>c. TabSound'
  BY DEF Inv, TabSound, WindowSound
<1>d. RequestsSound'
  <2>1. \A u \in Task : task[u].monitor => task[u].request # NoRequest
    BY DEF Inv, TasksSound, TaskSound, NoRequest
  <2>2. \A u \in Task : task'[u].monitor =>
            task[u].monitor /\ task'[u].request = task[u].request
    BY <1>0, <1>1 DEF Watches
  <2>3. ASSUME NEW u \in Task, task'[u].monitor, task'[u].kind = "save", task'[u].cancelled
        PROVE  w.latest.save # task'[u].request
    <3>1. CASE u = t
      BY <1>0, <1>1, <2>3, <3>1 DEF Settles
    <3>2. CASE u # t
      BY <1>1, <2>1, <2>3, <3>2 DEF Inv, RequestsSound, Settles
    <3>. QED  BY <3>1, <3>2
  <2>. QED  BY <2>2, <2>3 DEF Inv, RequestsSound
<1>e. SessionHasOneUser'
  BY <1>0, SessionSteps DEF Passes, Watches
<1>. QED  BY <1>t, <1>a, <1>b, <1>c, <1>d, <1>e DEF Inv

\* The result of a save: the saved text becomes the baseline only if the save is
\* the newest one and went well.
LEMMA SavedFields ==
    ASSUME Inv, NEW t \in Task, NEW r \in TaskRecord, NEW ok \in BOOLEAN,
           ok => r.text \in stored
    PROVE  /\ WindowSound(Saved(ui, r, ok))
           /\ Saved(ui, r, ok).latest.save \in {ui.latest.save, NoRequest}
           /\ \/ Saved(ui, r, ok).tab.base = ui.tab.base
              \/ ok /\ ui.latest.save = r.request /\ Saved(ui, r, ok).tab.base = r.text
<1>1. WindowSound(ui) /\ r.text \in Text
  BY WindowIsSound DEF TaskRecord
<1>2. CASE ui.latest.save # r.request
  BY <1>1, <1>2 DEF Saved
<1>. DEFINE settled == [ui EXCEPT !.latest.save = NoRequest]
<1>3. /\ settled \in UiRecord /\ settled.tab = ui.tab /\ settled.latest.save = NoRequest
      /\ settled.restore = ui.restore
  BY UiFields, Constants DEF Inv, UiRecord
<1>4. CASE ui.latest.save = r.request /\ ~(ok /\ ui.tab.open)
  <2>1. Saved(ui, r, ok) = settled
    BY <1>4 DEF Saved
  <2>. QED  BY <1>1, <1>3, <2>1 DEF WindowSound
<1>5. CASE ui.latest.save = r.request /\ ok /\ ui.tab.open
  <2>. DEFINE w == [settled EXCEPT !.tab.base = r.text,
                                   !.tab.modified = ui.tab.text # r.text,
                                   !.restore = {}]
  <2>1. Saved(ui, r, ok) = w
    BY <1>5 DEF Saved
  <2>. HIDE DEF settled
  <2>2. /\ w \in UiRecord /\ w.tab.base = r.text /\ w.tab.text = ui.tab.text
        /\ w.tab.modified = (ui.tab.text # r.text) /\ w.latest = settled.latest
    BY <1>1, <1>3, UiFields DEF Inv, UiRecord, TabRecord
  <2>. HIDE DEF w
  <2>. QED  BY <1>3, <1>5, <2>1, <2>2 DEF WindowSound
<1>. QED  BY <1>2, <1>4, <1>5

LEMMA MonitorDeliversStep ==
    ASSUME Inv, NEW t \in Task, MonitorDelivers(t)
    PROVE  Inv'
<1>. DEFINE r == [task[t] EXCEPT !.monitor = FALSE]
            w == IF task[t].kind = "save"
                 THEN Saved(ui, task[t], task[t].slot = "ok") ELSE ui
<1>1. ui' = w /\ Moves(t, r) /\ OnlyWindow /\ UNCHANGED outcomes
  BY DEF MonitorDelivers, MonitorEnds
<1>2. /\ task[t] \in TaskRecord /\ TaskSound(task[t], stored, requests)
      /\ task[t].hostKey \in {"none", "posted", "shown", "rejected"}
      /\ task[t].cancelled \in BOOLEAN /\ task[t].finished \in BOOLEAN
      /\ (task[t].slot = "ok") \in BOOLEAN
  BY TaskFields, QuietServer DEF Inv
<1>4. r \in TaskRecord /\ Watches(t, r) /\ r.monitor = FALSE
  <2>1. r \in TaskRecord
    BY <1>2 DEF TaskRecord
  <2>. QED  BY <1>1, <1>2, <2>1 DEF TaskRecord, Watches
<1>5. WindowSound(w) /\ w.latest.save \in {ui.latest.save, NoRequest}
  BY <1>2, SavedFields, WindowIsSound DEF TaskSound
<1>. HIDE DEF r, w
<1>6. Settles(t, r, w)
  BY <1>4, <1>5 DEF Settles
<1>. QED  BY <1>1, <1>4, <1>5, <1>6, MonitorSteps DEF Appends

LEMMA MonitorSeesCancelStep ==
    ASSUME Inv, NEW t \in Task, MonitorSeesCancel(t)
    PROVE  Inv'
<1>. DEFINE r == [task[t] EXCEPT !.monitor = FALSE]
<1>1. ui' = ui /\ Moves(t, r) /\ OnlyWindow /\ UNCHANGED outcomes
  BY DEF MonitorSeesCancel, MonitorEnds
<1>2. /\ task[t] \in TaskRecord
      /\ task[t].hostKey \in {"none", "posted", "shown", "rejected"}
      /\ task[t].cancelled \in BOOLEAN /\ task[t].finished \in BOOLEAN
  BY TaskFields DEF Inv
<1>4. r \in TaskRecord /\ Watches(t, r) /\ r.monitor = FALSE
  <2>1. r \in TaskRecord
    BY <1>2 DEF TaskRecord
  <2>. QED  BY <1>1, <1>2, <2>1 DEF TaskRecord, Watches
<1>. HIDE DEF r
<1>5. WindowSound(ui) /\ Settles(t, r, ui)
  BY <1>4, WindowIsSound DEF Settles
<1>. QED  BY <1>1, <1>4, <1>5, MonitorSteps DEF Appends

LEMMA MonitorShowsHostKeyStep ==
    ASSUME Inv, NEW t \in Task, MonitorShowsHostKey(t)
    PROVE  Inv'
<1>. DEFINE r == [task[t] EXCEPT !.hostKey = "shown"]
<1>1. /\ ui' = ui /\ Moves(t, r) /\ OnlyWindow /\ UNCHANGED outcomes
      /\ task[t].monitor /\ ~task[t].cancelled
  BY DEF MonitorShowsHostKey
<1>2. /\ task[t] \in TaskRecord
      /\ task[t].monitor \in BOOLEAN
      /\ task[t].cancelled \in BOOLEAN /\ task[t].finished \in BOOLEAN
  BY TaskFields DEF Inv
<1>4. r \in TaskRecord /\ Watches(t, r) /\ r.cancelled = task[t].cancelled
  <2>1. r \in TaskRecord
    BY <1>2 DEF TaskRecord
  <2>. QED  BY <1>1, <1>2, <2>1 DEF TaskRecord, Watches
<1>. HIDE DEF r
<1>5. WindowSound(ui) /\ Settles(t, r, ui)
  BY <1>1, <1>4, WindowIsSound DEF Settles
<1>. QED  BY <1>1, <1>4, <1>5, MonitorSteps DEF Appends

LEMMA MonitorGivesUpStep ==
    ASSUME Inv, NEW t \in Task, MonitorGivesUp(t)
    PROVE  Inv'
<1>. DEFINE hostKey == IF task[t].hostKey = "posted" THEN "rejected" ELSE task[t].hostKey
            q == [task[t] EXCEPT !.hostKey = hostKey]
            r == [[q EXCEPT !.finished = TRUE] EXCEPT !.monitor = FALSE]
            w == IF q.kind = "save" /\ ~q.finished THEN Saved(ui, q, FALSE) ELSE ui
            o == Outcome(q, FALSE)
<1>1. /\ ui' = w /\ Moves(t, r) /\ OnlyWindow /\ task[t].monitor
      /\ outcomes' = Append(outcomes, o) \/ outcomes' = outcomes
  BY DEF MonitorGivesUp, MonitorEnds
<1>2. /\ task[t] \in TaskRecord /\ TaskSound(task[t], stored, requests)
      /\ hostKey \in {"none", "posted", "shown", "rejected"}
      /\ task[t].cancelled \in BOOLEAN /\ task[t].finished \in BOOLEAN
      /\ task[t].request \in Request /\ task[t].text \in Text
  BY TaskFields, QuietServer DEF Inv
<1>. HIDE DEF hostKey
<1>4. q \in TaskRecord /\ q.request = task[t].request /\ q.text = task[t].text
  BY <1>2 DEF TaskRecord
<1>5. o \in OutcomeRecord /\ o.request = task[t].request /\ o.ok = FALSE
  BY <1>2, <1>4 DEF Outcome, OutcomeRecord
<1>6. r \in TaskRecord /\ Watches(t, r) /\ r.monitor = FALSE
  <2>1. r \in TaskRecord
    BY <1>2 DEF TaskRecord
  <2>. QED  BY <1>1, <1>2, <2>1 DEF TaskRecord, Watches
<1>. HIDE DEF r, q, o
<1>7. WindowSound(w) /\ w.latest.save \in {ui.latest.save, NoRequest}
  BY <1>4, SavedFields, WindowIsSound
<1>8. Appends
  BY <1>1, <1>2, <1>5 DEF Appends, TaskSound
<1>. HIDE DEF w
<1>9. Settles(t, r, w)
  BY <1>6, <1>7 DEF Settles
<1>. QED  BY <1>1, <1>6, <1>7, <1>8, <1>9, MonitorSteps

LEMMA CancelProgressStep ==
    ASSUME Inv, NEW t \in Task, CancelProgress(t)
    PROVE  Inv'
<1>. DEFINE r == [task[t] EXCEPT !.cancelled = TRUE]
            w1 == [ui EXCEPT !.latest.open = NoRequest, !.restore = @ \ {"inflight"}]
            save == IF ui.latest.save = task[t].request THEN NoRequest ELSE ui.latest.save
            w2 == [ui EXCEPT !.latest.save = save]
            w == IF task[t].kind = "reload" THEN w1 ELSE w2
<1>1. /\ ui' = w /\ Moves(t, r) /\ OnlyWindow /\ UNCHANGED outcomes
      /\ task[t].monitor
  BY DEF CancelProgress
<1>2. /\ task[t] \in TaskRecord /\ TaskSound(task[t], stored, requests)
      /\ task[t].hostKey \in {"none", "posted", "shown", "rejected"}
      /\ task[t].monitor \in BOOLEAN /\ task[t].finished \in BOOLEAN
  BY TaskFields, QuietServer DEF Inv
<1>4. r \in TaskRecord /\ Watches(t, r)
  <2>1. r \in TaskRecord
    BY <1>2 DEF TaskRecord
  <2>. QED  BY <1>1, <1>2, <2>1 DEF TaskRecord, Watches
<1>. HIDE DEF r
<1>5. /\ w1 \in UiRecord /\ w1.tab = ui.tab /\ w1.latest.save = ui.latest.save
  BY UiFields, Constants DEF Inv, UiRecord
<1>6. /\ w2 \in UiRecord /\ w2.tab = ui.tab /\ w2.latest.save = save
  <2>1. save \in Request
    BY UiFields, Constants DEF Inv
  <2>. HIDE DEF save
  <2>. QED  BY <2>1, UiFields DEF Inv, UiRecord
<1>7. task[t].request # NoRequest
  BY <1>1, <1>2 DEF TaskSound, NoRequest
<1>. HIDE DEF w1, w2
<1>8. WindowSound(w)
  BY <1>5, <1>6, WindowIsSound DEF WindowSound
<1>9. Settles(t, r, w)
  BY <1>4, <1>5, <1>6, <1>7 DEF Settles, Watches
<1>. HIDE DEF w
<1>. QED  BY <1>1, <1>4, <1>8, <1>9, MonitorSteps DEF Appends

-----------------------------------------------------------------------------
(* The user and the window. *)

\* A request that no task answers yet.
New(request) ==
    /\ request \in 1 .. requests'
    /\ \A t \in Task : task[t].monitor => task[t].request # request
\* The dialog goes away or asks for a new request; a started task has one.
Asks(w) ==
    /\ UNCHANGED task
    /\ dialog' = NoDialog \/ (dialog'.kind \in Kind /\ New(dialog'.request))
    /\ w.latest.save \in {ui.latest.save, NoRequest}
Started(kind, request, text, pw) ==
    [Idle EXCEPT !.kind = kind, !.request = request, !.text = text,
                 !.password = pw, !.place = "checkout", !.monitor = TRUE]
Starts(w) ==
    /\ dialog' = NoDialog
    /\ \E t \in Task, kind \in Kind, request \in Request, text \in Text, pw \in Password :
          /\ task[t] = Idle /\ New(request)
          /\ task' = [task EXCEPT ![t] = Started(kind, request, text, pw)]
          /\ w.latest.save \in {ui.latest.save, NoRequest, request}

LEMMA StartedFields ==
    ASSUME NEW kind \in Kind, NEW request \in Request, NEW text \in Text, NEW pw \in Password
    PROVE  LET r == Started(kind, request, text, pw)
           IN  /\ r \in TaskRecord /\ r.session = NoSession /\ r.place = "checkout"
               /\ r.monitor /\ r.request = request /\ ~r.cancelled
               /\ request \in 1 .. requests' => TaskSound(r, stored, requests')
<1>1. Started(kind, request, text, pw) \in TaskRecord
  BY Constants DEF Started, Idle, TaskRecord, Place
<1>. QED  BY <1>1 DEF Started, Idle, TaskSound

LEMMA WindowSteps ==
    ASSUME Inv, NEW w, ui' = w, WindowSound(w), Asks(w) \/ Starts(w),
           UNCHANGED <<server, stored, known, pool, outcomes>>,
           requests' \in Request, requests <= requests', edits' \in 0 .. MaxEdits,
           password' \in Password, dialog' \in DialogRecord
    PROVE  Inv'
<1>0. /\ task \in [Task -> TaskRecord] /\ requests \in Nat /\ requests' \in Nat
  BY DEF Inv, Types, Request
<1>1. CASE Asks(w)
  <2>t. Types'
    BY <1>1 DEF Inv, Types, WindowSound, Asks
  <2>a. TasksSound'
    BY <1>0, <1>1, TaskSoundGrows DEF Inv, TasksSound, Asks
  <2>b. OutcomesSound'
    BY <1>0 DEF Inv, OutcomesSound
  <2>c. TabSound'
    BY DEF Inv, TabSound, WindowSound
  <2>d. RequestsSound'
    <3>1. \A u \in Task : task[u].monitor => task[u].request # NoRequest
      BY DEF Inv, TasksSound, TaskSound, NoRequest
    <3>. QED  BY <1>1, <3>1 DEF Inv, RequestsSound, Asks, New
  <2>e. SessionHasOneUser'
    BY <1>1 DEF Inv, SessionHasOneUser, Asks
  <2>. QED  BY <2>t, <2>a, <2>b, <2>c, <2>d, <2>e DEF Inv
<1>2. CASE Starts(w)
  <2>1. PICK t \in Task, kind \in Kind, request \in Request, text \in Text, pw \in Password :
          /\ task[t] = Idle /\ New(request)
          /\ task' = [task EXCEPT ![t] = Started(kind, request, text, pw)]
          /\ w.latest.save \in {ui.latest.save, NoRequest, request}
    BY <1>2 DEF Starts
  <2>. DEFINE r == Started(kind, request, text, pw)
  <2>2. /\ r \in TaskRecord /\ r.session = NoSession /\ r.place = "checkout"
        /\ r.monitor /\ r.request = request /\ ~r.cancelled
        /\ TaskSound(r, stored, requests')
    BY <2>1, StartedFields DEF New
  <2>3. dialog' = NoDialog /\ task' = [task EXCEPT ![t] = r]
    BY <1>2, <2>1 DEF Starts
  <2>. HIDE DEF r
  <2>4. \A u \in Task : task'[u] = IF u = t THEN r ELSE task[u]
    BY <1>0, <2>3
  <2>5. task[t].session = NoSession
    BY <2>1 DEF Idle
  <2>t. Types'
    BY <1>0, <2>2, <2>3 DEF Inv, Types, WindowSound
  <2>a. TasksSound'
    BY <1>0, <2>2, <2>4, TaskSoundGrows DEF Inv, TasksSound
  <2>b. OutcomesSound'
    BY <1>0 DEF Inv, OutcomesSound
  <2>c. TabSound'
    BY DEF Inv, TabSound, WindowSound
  <2>d. RequestsSound'
    <3>1. \A u \in Task : task[u].monitor => task[u].request # NoRequest
      BY DEF Inv, TasksSound, TaskSound, NoRequest
    <3>. QED  BY <2>1, <2>2, <2>3, <2>4, <3>1 DEF Inv, RequestsSound, New
  <2>e. SessionHasOneUser'
    BY <1>0, <2>2, <2>4, <2>5 DEF Inv, SessionHasOneUser
  <2>. QED  BY <2>t, <2>a, <2>b, <2>c, <2>d, <2>e DEF Inv
<1>. QED  BY <1>1, <1>2

\* Start on some slot.
LEMMA StartFields ==
    ASSUME Inv, NEW kind \in Kind, NEW request \in Request, NEW text \in Text,
           NEW pw \in Password, Start(kind, request, text, pw), New(request),
           NEW w, w.latest.save \in {ui.latest.save, NoRequest, request},
           dialog' = NoDialog
    PROVE  Starts(w)
<1>1. PICK t \in Task : /\ task[t] = Idle
                        /\ task' = [task EXCEPT ![t] = Started(kind, request, text, pw)]
  BY DEF Start, Started
<1>. QED  BY <1>1 DEF Starts

LEMMA NotedFields ==
    ASSUME NEW w, WindowSound(w), NEW kind \in Kind, NEW request \in Request
    PROVE  /\ WindowSound(Noted(w, kind, request))
           /\ Noted(w, kind, request).latest.save \in {w.latest.save, request}
<1>1. w \in UiRecord
  BY DEF WindowSound
<1>2. CASE kind = "reload"
  <2>. DEFINE v == [w EXCEPT !.restore = @ \cup {"inflight"}]
  <2>1. v \in UiRecord /\ v.tab = w.tab /\ v.latest = w.latest
    BY <1>1 DEF UiRecord
  <2>2. Noted(w, kind, request) = v
    BY <1>2 DEF Noted
  <2>. HIDE DEF v
  <2>. QED  BY <2>1, <2>2 DEF WindowSound
<1>3. CASE kind # "reload"
  <2>. DEFINE v == [w EXCEPT !.latest.save = request]
  <2>1. v \in UiRecord /\ v.tab = w.tab /\ v.latest.save = request
    BY <1>1 DEF UiRecord
  <2>2. Noted(w, kind, request) = v
    BY <1>3 DEF Noted
  <2>. HIDE DEF v
  <2>. QED  BY <2>1, <2>2 DEF WindowSound
<1>. QED  BY <1>2, <1>3

\* A request is made, and its task started or its password asked for.
LEMMA StartOrAskStep ==
    ASSUME Inv, NEW w, WindowSound(w), w.latest.save = ui.latest.save,
           NEW kind \in Kind, NEW request, request = requests + 1, NEW text \in Text,
           StartOrAsk(w, kind, request, text), MayAsk,
           UNCHANGED <<server, stored, edits, password, known, pool, outcomes>>
    PROVE  Inv'
<1>1. /\ requests \in Nat /\ requests < MaxRequests /\ MaxRequests \in Nat
      /\ requests' = requests + 1 /\ dialog = NoDialog
      /\ edits' \in 0 .. MaxEdits /\ password \in Password /\ password' \in Password
  BY BoundsAssumption DEF Inv, Types, Request, MayAsk, WindowFree, StartOrAsk
<1>2. /\ request \in Request /\ requests' \in Request /\ requests <= requests'
      /\ request \in 1 .. requests'
  BY <1>1 DEF Request
<1>3. New(request)
  <2>1. \A u \in Task : task[u].monitor => task[u].request \in 1 .. requests
    BY DEF Inv, TasksSound, TaskSound
  <2>. QED  BY <1>1, <1>2, <2>1 DEF New
<1>4. CASE Start(kind, request, text, password) /\ ui' = Noted(w, kind, request)
           /\ UNCHANGED dialog
  <2>1. Starts(Noted(w, kind, request))
    BY <1>1, <1>2, <1>3, <1>4, NotedFields, StartFields
  <2>. QED  BY <1>1, <1>2, <1>4, <2>1, NotedFields, WindowSteps, Constants
<1>5. CASE /\ dialog' = [kind |-> kind, request |-> request, text |-> text]
           /\ ui' = w /\ UNCHANGED task
  <2>1. dialog' \in DialogRecord /\ dialog'.kind = kind /\ dialog'.request = request
    BY <1>2, <1>5 DEF DialogRecord
  <2>2. Asks(w)
    BY <1>3, <1>5, <2>1 DEF Asks
  <2>. QED  BY <1>1, <1>2, <1>5, <2>1, <2>2, WindowSteps
<1>. QED  BY <1>4, <1>5 DEF StartOrAsk

LEMMA SetActiveTabStep ==
    ASSUME Inv, SetActiveTab
    PROVE  Inv'
<1>0. /\ UNCHANGED <<server, stored, edits, password, known, pool, outcomes>>
      /\ WindowSound(ui) /\ requests + 1 \in Int /\ Placeholder \in Text
  BY WindowIsSound, Constants DEF SetActiveTab, Inv, Types, Request
<1>1. CASE /\ MayAsk
           /\ StartOrAsk([ui EXCEPT !.active = TRUE, !.latest.open = requests + 1],
                         "reload", requests + 1, Placeholder)
  <2>. DEFINE w == [ui EXCEPT !.active = TRUE, !.latest.open = requests + 1]
  <2>1. requests + 1 \in Request
    BY <1>1, BoundsAssumption DEF MayAsk, Inv, Types, Request
  <2>2. w \in UiRecord /\ w.tab = ui.tab /\ w.latest.save = ui.latest.save
    BY <2>1, UiFields DEF Inv, UiRecord
  <2>3. WindowSound(w) /\ "reload" \in Kind
    <3>. HIDE DEF w
    <3>. QED  BY <1>0, <2>2 DEF WindowSound, Kind
  <2>4. StartOrAsk(w, "reload", requests + 1, Placeholder)
    BY <1>1
  <2>. HIDE DEF w
  <2>. QED  BY <1>0, <1>1, <2>2, <2>3, <2>4, StartOrAskStep
<1>2. CASE ui' = [ui EXCEPT !.active = TRUE] /\ UNCHANGED <<requests, dialog, task>>
  <2>. DEFINE w == [ui EXCEPT !.active = TRUE]
  <2>1. w \in UiRecord /\ w.tab = ui.tab /\ w.latest = ui.latest
    BY UiFields DEF Inv, UiRecord
  <2>2. /\ requests' \in Request /\ requests <= requests' /\ edits' \in 0 .. MaxEdits
        /\ password' \in Password /\ dialog' \in DialogRecord
    BY <1>0, <1>2 DEF Inv, Types, Request
  <2>3. ui' = w
    BY <1>2
  <2>. HIDE DEF w
  <2>4. Asks(w)
    BY <1>2, <2>1 DEF Asks, Inv, RequestsSound, New
  <2>5. WindowSound(w)
    BY <1>0, <2>1 DEF WindowSound
  <2>. QED  BY <1>0, <2>2, <2>3, <2>4, <2>5, WindowSteps
<1>. QED  BY <1>1, <1>2 DEF SetActiveTab

LEMMA SaveFileStep ==
    ASSUME Inv, SaveFile
    PROVE  Inv'
<1>1. /\ MayAsk /\ StartOrAsk(ui, "save", requests + 1, ui.tab.text)
      /\ UNCHANGED <<server, stored, edits, password, known, pool, outcomes>>
  BY DEF SaveFile
<1>2. WindowSound(ui) /\ ui.tab.text \in Text /\ "save" \in Kind
  BY WindowIsSound, UiFields DEF Inv, Kind
<1>. QED  BY <1>1, <1>2, StartOrAskStep

LEMMA ConfirmPasswordStep ==
    ASSUME Inv, ConfirmPassword
    PROVE  Inv'
<1>1. PICK pw \in {"good", "bad"} :
          password' = pw /\ Start(dialog.kind, dialog.request, dialog.text, pw)
  BY DEF ConfirmPassword
<1>2. /\ dialog # NoDialog /\ dialog' = NoDialog
      /\ ui' = Noted(ui, dialog.kind, dialog.request)
      /\ UNCHANGED <<server, stored, edits, requests, known, pool, outcomes>>
  BY DEF ConfirmPassword
<1>3. /\ dialog \in DialogRecord /\ dialog.request \in Request /\ dialog.text \in Text
  BY DEF Inv, Types, DialogRecord
<1>4. dialog.kind \in Kind /\ New(dialog.request)
  BY <1>2 DEF New, Inv, RequestsSound
<1>5. WindowSound(Noted(ui, dialog.kind, dialog.request))
  BY <1>3, <1>4, WindowIsSound, NotedFields
<1>6. Starts(Noted(ui, dialog.kind, dialog.request))
  <2>1. pw \in Password
    BY DEF Password
  <2>. QED  BY <1>1, <1>2, <1>3, <1>4, <2>1, WindowIsSound, NotedFields, StartFields
<1>7. /\ requests' \in Request /\ requests <= requests' /\ edits' \in 0 .. MaxEdits
      /\ password' \in Password /\ dialog' \in DialogRecord
  BY <1>1, <1>2, Constants DEF Inv, Types, Request, Password
<1>. QED  BY <1>2, <1>5, <1>6, <1>7, WindowSteps

LEMMA DismissPasswordStep ==
    ASSUME Inv, DismissPassword
    PROVE  Inv'
<1>1. /\ dialog' = NoDialog
      /\ UNCHANGED <<server, stored, ui, edits, requests, password, known, pool,
                     task, outcomes>>
  BY DEF DismissPassword
<1>2. /\ requests' \in Request /\ requests <= requests' /\ edits' \in 0 .. MaxEdits
      /\ password' \in Password /\ dialog' \in DialogRecord /\ ui' = ui
  BY <1>1, Constants DEF Inv, Types, Request
<1>3. Asks(ui)
  BY <1>1 DEF Asks
<1>. QED  BY <1>1, <1>2, <1>3, WindowIsSound, WindowSteps

LEMMA EditStep ==
    ASSUME Inv, Edit
    PROVE  Inv'
<1>. DEFINE w1 == [ui EXCEPT !.tab.text = 3 + edits, !.tab.modified = TRUE]
            w2 == [ui EXCEPT !.tab.text = ui.tab.base, !.tab.modified = FALSE]
<1>1. /\ dialog = NoDialog
      /\ UNCHANGED <<server, stored, requests, password, known, pool, dialog,
                     task, outcomes>>
      /\ \/ edits < MaxEdits /\ edits' = edits + 1 /\ ui' = w1
         \/ UNCHANGED edits /\ ui' = w2
  BY DEF Edit, WindowFree
<1>2. /\ requests' \in Request /\ requests <= requests'
      /\ password' \in Password /\ dialog' \in DialogRecord
      /\ edits \in 0 .. MaxEdits /\ MaxEdits \in Nat
  BY <1>1, BoundsAssumption DEF Inv, Types, Request
<1>3. edits' \in 0 .. MaxEdits
  BY <1>1, <1>2
<1>4. WindowSound(ui) /\ ui \in UiRecord /\ ui.tab \in TabRecord /\ ui.tab.base \in Text
  BY WindowIsSound, UiFields DEF Inv
<1>5. CASE edits < MaxEdits /\ ui' = w1
  <2>1. 3 + edits \in Text
    BY <1>2, <1>5 DEF Text, Torn
  <2>2. /\ w1 \in UiRecord /\ w1.tab.base = ui.tab.base /\ w1.tab.modified = TRUE
        /\ w1.latest = ui.latest
    BY <1>4, <2>1 DEF UiRecord, TabRecord
  <2>. HIDE DEF w1
  <2>3. WindowSound(w1) /\ Asks(w1)
    BY <1>1, <1>4, <2>2 DEF WindowSound, Asks
  <2>. QED  BY <1>1, <1>2, <1>3, <1>5, <2>3, WindowSteps
<1>6. CASE ui' = w2
  <2>2. /\ w2 \in UiRecord /\ w2.tab.base = ui.tab.base /\ w2.tab.text = ui.tab.base
        /\ w2.latest = ui.latest
    BY <1>4 DEF UiRecord, TabRecord
  <2>. HIDE DEF w2
  <2>3. WindowSound(w2) /\ Asks(w2)
    BY <1>1, <1>4, <2>2 DEF WindowSound, Asks
  <2>. QED  BY <1>1, <1>2, <1>3, <1>6, <2>3, WindowSteps
<1>. QED  BY <1>1, <1>5, <1>6

LEMMA RemoveTabStep ==
    ASSUME Inv, RemoveTab
    PROVE  Inv'
<1>. DEFINE w == [ui EXCEPT !.tab = Closed, !.restore = {},
                            !.latest = [open |-> NoRequest, save |-> NoRequest]]
<1>1. /\ dialog = NoDialog /\ ui' = w
      /\ UNCHANGED <<server, stored, edits, requests, password, known, pool,
                     dialog, task, outcomes>>
  BY DEF RemoveTab, WindowFree
<1>2. /\ requests' \in Request /\ requests <= requests' /\ edits' \in 0 .. MaxEdits
      /\ password' \in Password /\ dialog' \in DialogRecord
  BY <1>1 DEF Inv, Types, Request
<1>3. w \in UiRecord /\ w.tab = Closed /\ w.latest.save = NoRequest
  BY UiFields, Constants DEF Inv, UiRecord
<1>. HIDE DEF w
<1>4. WindowSound(w) /\ Asks(w)
  BY <1>1, <1>3 DEF WindowSound, Asks, Closed
<1>. QED  BY <1>1, <1>2, <1>4, WindowSteps

\* One outcome: only that of the newest request counts, and once one has
\* counted none is newest.
LEMMA AppliedFields ==
    ASSUME NEW w, WindowSound(w), NEW o \in OutcomeRecord, o.ok => o.text \in stored
    PROVE  /\ WindowSound(Applied(w, o)) /\ Applied(w, o).latest.save = w.latest.save
           /\ \/ Applied(w, o) = w /\ w.latest.open # o.request
              \/ /\ w.latest.open = o.request /\ Applied(w, o).latest.open = NoRequest
                 /\ \/ Applied(w, o).tab.base = w.tab.base
                    \/ o.ok /\ Applied(w, o).tab.base = o.text
<1>1. w \in UiRecord /\ w.tab \in TabRecord /\ o.ok \in BOOLEAN /\ o.text \in Text
  BY DEF WindowSound, UiRecord, OutcomeRecord
<1>2. CASE w.latest.open # o.request
  BY <1>2 DEF Applied
<1>. DEFINE settled == [w EXCEPT !.latest.open = NoRequest,
                                 !.restore = @ \ {"inflight"}]
            loaded == [open |-> TRUE, text |-> o.text, base |-> o.text, modified |-> FALSE]
            good == [settled EXCEPT !.restore = {}, !.tab = loaded]
            bad == [settled EXCEPT !.restore = {"pending"}]
<1>3. /\ settled \in UiRecord /\ settled.tab = w.tab
      /\ settled.latest.open = NoRequest /\ settled.latest.save = w.latest.save
  BY <1>1, Constants DEF UiRecord
<1>4. CASE w.latest.open = o.request /\ o.ok
  <2>1. Applied(w, o) = good
    BY <1>4 DEF Applied
  <2>2. loaded \in TabRecord /\ loaded.base = o.text /\ loaded.text = o.text
    BY <1>1 DEF TabRecord
  <2>. HIDE DEF settled, loaded
  <2>3. good \in UiRecord /\ good.tab = loaded /\ good.latest = settled.latest
    BY <1>3, <2>2 DEF UiRecord
  <2>. HIDE DEF good
  <2>. QED  BY <1>3, <1>4, <2>1, <2>2, <2>3 DEF WindowSound
<1>5. CASE w.latest.open = o.request /\ ~o.ok
  <2>1. Applied(w, o) = bad
    BY <1>5 DEF Applied
  <2>. HIDE DEF settled
  <2>3. bad \in UiRecord /\ bad.tab = settled.tab /\ bad.latest = settled.latest
    BY <1>3 DEF UiRecord
  <2>. HIDE DEF bad
  <2>. QED  BY <1>3, <1>5, <2>1, <2>3 DEF WindowSound
<1>. QED  BY <1>1, <1>2, <1>4, <1>5

\* The window after some of the outcomes: until one has counted the newest
\* request and the baseline are what they were, and afterwards the baseline is
\* the text of one that counted, or still what it was.
Applying(w) ==
    /\ WindowSound(w) /\ w.latest.save = ui.latest.save
    /\ \/ w.latest.open = ui.latest.open /\ w.tab.base = ui.tab.base
       \/ /\ w.latest.open = NoRequest
          /\ \/ w.tab.base = ui.tab.base
             \/ \E i \in 1 .. Len(outcomes) :
                  /\ outcomes[i].ok /\ ui.latest.open = outcomes[i].request
                  /\ w.tab.base = outcomes[i].text

LEMMA AppliedAllFields ==
    ASSUME Inv
    PROVE  Applying(AppliedAll(ui, outcomes))
<1>1. /\ outcomes \in Seq(OutcomeRecord) /\ Len(outcomes) \in Nat
      /\ \A i \in 1 .. Len(outcomes) : outcomes[i] \in OutcomeRecord
  BY DEF Inv, Types
<1>g. PICK g : Between(ui, outcomes, g)
  BY <1>1, AppliedAllSteps
<1>2. /\ g[0] = ui /\ AppliedAll(ui, outcomes) = g[Len(outcomes)]
      /\ \A n \in 1 .. Len(outcomes) : g[n] = Applied(g[n - 1], outcomes[n])
  BY <1>g DEF Between
<1>. DEFINE S == {n \in Nat : n <= Len(outcomes) => Applying(g[n])}
<1>3. 0 \in S
  BY <1>2, WindowIsSound DEF Applying
<1>4. ASSUME NEW n \in S PROVE n + 1 \in S
  <2>. SUFFICES ASSUME n + 1 <= Len(outcomes) PROVE Applying(g[n + 1])
    OBVIOUS
  <2>1. n \in Nat /\ n + 1 \in 1 .. Len(outcomes) /\ (n + 1) - 1 = n /\ Applying(g[n])
    BY <1>1
  <2>. DEFINE o == outcomes[n + 1]
  <2>2. g[n + 1] = Applied(g[n], o)
    BY <1>2, <2>1
  <2>3. o \in OutcomeRecord /\ (o.ok => o.text \in stored) /\ o.request # NoRequest
    BY <1>1, <2>1 DEF Inv, OutcomesSound, NoRequest
  <2>4. /\ WindowSound(g[n + 1]) /\ g[n + 1].latest.save = g[n].latest.save
        /\ \/ g[n + 1] = g[n]
           \/ /\ g[n].latest.open = o.request /\ g[n + 1].latest.open = NoRequest
              /\ \/ g[n + 1].tab.base = g[n].tab.base
                 \/ o.ok /\ g[n + 1].tab.base = o.text
    BY <2>1, <2>2, <2>3, AppliedFields DEF Applying
  <2>. QED  BY <2>1, <2>3, <2>4 DEF Applying
<1>5. S = Nat
  <2>. HIDE DEF S
  <2>. QED  BY <1>3, <1>4, NatSet DEF S
<1>. QED  BY <1>1, <1>2, <1>5

LEMMA ProcessPendingStep ==
    ASSUME Inv, ProcessPendingRemoteFiles
    PROVE  Inv'
<1>. DEFINE w == AppliedAll(ui, outcomes)
<1>1. /\ ui' = w /\ outcomes' = <<>> /\ UNCHANGED task /\ OnlyWindow
  BY DEF ProcessPendingRemoteFiles
<1>2. WindowSound(w) /\ w.latest.save = ui.latest.save
  BY AppliedAllFields DEF Applying
<1>. HIDE DEF w
<1>. USE DEF OnlyWindow
<1>t. Types'
  <2>1. outcomes' \in Seq(OutcomeRecord)
    BY <1>1
  <2>. QED  BY <1>1, <1>2, <2>1 DEF Inv, Types, WindowSound
<1>a. TasksSound'
  BY <1>1 DEF Inv, TasksSound
<1>b. OutcomesSound'
  BY <1>1 DEF OutcomesSound
<1>c. TabSound'
  BY <1>1, <1>2 DEF Inv, TabSound, WindowSound
<1>d. RequestsSound'
  BY <1>1, <1>2 DEF Inv, RequestsSound
<1>e. SessionHasOneUser'
  BY <1>1 DEF Inv, SessionHasOneUser
<1>. QED  BY <1>t, <1>a, <1>b, <1>c, <1>d, <1>e DEF Inv

-----------------------------------------------------------------------------
LEMMA NextStep == Inv /\ [Next]_vars => Inv'
<1>. SUFFICES ASSUME Inv, [Next]_vars PROVE Inv'
  OBVIOUS
<1>1. CASE User
  BY <1>1, SetActiveTabStep, SaveFileStep, ConfirmPasswordStep, DismissPasswordStep,
     EditStep, RemoveTabStep, CancelProgressStep DEF User
<1>2. CASE ProcessPendingRemoteFiles
  BY <1>2, ProcessPendingStep
<1>3. ASSUME NEW t \in Task, Network(t) PROVE Inv'
  BY <1>3, CheckoutStep, TrustHostKeyStep, NoHostKeyStep, ReadStep, WriteTemporaryStep,
     DirectWriteStep DEF Network
<1>4. ASSUME NEW t \in Task, Publish(t) PROVE Inv'
  BY <1>4, SwapFinishedStep, PushOutcomeStep DEF Publish
<1>5. ASSUME NEW t \in Task, MonitorStops(t) PROVE Inv'
  BY <1>5, MonitorDeliversStep, MonitorSeesCancelStep, MonitorGivesUpStep DEF MonitorStops
<1>6. ASSUME NEW t \in Task, MonitorShowsHostKey(t) PROVE Inv'
  BY <1>6, MonitorShowsHostKeyStep
<1>7. CASE UNCHANGED vars
  BY <1>7 DEF vars, Inv, Types, TasksSound, OutcomesSound, TabSound, RequestsSound,
              SessionHasOneUser
<1>. QED  BY <1>1, <1>2, <1>3, <1>4, <1>5, <1>6, <1>7 DEF Next

\* The inductive invariant.
THEOREM Invariance == Spec => []Inv
BY InitInv, NextStep, PTL DEF Spec

\* No two threads ever work on one session, and none works on an idle one.
THEOREM SessionsAreExclusive == Spec => []SessionHasOneUser
<1>1. Inv => SessionHasOneUser
  BY DEF Inv
<1>. QED  BY <1>1, Invariance, PTL

\* A tab without the modified mark shows what the server had, or what the
\* state database kept.
THEOREM CleanWasOnServer == Spec => []CleanReachedServer
<1>1. Inv => CleanReachedServer
  BY DEF Inv, TabSound, CleanReachedServer
<1>. QED  BY <1>1, Invariance, PTL

-----------------------------------------------------------------------------
(* The baseline of the tab. *)

BaseKept == ui'.tab.base = ui.tab.base

ByNewestSave ==
    \E t \in Task : /\ task[t].kind = "save" /\ ~task[t].cancelled
                    /\ ui.latest.save = task[t].request
                    /\ ui'.tab.base = task[t].text

ByNewestReload ==
    \E i \in DOMAIN outcomes :
       /\ outcomes[i].ok /\ ui.latest.open = outcomes[i].request
       /\ ui'.tab.base = outcomes[i].text

BaseMoves == ui'.tab.open => BaseKept \/ ByNewestSave \/ ByNewestReload

LEMMA NotedBase ==
    ASSUME NEW w \in UiRecord, NEW kind, NEW request
    PROVE  Noted(w, kind, request).tab = w.tab
BY DEF Noted, UiRecord

LEMMA SetActiveTabBase == ASSUME Types, SetActiveTab PROVE BaseKept
<1>. DEFINE w == [ui EXCEPT !.active = TRUE, !.latest.open = requests + 1]
            v == [ui EXCEPT !.active = TRUE]
<1>1. \/ StartOrAsk(w, "reload", requests + 1, Placeholder)
      \/ ui' = v
  BY DEF SetActiveTab
<1>2. w.tab = ui.tab /\ v.tab = ui.tab
  BY UiFields DEF UiRecord
<1>3. Noted(w, "reload", requests + 1).tab = w.tab
  BY UiFields DEF Noted, UiRecord
<1>. HIDE DEF w, v
<1>. QED  BY <1>1, <1>2, <1>3 DEF StartOrAsk, BaseKept

LEMMA UserBase == ASSUME Types, User PROVE BaseMoves
<1>1. CASE SetActiveTab
  BY <1>1, SetActiveTabBase DEF BaseMoves
<1>2. CASE SaveFile
  <2>1. StartOrAsk(ui, "save", requests + 1, ui.tab.text)
    BY <1>2 DEF SaveFile
  <2>. QED  BY <2>1, UiFields, NotedBase DEF StartOrAsk, BaseMoves, BaseKept
<1>3. CASE ConfirmPassword
  <2>1. ui' = Noted(ui, dialog.kind, dialog.request)
    BY <1>3 DEF ConfirmPassword
  <2>. QED  BY <2>1, UiFields, NotedBase DEF BaseMoves, BaseKept
<1>4. CASE DismissPassword
  BY <1>4 DEF DismissPassword, BaseMoves, BaseKept
<1>5. CASE Edit
  <2>1. \/ ui' = [ui EXCEPT !.tab.text = 3 + edits, !.tab.modified = TRUE]
        \/ ui' = [ui EXCEPT !.tab.text = ui.tab.base, !.tab.modified = FALSE]
    BY <1>5 DEF Edit
  <2>. QED  BY <2>1, UiFields DEF UiRecord, TabRecord, BaseMoves, BaseKept
<1>6. CASE RemoveTab
  <2>1. ui'.tab = Closed
    BY <1>6, UiFields DEF RemoveTab, UiRecord
  <2>. QED  BY <2>1 DEF Closed, BaseMoves
<1>7. ASSUME NEW t \in Task, CancelProgress(t) PROVE BaseMoves
  <2>. DEFINE save == IF ui.latest.save = task[t].request THEN NoRequest ELSE ui.latest.save
  <2>1. \/ ui' = [ui EXCEPT !.latest.open = NoRequest, !.restore = ui.restore \ {"inflight"}]
        \/ ui' = [ui EXCEPT !.latest.save = save]
    BY <1>7 DEF CancelProgress
  <2>. HIDE DEF save
  <2>2. ui'.tab = ui.tab
    BY <2>1, UiFields DEF UiRecord
  <2>. QED  BY <2>2 DEF BaseMoves, BaseKept
<1>. QED  BY <1>1, <1>2, <1>3, <1>4, <1>5, <1>6, <1>7 DEF User

LEMMA MonitorBase ==
    ASSUME Inv, NEW t \in Task, MonitorStops(t) \/ MonitorShowsHostKey(t)
    PROVE  BaseMoves
<1>1. CASE MonitorDelivers(t) /\ task[t].kind = "save"
  <2>. DEFINE ok == task[t].slot = "ok"
  <2>1. /\ task[t] \in TaskRecord /\ ok \in BOOLEAN
        /\ ok => task[t].text \in stored
    BY TaskFields DEF Inv, TasksSound, TaskSound
  <2>2. ui' = Saved(ui, task[t], ok)
    BY <1>1 DEF MonitorDelivers
  <2>. HIDE DEF ok
  <2>3. \/ ui'.tab.base = ui.tab.base
        \/ ui.latest.save = task[t].request /\ ui'.tab.base = task[t].text
    BY <2>1, <2>2, SavedFields
  <2>4. ui.latest.save = task[t].request => ~task[t].cancelled
    BY <1>1 DEF MonitorDelivers, Inv, RequestsSound
  <2>. QED  BY <1>1, <2>3, <2>4 DEF BaseMoves, BaseKept, ByNewestSave
<1>2. CASE MonitorDelivers(t) /\ task[t].kind # "save"
  BY <1>2 DEF MonitorDelivers, BaseMoves, BaseKept
<1>3. CASE MonitorSeesCancel(t)
  BY <1>3 DEF MonitorSeesCancel, BaseMoves, BaseKept
<1>4. CASE MonitorShowsHostKey(t)
  BY <1>4 DEF MonitorShowsHostKey, BaseMoves, BaseKept
<1>5. CASE MonitorGivesUp(t)
  <2>. DEFINE hostKey == IF task[t].hostKey = "posted" THEN "rejected" ELSE task[t].hostKey
              q == [task[t] EXCEPT !.hostKey = hostKey]
  <2>1. ui' = ui \/ ui' = Saved(ui, q, FALSE)
    BY <1>5 DEF MonitorGivesUp
  <2>2. hostKey \in {"none", "posted", "shown", "rejected"} /\ task[t] \in TaskRecord
    BY TaskFields DEF Inv
  <2>. HIDE DEF hostKey
  <2>3. q \in TaskRecord
    BY <2>2 DEF TaskRecord
  <2>. HIDE DEF q
  <2>4. Saved(ui, q, FALSE).tab.base = ui.tab.base
    BY <2>3, SavedFields
  <2>. QED  BY <2>1, <2>4 DEF BaseMoves, BaseKept
<1>. QED  BY <1>1, <1>2, <1>3, <1>4, <1>5 DEF MonitorStops

LEMMA PendingBase == ASSUME Inv, ProcessPendingRemoteFiles PROVE BaseMoves
<1>1. Applying(ui')
  BY AppliedAllFields DEF ProcessPendingRemoteFiles
<1>2. DOMAIN outcomes = 1 .. Len(outcomes)
  BY DEF Inv, Types
<1>. QED  BY <1>1, <1>2 DEF Applying, BaseMoves, BaseKept, ByNewestReload

LEMMA NextBase == ASSUME Inv, [Next]_vars PROVE BaseMoves
<1>1. CASE User
  BY <1>1, UserBase DEF Inv
<1>2. CASE ProcessPendingRemoteFiles
  BY <1>2, PendingBase
<1>3. ASSUME NEW t \in Task, Network(t) \/ Publish(t) PROVE BaseMoves
  BY <1>3 DEF Network, CheckoutOrConnect, TrustHostKey, NoHostKey, Read, WriteTemporary,
     DirectWrite, Publish, SwapFinished, PushOutcome, OnlyThread, BaseMoves, BaseKept
<1>4. ASSUME NEW t \in Task, MonitorStops(t) \/ MonitorShowsHostKey(t) PROVE BaseMoves
  BY <1>4, MonitorBase
<1>5. CASE UNCHANGED vars
  BY <1>5 DEF vars, BaseMoves, BaseKept
<1>. QED  BY <1>1, <1>2, <1>3, <1>4, <1>5 DEF Next

\* A late, superseded or cancelled answer never moves the baseline of the tab.
THEOREM NewestOnly == Spec => OnlyNewestApplies
<1>1. Inv /\ [Next]_vars =>
        [ui.tab.open /\ ui'.tab.open /\ ui'.tab.base # ui.tab.base =>
           \/ \E t \in Task : /\ task[t].kind = "save" /\ ~task[t].cancelled
                             /\ ui.latest.save = task[t].request
                             /\ ui'.tab.base = task[t].text
           \/ \E i \in DOMAIN outcomes :
                /\ outcomes[i].ok /\ ui.latest.open = outcomes[i].request
                /\ ui'.tab.base = outcomes[i].text]_vars
  BY NextBase DEF BaseMoves, BaseKept, ByNewestSave, ByNewestReload
<1>. QED  BY <1>1, Invariance, PTL DEF Spec, OnlyNewestApplies
=============================================================================
