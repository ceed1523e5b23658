-------------------------- MODULE FileSyncProofs --------------------------
(***************************************************************************)
(* Proofs about FileSync, for any paths, texts, backends and bounds: a tab *)
(* without the modified mark shows its file, and the editor does not take  *)
(* its own saves for changes by another program.                           *)
(*                                                                         *)
(* Neither is inductive.  Inv has three parts beside the types: TabInv     *)
(* relates the tab to its baseline and says which tab ids were used;       *)
(* DiskInv says what the file holds at every stage of a save of the tab;   *)
(* SilentInv says why every event of an own save will be suppressed.  The  *)
(* last two hold while quiet does, that is, while nobody else touches the  *)
(* file; what a save that was reported as failed after its rename leaves   *)
(* open is bounded by unsettled.                                           *)
(***************************************************************************)
EXTENDS FileSync, TLAPS

SaveRecord == [path : Paths, text : Texts, base : Texts, stage : SaveStages,
               as : BOOLEAN]
ReloadRecord == [path : Paths, text : Texts \cup {Absent}, asked : BOOLEAN]
ReadRecord == [path : Paths, text : Texts]
Event == [kind : {"Modified", "Deleted"}, path : Paths]
            \cup [kind : {"Renamed"}, path : Paths, to : Paths]

\* What the steps need of the types; bounds of queues are not part of it.
Types ==
    /\ disk \in [Paths -> Texts \cup {Absent}]
    /\ tab \in [id : Nat \ {0}, open : BOOLEAN, path : Paths, text : Texts,
                base : Texts, modified : BOOLEAN]
    /\ opening \in ReadRecord \cup {NoRead}
    /\ saves \in [TabIds -> SaveRecord \cup {NoSave}]
    /\ reloads \in [Slots -> ReloadRecord \cup {NoRead}]
    /\ events \in Seq(Event)
    /\ recent \subseteq Paths
    /\ conflicts \in [pending : SUBSET Paths, dialogs : SUBSET [path : Paths, id : Nat]]
    /\ detours \in 0..MaxDetours
    /\ quiet \in BOOLEAN /\ unsettled \in BOOLEAN

\* A tab is opened from a file that was read after a change of place, and is
\* the first with its id.
TabInv ==
    /\ CleanIsBaseline
    /\ opening # NoRead => ~tab.open
    /\ tab.id + (IF opening # NoRead THEN 1 ELSE 0) <= detours + 1
    /\ \A i \in TabIds : i > tab.id => saves[i] = NoSave

\* What the file holds while a save of the tab is on its way.
SaveInv(r) ==
    /\ tab.base = r.text
    /\ ~r.as => r.path = tab.path
    /\ r.stage = "written" => disk[r.path] = r.text
    /\ r.stage # "written" /\ ~unsettled => disk[tab.path] = r.base

DiskInv ==
    quiet =>
        /\ opening # NoRead => opening.text = disk[opening.path]
        /\ tab.open /\ ~Dispatched(tab.id) /\ ~unsettled => tab.base = disk[tab.path]
        /\ tab.open /\ Dispatched(tab.id) => SaveInv(saves[tab.id])

\* An event for the file that the tab shows meets the save that caused it, or
\* the entry this save left.
Expected(p) ==
    \/ p \in recent
    \/ Dispatched(tab.id) /\ saves[tab.id].path = p /\ saves[tab.id].stage = "written"

SilentInv ==
    quiet =>
        /\ conflicts.pending = {} /\ conflicts.dialogs = {}
        /\ \A s \in Slots : reloads[s] = NoRead
        /\ \A i \in DOMAIN events :
              /\ events[i].kind # "Renamed"
              /\ Shows(events[i].path) /\ ~unsettled => Expected(events[i].path)

Inv == Types /\ TabInv /\ DiskInv /\ SilentInv


-----------------------------------------------------------------------------
\* What stands for no save and no read has no other field.
LEMMA RecordsAreThere ==
    /\ \A r \in SaveRecord : r # NoSave
    /\ \A r \in ReloadRecord : r # NoRead
    /\ \A r \in ReadRecord : r # NoRead
<1>1. DOMAIN NoSave = {"path"} /\ DOMAIN NoRead = {"path"}
  BY DEF NoSave, NoRead
<1>2. ASSUME NEW r \in SaveRecord PROVE "text" \in DOMAIN r
  BY <1>2 DEF SaveRecord
<1>3. ASSUME NEW r \in ReloadRecord PROVE "text" \in DOMAIN r
  BY <1>3 DEF ReloadRecord
<1>4. ASSUME NEW r \in ReadRecord PROVE "text" \in DOMAIN r
  BY <1>4 DEF ReadRecord
<1>. QED  BY <1>1, <1>2, <1>3, <1>4

\* A reload goes into a slot.
LEMMA SpawnType ==
    ASSUME Types, NEW p \in Paths, NEW asked \in BOOLEAN, SpawnReload(p, asked)
    PROVE  reloads' \in [Slots -> ReloadRecord \cup {NoRead}]
<1>1. [path |-> p, text |-> Absent, asked |-> asked] \in ReloadRecord
  BY DEF ReloadRecord
<1>. QED  BY <1>1 DEF Types, SpawnReload

LEMMA InitInv == Init => Inv
<1>. SUFFICES ASSUME Init PROVE Inv
  OBVIOUS
<1>1. Types
  <2>1. events \in Seq(Event) /\ recent \subseteq Paths
        /\ conflicts \in [pending : SUBSET Paths, dialogs : SUBSET [path : Paths, id : Nat]]
    BY DEF Init
  <2>2. tab \in [id : Nat \ {0}, open : BOOLEAN, path : Paths, text : Texts,
                 base : Texts, modified : BOOLEAN]
    BY FileSyncAssumption DEF Init
  <2>3. /\ disk \in [Paths -> Texts \cup {Absent}]
        /\ saves \in [TabIds -> SaveRecord \cup {NoSave}]
        /\ reloads \in [Slots -> ReloadRecord \cup {NoRead}]
    BY FileSyncAssumption DEF Init
  <2>4. MaxDetours \in Nat /\ opening = NoRead /\ detours = 0
    BY FileSyncAssumption DEF Init
  <2>5. quiet = TRUE /\ unsettled = FALSE
    BY DEF Init
  <2>6. opening \in ReadRecord \cup {NoRead} /\ detours \in 0..MaxDetours
    BY <2>4
  <2>7. quiet \in BOOLEAN /\ unsettled \in BOOLEAN
    BY <2>5
  <2>. QED  BY <2>1, <2>2, <2>3, <2>6, <2>7 DEF Types
<1>2. TabInv
  BY DEF Init, TabInv, CleanIsBaseline
<1>3. DiskInv
  BY FileSyncAssumption DEF Init, DiskInv, Dispatched, TabIds
<1>4. SilentInv
  BY DEF Init, SilentInv
<1>. QED  BY <1>1, <1>2, <1>3, <1>4 DEF Inv

-----------------------------------------------------------------------------
(* The user. *)

LEMMA EditStep == ASSUME Inv, Edit PROVE Inv'
<1>1. Types'
  BY FileSyncAssumption DEF Inv, Types, Edit
<1>2. TabInv'
  BY DEF Inv, Types, TabInv, CleanIsBaseline, Edit
<1>3. DiskInv'
  BY DEF Inv, Types, TabInv, DiskInv, SaveInv, Dispatched, Edit
<1>4. SilentInv'
  BY DEF Inv, Types, TabInv, SilentInv, Expected, Dispatched, Shows, Edit
<1>. QED  BY <1>1, <1>2, <1>3, <1>4 DEF Inv

LEMMA SetActiveTabStep == ASSUME Inv, SetActiveTab PROVE Inv'
<1>1. Types'
  BY FileSyncAssumption DEF Inv, Types, SetActiveTab
<1>2. TabInv'
  BY DEF Inv, Types, TabInv, CleanIsBaseline, SetActiveTab
<1>3. DiskInv'
  BY DEF Inv, Types, TabInv, DiskInv, SaveInv, Dispatched, SetActiveTab
<1>4. SilentInv'
  BY DEF Inv, Types, TabInv, SilentInv, Expected, Dispatched, Shows, SetActiveTab
<1>. QED  BY <1>1, <1>2, <1>3, <1>4 DEF Inv

LEMMA NeighbourClosesStep == ASSUME Inv, NeighbourCloses PROVE Inv'
<1>1. Types'
  BY FileSyncAssumption DEF Inv, Types, NeighbourCloses
<1>2. TabInv'
  BY DEF Inv, Types, TabInv, CleanIsBaseline, NeighbourCloses
<1>3. DiskInv'
  BY DEF Inv, Types, TabInv, DiskInv, SaveInv, Dispatched, NeighbourCloses
<1>4. SilentInv'
  BY DEF Inv, Types, TabInv, SilentInv, Expected, Dispatched, Shows, NeighbourCloses
<1>. QED  BY <1>1, <1>2, <1>3, <1>4 DEF Inv

LEMMA LeaveTabStep == ASSUME Inv, LeaveTab PROVE Inv'
<1>1. Types'
  BY FileSyncAssumption DEF Inv, Types, LeaveTab
<1>2. TabInv'
  BY DEF Inv, Types, TabInv, CleanIsBaseline, LeaveTab
<1>3. DiskInv'
  BY DEF Inv, Types, TabInv, DiskInv, SaveInv, Dispatched, LeaveTab
<1>4. SilentInv'
  BY DEF Inv, Types, TabInv, SilentInv, Expected, Dispatched, Shows, LeaveTab
<1>. QED  BY <1>1, <1>2, <1>3, <1>4 DEF Inv

LEMMA CloseTabStep == ASSUME Inv, CloseTab PROVE Inv'
<1>1. Types'
  BY FileSyncAssumption DEF Inv, Types, CloseTab, PendingWithout
<1>2. TabInv'
  BY DEF Inv, Types, TabInv, CleanIsBaseline, CloseTab, PendingWithout
<1>3. DiskInv'
  BY DEF Inv, Types, TabInv, DiskInv, SaveInv, Dispatched, CloseTab, PendingWithout
<1>4. SilentInv'
  BY DEF Inv, Types, TabInv, SilentInv, Expected, Dispatched, Shows, CloseTab, PendingWithout
<1>. QED  BY <1>1, <1>2, <1>3, <1>4 DEF Inv

LEMMA ReopenFileStep == ASSUME Inv, ReopenFile PROVE Inv'
<1>1. Types'
  <2>1. reloads' \in [Slots -> ReloadRecord \cup {NoRead}]
    BY SpawnType DEF Inv, Types, ReopenFile
  <2>. QED  BY <2>1 DEF Inv, Types, ReopenFile
<1>2. TabInv'
  BY DEF Inv, Types, TabInv, CleanIsBaseline, ReopenFile
<1>3. DiskInv'
  BY DEF Inv, Types, TabInv, DiskInv, SaveInv, Dispatched, ReopenFile
<1>4. SilentInv'
  BY DEF Inv, Types, TabInv, SilentInv, Expected, Dispatched, Shows, ReopenFile
<1>. QED  BY <1>1, <1>2, <1>3, <1>4 DEF Inv

LEMMA StopWatcherStep == ASSUME Inv, StopWatcher PROVE Inv'
<1>1. Types'
  <2>1. events' \in Seq(Event) /\ recent' \subseteq Paths
    BY DEF StopWatcher
  <2>2. conflicts' \in [pending : SUBSET Paths, dialogs : SUBSET [path : Paths, id : Nat]]
    BY DEF Inv, Types, StopWatcher
  <2>. QED  BY <2>1, <2>2 DEF Inv, Types, StopWatcher
<1>2. TabInv'
  BY DEF Inv, Types, TabInv, CleanIsBaseline, StopWatcher
<1>3. DiskInv'
  BY DEF Inv, Types, TabInv, DiskInv, SaveInv, Dispatched, StopWatcher
<1>4. SilentInv'
  BY DEF Inv, Types, TabInv, SilentInv, Expected, Dispatched, Shows, StopWatcher
<1>. QED  BY <1>1, <1>2, <1>3, <1>4 DEF Inv

LEMMA StartWatcherStep == ASSUME Inv, StartWatcher PROVE Inv'
<1>1. Types'
  BY FileSyncAssumption DEF Inv, Types, StartWatcher
<1>2. TabInv'
  BY DEF Inv, Types, TabInv, CleanIsBaseline, StartWatcher
<1>3. DiskInv'
  BY DEF Inv, Types, TabInv, DiskInv, SaveInv, Dispatched, StartWatcher
<1>4. SilentInv'
  BY DEF Inv, Types, TabInv, SilentInv, Expected, Dispatched, Shows, StartWatcher
<1>. QED  BY <1>1, <1>2, <1>3, <1>4 DEF Inv

LEMMA AnswerConflictStep == ASSUME Inv, AnswerConflict PROVE Inv'
<1>1. PICK d \in conflicts.dialogs :
        /\ conflicts' = [conflicts EXCEPT !.dialogs = @ \ {d}]
        /\ \/ Shows(d.path) /\ tab.id = d.id /\ SpawnReload(d.path, TRUE)
           \/ UNCHANGED reloads
  BY DEF AnswerConflict
<1>2. d.path \in Paths
  BY DEF Inv, Types
<1>3. reloads' \in [Slots -> ReloadRecord \cup {NoRead}]
  BY <1>1, <1>2, SpawnType DEF Inv, Types
<1>4. Types'
  BY <1>1, <1>3 DEF Inv, Types, AnswerConflict
<1>5. TabInv' /\ DiskInv'
  BY DEF Inv, Types, TabInv, CleanIsBaseline, DiskInv, SaveInv, Dispatched, AnswerConflict
<1>6. SilentInv'
  BY <1>1 DEF Inv, SilentInv, AnswerConflict
<1>. QED  BY <1>4, <1>5, <1>6 DEF Inv

LEMMA SaveToStep ==
    ASSUME Inv, NEW p \in Paths, SaveTo(p)
    PROVE  Inv'
<1>. DEFINE r == [path |-> p, text |-> tab.text, base |-> tab.base,
                  stage |-> "writing", as |-> p # tab.path]
<1>a. saves' = [saves EXCEPT ![tab.id] = r] /\ tab.id \in TabIds
  BY FileSyncAssumption DEF Inv, Types, TabInv, TabIds, SaveTo
<1>b. r \in SaveRecord /\ r # NoSave
  BY RecordsAreThere DEF Inv, Types, SaveRecord, SaveStages
<1>c. tab' = [tab EXCEPT !.base = tab.text, !.modified = FALSE]
      /\ detours \in 0..MaxDetours /\ detours' \in {detours, detours + 1}
      /\ detours' \in 0..MaxDetours
  BY FileSyncAssumption DEF Inv, Types, SaveTo, Detour
<1>d. UNCHANGED <<disk, opening, reloads, events, recent, conflicts, quiet, unsettled>>
  BY DEF SaveTo
<1>e. saves'[tab.id] = r /\ tab'.id = tab.id
  BY <1>a, <1>b, <1>c DEF Inv, Types
<1>1. Types'
  BY <1>a, <1>b, <1>c, <1>d DEF Inv, Types
<1>2. TabInv'
  BY <1>a, <1>c, <1>d DEF Inv, Types, TabInv, CleanIsBaseline
<1>3. DiskInv'
  BY <1>a, <1>b, <1>c, <1>d, <1>e DEF Inv, Types, TabInv, DiskInv, SaveInv, Dispatched, SaveTo
<1>4. SilentInv'
  BY <1>a, <1>b, <1>c, <1>d, <1>e DEF Inv, Types, SilentInv, Expected, Dispatched, Shows, SaveTo
<1>. QED  BY <1>1, <1>2, <1>3, <1>4 DEF Inv

LEMMA OpenReadsStep ==
    ASSUME Inv, NEW p \in Paths, OpenReads(p)
    PROVE  Inv'
<1>a. opening' \in ReadRecord /\ opening' = [path |-> p, text |-> disk[p]]
  BY DEF Inv, Types, OpenReads, ReadRecord
<1>1. Types'
  BY <1>a, FileSyncAssumption DEF Inv, Types, OpenReads, Detour
<1>2. TabInv'
  BY DEF Inv, Types, TabInv, CleanIsBaseline, OpenReads, Detour
<1>3. DiskInv'
  BY DEF Inv, Types, TabInv, DiskInv, SaveInv, Dispatched, OpenReads, Detour
<1>4. SilentInv'
  BY DEF Inv, Types, TabInv, SilentInv, Expected, Dispatched, Shows, OpenReads, Detour
<1>. QED  BY <1>1, <1>2, <1>3, <1>4 DEF Inv

LEMMA OpenFinishesStep ==
    ASSUME Inv, OpenFinishes
    PROVE  Inv'
<1>a. opening \in ReadRecord
  BY DEF Inv, Types, OpenFinishes
<1>b. opening.path \in Paths /\ opening.text \in Texts
  BY <1>a DEF ReadRecord
<1>c. /\ tab' = [id |-> tab.id + 1, open |-> TRUE, path |-> opening.path,
                text |-> opening.text, base |-> opening.text, modified |-> FALSE]
      /\ opening # NoRead /\ opening' = NoRead
      /\ UNCHANGED <<disk, saves, reloads, events, recent, conflicts, detours>>
      /\ quiet' = (quiet /\ \A i \in DOMAIN events : events[i].path # opening.path)
      /\ unsettled' = FALSE
  BY DEF OpenFinishes
<1>d. tab.id + 1 \in TabIds /\ saves[tab.id + 1] = NoSave
  BY <1>c, FileSyncAssumption DEF Inv, Types, TabInv, TabIds
<1>1. Types'
  <2>1. quiet' \in BOOLEAN /\ unsettled' \in BOOLEAN
    BY <1>c DEF Inv, Types
  <2>2. tab' \in [id : Nat \ {0}, open : BOOLEAN, path : Paths, text : Texts,
                   base : Texts, modified : BOOLEAN]
    BY <1>b, <1>c DEF Inv, Types
  <2>3. /\ opening' = NoRead
        /\ UNCHANGED <<disk, saves, reloads, events, recent, conflicts, detours>>
    BY <1>c
  <2>. QED  BY <2>1, <2>2, <2>3 DEF Inv, Types
<1>2. TabInv'
  <2>1. tab.id \in Nat /\ detours \in Nat /\ tab.id + 1 <= detours + 1
    BY <1>c DEF Inv, Types, TabInv
  <2>2. tab'.id = tab.id + 1 /\ tab'.text = tab'.base /\ opening' = NoRead
    BY <1>c
  <2>3. \A i \in TabIds : i > tab'.id => saves'[i] = NoSave
    BY <1>c, <2>1, <2>2 DEF Inv, TabInv, TabIds
  <2>. QED  BY <1>c, <2>1, <2>2, <2>3 DEF TabInv, CleanIsBaseline
<1>3. DiskInv'
  BY <1>b, <1>c, <1>d DEF Inv, Types, DiskInv, Dispatched
<1>4. SilentInv'
  BY <1>b, <1>c, <1>d DEF Inv, Types, SilentInv, Shows
<1>. QED  BY <1>1, <1>2, <1>3, <1>4 DEF Inv

-----------------------------------------------------------------------------
(* The background executor and its completions. *)

\* What a save in flight is.
LEMMA SaveIsRecord ==
    ASSUME Types, NEW id \in TabIds, Dispatched(id)
    PROVE  /\ saves[id] \in SaveRecord
           /\ saves[id].path \in Paths /\ saves[id].text \in Texts
           /\ saves[id].base \in Texts /\ saves[id].as \in BOOLEAN
<1>1. saves[id] \in SaveRecord
  BY DEF Types, Dispatched
<1>. QED  BY <1>1 DEF SaveRecord

\* What a write of the file adds to the queue.
LEMMA ReplacedEvents ==
    ASSUME Types, NEW p \in Paths, Replaced(p)
    PROVE  /\ events' \in Seq(Event)
           /\ \A i \in DOMAIN events' :
                 \/ i \in DOMAIN events /\ events'[i] = events[i]
                 \/ events'[i].path = p /\ events'[i].kind # "Renamed"
<1>. DEFINE kind == IF inodeBackend THEN "Deleted" ELSE "Modified"
            e == [kind |-> kind, path |-> p]
<1>1. e \in Event /\ e.path = p /\ e.kind # "Renamed"
  BY DEF Event
<1>2. events' = Append(events, e) \/ events' = events
  BY DEF Replaced, Reported
<1>3. events \in Seq(Event)
  BY DEF Types
<1>. HIDE DEF e
<1>4. CASE events' = events
  BY <1>3, <1>4
<1>5. CASE events' = Append(events, e)
  <2>1. events' \in Seq(Event) /\ Len(events') = Len(events) + 1
    BY <1>1, <1>3, <1>5
  <2>2. ASSUME NEW i \in DOMAIN events'
        PROVE  (i \in DOMAIN events /\ events'[i] = events[i]) \/ events'[i] = e
    BY <1>1, <1>3, <1>5
  <2>. QED  BY <1>1, <2>1, <2>2
<1>. QED  BY <1>2, <1>4, <1>5

\* The stage of a save changes.
LEMMA StageType ==
    ASSUME Types, NEW id \in TabIds, Dispatched(id), NEW stage \in SaveStages,
           saves' = [saves EXCEPT ![id].stage = stage]
    PROVE  /\ saves' \in [TabIds -> SaveRecord \cup {NoSave}]
           /\ saves'[id] # NoSave
           /\ saves'[id].path = saves[id].path /\ saves'[id].text = saves[id].text
           /\ saves'[id].base = saves[id].base /\ saves'[id].as = saves[id].as
           /\ saves'[id].stage = stage
           /\ \A i \in TabIds \ {id} : saves'[i] = saves[i]
<1>1. saves[id] \in SaveRecord
  BY SaveIsRecord
<1>2. [saves[id] EXCEPT !.stage = stage] \in SaveRecord
  BY <1>1 DEF SaveRecord
<1>3. saves'[id] = [saves[id] EXCEPT !.stage = stage]
  BY DEF Types
<1>. QED  BY <1>1, <1>2, <1>3, RecordsAreThere DEF Types, SaveRecord

\* Renaming into place: the file of the tab holds what the save took, whether
\* the save is then written or, after an error, failed and not settled.
LEMMA RenameStep ==
    ASSUME Inv, NEW id \in TabIds, NEW stage \in SaveStages,
           RenameIntoPlace(id, stage), detours' \in {detours, detours + 1},
           detours' \in 0..MaxDetours, unsettled' \in BOOLEAN,
           \/ stage = "written" /\ (unsettled /\ saves[id].path # tab.path => unsettled')
           \/ unsettled' = (unsettled \/ saves[id].path = tab.path)
    PROVE  Inv'
<1>. DEFINE p == saves[id].path
<1>1. /\ Dispatched(id) /\ saves[id].stage = "writing"
      /\ disk' = [disk EXCEPT ![p] = saves[id].text]
      /\ saves' = [saves EXCEPT ![id].stage = stage]
      /\ quiet' = (quiet /\ id = tab.id /\ tab.open)
      /\ Replaced(p)
      /\ UNCHANGED <<tab, opening, reloads, recent, conflicts>>
  BY DEF RenameIntoPlace
<1>2. p \in Paths /\ saves[id].text \in Texts
  BY <1>1, SaveIsRecord DEF Inv
<1>3. /\ saves' \in [TabIds -> SaveRecord \cup {NoSave}]
      /\ saves'[id] # NoSave /\ saves'[id].path = p
      /\ saves'[id].text = saves[id].text /\ saves'[id].as = saves[id].as
      /\ saves'[id].base = saves[id].base
      /\ saves'[id].stage = stage
      /\ \A i \in TabIds \ {id} : saves'[i] = saves[i]
  BY <1>1, StageType DEF Inv
<1>4. events' \in Seq(Event)
      /\ \A i \in DOMAIN events' :
            \/ i \in DOMAIN events /\ events'[i] = events[i]
            \/ events'[i].path = p /\ events'[i].kind # "Renamed"
  BY <1>1, <1>2, ReplacedEvents DEF Inv
<1>5. quiet' \in BOOLEAN /\ (quiet' => quiet /\ id = tab.id /\ tab.open)
  BY <1>1 DEF Inv, Types
<1>a. \/ stage = "written" /\ (unsettled /\ p # tab.path => unsettled')
      \/ unsettled' = (unsettled \/ p = tab.path)
  OBVIOUS
<1>. HIDE DEF p
<1>6. Types'
  BY <1>1, <1>2, <1>3, <1>4, <1>5 DEF Inv, Types
<1>7. TabInv'
  <2>1. tab.id \in Nat /\ detours \in Nat /\ detours <= detours'
    BY DEF Inv, Types
  <2>2. tab.id + (IF opening # NoRead THEN 1 ELSE 0) <= detours' + 1
    BY <2>1 DEF Inv, TabInv
  <2>. QED  BY <1>1, <1>3, <2>2 DEF Inv, TabInv, CleanIsBaseline, Dispatched
<1>8. DiskInv'
  <2>. SUFFICES ASSUME quiet' PROVE DiskInv'
    BY DEF DiskInv
  <2>1. SaveInv(saves[id]) /\ saves'[id].path \in Paths
    BY <1>1, <1>2, <1>3, <1>5 DEF Inv, DiskInv
  <2>2. opening' = NoRead
    BY <1>1, <1>5 DEF Inv, TabInv
  <2>3. SaveInv(saves[id])'
    BY <1>1, <1>2, <1>3, <1>a, <2>1 DEF Inv, Types, SaveInv
  <2>. QED  BY <1>1, <1>3, <1>5, <2>2, <2>3 DEF DiskInv, Dispatched
<1>9. SilentInv'
  <2>. SUFFICES ASSUME quiet' PROVE SilentInv'
    BY DEF SilentInv
  <2>1. tab' = tab /\ recent' = recent /\ saves'[tab.id] # NoSave
        /\ saves'[tab.id].path = p /\ saves'[tab.id].stage = stage
    BY <1>1, <1>3, <1>5
  <2>2. ASSUME NEW i \in DOMAIN events', Shows(events'[i].path), ~unsettled'
        PROVE  (Expected(events[i].path))'
    <3>1. events'[i].path = tab.path
      BY <2>2 DEF Shows
    <3>2. CASE stage = "written" /\ p = tab.path
      BY <2>1, <3>1, <3>2 DEF Expected, Dispatched
    <3>3. CASE p # tab.path
      <4>1. ~unsettled
        BY <1>a, <2>2, <3>3 DEF Inv, Types
      <4>2. i \in DOMAIN events /\ events'[i] = events[i]
        BY <1>4, <3>1, <3>3
      <4>3. Expected(events[i].path) /\ saves[tab.id].stage = "writing"
        BY <1>1, <1>5, <2>2, <4>1, <4>2 DEF Inv, SilentInv
      <4>. QED  BY <2>1, <4>2, <4>3 DEF Expected
    <3>. QED  BY <1>a, <2>2, <3>2, <3>3
  <2>. QED  BY <1>1, <1>4, <1>5, <2>1, <2>2 DEF Inv, SilentInv, Shows
<1>. QED  BY <1>6, <1>7, <1>8, <1>9 DEF Inv

LEMMA WriteSucceedsStep ==
    ASSUME Inv, NEW id \in TabIds, WriteSucceeds(id)
    PROVE  Inv'
<1>1. /\ RenameIntoPlace(id, "written") /\ detours' = detours
      /\ unsettled' = (unsettled /\ saves[id].path # tab.path)
  BY DEF WriteSucceeds
<1>2. detours' \in {detours, detours + 1} /\ detours' \in 0..MaxDetours
      /\ unsettled' \in BOOLEAN
  BY <1>1 DEF Inv, Types
<1>3. "written" \in SaveStages
  BY DEF SaveStages
<1>. QED  BY <1>1, <1>2, <1>3, RenameStep

\* The error after the rename: the baseline will be of before the save.
LEMMA DirectorySyncFailsStep ==
    ASSUME Inv, NEW id \in TabIds, DirectorySyncFails(id)
    PROVE  Inv'
<1>1. /\ RenameIntoPlace(id, "failed") /\ detours' = detours + 1 /\ detours < MaxDetours
      /\ unsettled' = (unsettled \/ saves[id].path = tab.path)
  BY DEF DirectorySyncFails, Detour
<1>2. detours' \in {detours, detours + 1} /\ detours' \in 0..MaxDetours
      /\ unsettled' \in BOOLEAN
  BY <1>1, FileSyncAssumption DEF Inv, Types
<1>3. "failed" \in SaveStages
  BY DEF SaveStages
<1>. QED  BY <1>1, <1>2, <1>3, RenameStep

LEMMA WriteFailsStep ==
    ASSUME Inv, NEW id \in TabIds, WriteFails(id)
    PROVE  Inv'
<1>1. /\ Dispatched(id) /\ saves[id].stage = "writing"
      /\ saves' = [saves EXCEPT ![id].stage = "failed"]
      /\ UNCHANGED <<disk, tab, opening, reloads, events, recent, conflicts, detours, quiet, unsettled>>
  BY DEF WriteFails
<1>2. /\ saves' \in [TabIds -> SaveRecord \cup {NoSave}]
      /\ saves'[id] # NoSave /\ saves'[id].path = saves[id].path
      /\ saves'[id].text = saves[id].text /\ saves'[id].as = saves[id].as
      /\ saves'[id].base = saves[id].base /\ saves'[id].stage = "failed"
      /\ \A i \in TabIds \ {id} : saves'[i] = saves[i]
  BY <1>1, StageType DEF Inv, SaveStages
<1>3. tab.id \in TabIds
  BY FileSyncAssumption DEF Inv, Types, TabInv, TabIds
<1>6. Types'
  BY <1>1, <1>2 DEF Inv, Types
<1>7. TabInv'
  BY <1>1, <1>2 DEF Inv, TabInv, CleanIsBaseline, Dispatched
<1>8. DiskInv'
  BY <1>1, <1>2, <1>3 DEF Inv, DiskInv, SaveInv, Dispatched
<1>9. SilentInv'
  BY <1>1, <1>2, <1>3 DEF Inv, SilentInv, Expected, Dispatched, Shows
<1>. QED  BY <1>6, <1>7, <1>8, <1>9 DEF Inv

\* finish_local_save: the entry in recent takes over from the save.
LEMMA FinishLocalSaveStep ==
    ASSUME Inv, NEW id \in TabIds, FinishLocalSave(id)
    PROVE  Inv'
<1>. DEFINE p == saves[id].path
<1>1. /\ Dispatched(id) /\ saves[id].stage = "written" /\ ~saves[id].as
      /\ saves' = [saves EXCEPT ![id] = NoSave]
      /\ conflicts' \in {conflicts, PendingWithout(conflicts, p)}
      /\ recent' = recent \cup {p}
      /\ UNCHANGED <<disk, tab, opening, reloads, events, detours, quiet, unsettled>>
  BY DEF FinishLocalSave, SavesWithout
<1>2. p \in Paths
  BY <1>1, SaveIsRecord DEF Inv
<1>3. tab.id \in TabIds
  BY FileSyncAssumption DEF Inv, Types, TabInv, TabIds
<1>4. conflicts' \in [pending : SUBSET Paths, dialogs : SUBSET [path : Paths, id : Nat]]
      /\ conflicts'.pending \subseteq conflicts.pending
      /\ conflicts'.dialogs = conflicts.dialogs
  BY <1>1 DEF Inv, Types, PendingWithout
<1>6. Types'
  BY <1>1, <1>2, <1>4 DEF Inv, Types
<1>7. TabInv'
  BY <1>1 DEF Inv, Types, TabInv, CleanIsBaseline
<1>8. DiskInv'
  BY <1>1, <1>3 DEF Inv, Types, DiskInv, SaveInv, Dispatched
<1>9. SilentInv'
  BY <1>1, <1>3, <1>4 DEF Inv, Types, SilentInv, Expected, Dispatched, Shows
<1>. QED  BY <1>6, <1>7, <1>8, <1>9 DEF Inv

\* finish_save_as: the tab moves to the file that holds its baseline.
LEMMA FinishSaveAsStep ==
    ASSUME Inv, NEW id \in TabIds, FinishSaveAs(id)
    PROVE  Inv'
<1>. DEFINE p == saves[id].path
<1>1. /\ Dispatched(id) /\ saves[id].stage = "written" /\ saves[id].as
      /\ saves' = [saves EXCEPT ![id] = NoSave]
      /\ UNCHANGED <<disk, opening, reloads, events, detours, quiet>>
  BY DEF FinishSaveAs, SavesWithout
<1>2. p \in Paths
  BY <1>1, SaveIsRecord DEF Inv
<1>3. tab.id \in TabIds
  BY FileSyncAssumption DEF Inv, Types, TabInv, TabIds
<1>4. CASE tab.open /\ tab.id = id
  <2>1. /\ tab' = [tab EXCEPT !.path = p]
        /\ recent' = (recent \ {tab.path}) \cup {p}
        /\ conflicts' = PendingWithout(conflicts, tab.path)
        /\ unsettled' = FALSE
    BY <1>4 DEF FinishSaveAs
  <2>2. conflicts' \in [pending : SUBSET Paths, dialogs : SUBSET [path : Paths, id : Nat]]
        /\ conflicts'.pending \subseteq conflicts.pending
        /\ conflicts'.dialogs = conflicts.dialogs
    BY <2>1 DEF Inv, Types, PendingWithout
  <2>3. Types'
    BY <1>1, <1>2, <2>1, <2>2 DEF Inv, Types
  <2>4. TabInv'
    BY <1>1, <2>1 DEF Inv, Types, TabInv, CleanIsBaseline
  <2>5. DiskInv'
    BY <1>1, <1>2, <1>3, <1>4, <2>1 DEF Inv, Types, DiskInv, SaveInv, Dispatched
  <2>6. SilentInv'
    BY <1>1, <1>3, <2>1, <2>2 DEF Inv, Types, SilentInv, Expected, Dispatched, Shows
  <2>. QED  BY <2>3, <2>4, <2>5, <2>6 DEF Inv
<1>5. CASE ~tab.open \/ tab.id # id
  <2>1. UNCHANGED <<tab, recent, conflicts, unsettled>>
    BY <1>5 DEF FinishSaveAs
  <2>3. Types'
    BY <1>1, <2>1 DEF Inv, Types
  <2>4. TabInv'
    BY <1>1, <2>1 DEF Inv, Types, TabInv, CleanIsBaseline
  <2>5. DiskInv'
    BY <1>1, <1>3, <1>5, <2>1 DEF Inv, Types, DiskInv, SaveInv, Dispatched
  <2>6. SilentInv'
    BY <1>1, <1>3, <1>5, <2>1 DEF Inv, Types, SilentInv, Expected, Dispatched, Shows
  <2>. QED  BY <2>3, <2>4, <2>5, <2>6 DEF Inv
<1>. QED  BY <1>4, <1>5

\* handle_failed_save: the baseline of before the save comes back.
LEMMA HandleFailedSaveStep ==
    ASSUME Inv, NEW id \in TabIds, HandleFailedSave(id)
    PROVE  Inv'
<1>1. /\ Dispatched(id) /\ saves[id].stage = "failed"
      /\ saves' = [saves EXCEPT ![id] = NoSave]
      /\ tab' = IF tab.open /\ tab.id = id
                THEN [tab EXCEPT !.base = saves[id].base,
                                 !.modified = tab.text # saves[id].base]
                ELSE tab
      /\ UNCHANGED <<disk, opening, reloads, events, recent, conflicts, detours, quiet, unsettled>>
  BY DEF HandleFailedSave, SavesWithout, RolledBack
<1>2. saves[id].base \in Texts
  BY <1>1, SaveIsRecord DEF Inv
<1>3. tab.id \in TabIds
  BY FileSyncAssumption DEF Inv, Types, TabInv, TabIds
<1>6. Types'
  BY <1>1, <1>2 DEF Inv, Types
<1>7. TabInv'
  BY <1>1 DEF Inv, Types, TabInv, CleanIsBaseline
<1>8. DiskInv'
  BY <1>1, <1>2, <1>3 DEF Inv, Types, DiskInv, SaveInv, Dispatched
<1>9. SilentInv'
  BY <1>1, <1>3 DEF Inv, Types, SilentInv, Expected, Dispatched, Shows
<1>. QED  BY <1>6, <1>7, <1>8, <1>9 DEF Inv

\* There is no reload to deliver as long as nobody else touches the file.
LEMMA ReloadReadsStep ==
    ASSUME Inv, NEW s \in Slots, ReloadReads(s)
    PROVE  Inv'
<1>1. /\ reloads[s] # NoRead
      /\ reloads' = [reloads EXCEPT ![s] =
                       IF disk[@.path] = Absent THEN NoRead
                       ELSE [@ EXCEPT !.text = disk[reloads[s].path]]]
      /\ UNCHANGED <<disk, tab, opening, saves, events, recent, conflicts, detours, quiet, unsettled>>
  BY DEF ReloadReads
<1>2. reloads[s] \in ReloadRecord
  BY <1>1 DEF Inv, Types
<1>3. [reloads[s] EXCEPT !.text = disk[reloads[s].path]] \in ReloadRecord
  BY <1>2 DEF Inv, Types, ReloadRecord
<1>4. reloads' \in [Slots -> ReloadRecord \cup {NoRead}]
  BY <1>1, <1>3 DEF Inv, Types
<1>5. Types'
  BY <1>1, <1>4 DEF Inv, Types
<1>6. TabInv' /\ DiskInv'
  BY <1>1 DEF Inv, TabInv, CleanIsBaseline, DiskInv, SaveInv, Dispatched
<1>7. SilentInv'
  BY <1>1 DEF Inv, SilentInv
<1>. QED  BY <1>5, <1>6, <1>7 DEF Inv

LEMMA ApplyReloadStep ==
    ASSUME Inv, NEW s \in Slots, ApplyReload(s)
    PROVE  Inv'
<1>1. /\ reloads[s] # NoRead /\ reloads[s].text # Absent
      /\ reloads' = [reloads EXCEPT ![s] = NoRead]
      /\ tab' = IF Shows(reloads[s].path)
                THEN [tab EXCEPT !.text = reloads[s].text,
                                 !.base = reloads[s].text, !.modified = FALSE]
                ELSE tab
      /\ UNCHANGED <<disk, opening, saves, events, recent, conflicts, detours, quiet, unsettled>>
  BY DEF ApplyReload
<1>2. reloads[s] \in ReloadRecord
  BY <1>1 DEF Inv, Types
<1>3. reloads[s].text \in Texts
  BY <1>1, <1>2 DEF ReloadRecord
<1>4. reloads' \in [Slots -> ReloadRecord \cup {NoRead}]
  BY <1>1 DEF Inv, Types
<1>5. Types'
  BY <1>1, <1>3, <1>4 DEF Inv, Types
<1>6. TabInv'
  BY <1>1, <1>3 DEF Inv, Types, TabInv, CleanIsBaseline
<1>7. DiskInv' /\ SilentInv'
  BY <1>1 DEF Inv, Types, DiskInv, SilentInv
<1>. QED  BY <1>5, <1>6, <1>7 DEF Inv

-----------------------------------------------------------------------------
(* Events of the watch and the end of their debounce. *)

\* What is left of the queue was in it.
LEMMA TailEvents ==
    ASSUME Types, events # <<>>, events' = Tail(events)
    PROVE  /\ Head(events) \in Event /\ Head(events) = events[1]
           /\ 1 \in DOMAIN events
           /\ events' \in Seq(Event)
           /\ \A i \in DOMAIN events' :
                 i + 1 \in DOMAIN events /\ events'[i] = events[i + 1]
<1>1. events \in Seq(Event) /\ events # <<>>
  BY DEF Types
<1>2. Len(events) > 0 /\ Head(events) = events[1] /\ events[1] \in Event
  BY <1>1
<1>3. events' \in Seq(Event) /\ Len(events') = Len(events) - 1
  BY <1>1
<1>4. ASSUME NEW i \in DOMAIN events'
      PROVE  i + 1 \in DOMAIN events /\ events'[i] = events[i + 1]
  BY <1>1, <1>2, <1>3, <1>4
<1>. QED  BY <1>1, <1>2, <1>3, <1>4

LEMMA EventPath == ASSUME NEW e \in Event PROVE e.path \in Paths
BY DEF Event

\* An event that is taken is gone; what is left of SilentInv is about the rest.
LEMMA TakeEvent ==
    ASSUME Inv, events # <<>>, events' = Tail(events), recent \subseteq recent',
           UNCHANGED <<tab, saves, reloads, unsettled>>, quiet' => quiet,
           quiet' => conflicts'.pending = {} /\ conflicts'.dialogs = {}
    PROVE  SilentInv'
<1>. SUFFICES ASSUME quiet', quiet PROVE SilentInv'
  BY DEF SilentInv
<1>1. \A i \in DOMAIN events' :
          i + 1 \in DOMAIN events /\ events'[i] = events[i + 1]
  BY TailEvents DEF Inv
<1>2. \A i \in DOMAIN events :
          /\ events[i].kind # "Renamed"
          /\ Shows(events[i].path) /\ ~unsettled => Expected(events[i].path)
  BY DEF Inv, SilentInv
<1>3. ASSUME NEW i \in DOMAIN events'
      PROVE  /\ events'[i].kind # "Renamed"
             /\ (Shows(events[i].path) /\ ~unsettled => Expected(events[i].path))'
  <2>1. events'[i].kind # "Renamed"
        /\ (Shows(events[i + 1].path) /\ ~unsettled => Expected(events[i + 1].path))
    BY <1>1, <1>2, <1>3
  <2>2. events'[i] = events[i + 1]
    BY <1>1, <1>3
  <2>. QED  BY <2>1, <2>2 DEF Expected, Dispatched, Shows
<1>4. \A s \in Slots : reloads'[s] = NoRead
  BY DEF Inv, SilentInv
<1>. QED  BY <1>3, <1>4 DEF SilentInv

\* While quiet holds and no failed save replaced the file, an event for the
\* file of the tab is suppressed.
LEMMA ExpectedIsSuppressed ==
    ASSUME Inv, quiet, events # <<>>, Shows(Head(events).path), ~unsettled
    PROVE  Suppressed(Head(events).path)
<1>1. 1 \in DOMAIN events /\ Head(events) = events[1]
  BY DEF Inv, Types
<1>2. Expected(Head(events).path)
  BY <1>1 DEF Inv, SilentInv
<1>3. tab.id \in TabIds
  BY FileSyncAssumption DEF Inv, Types, TabInv, TabIds
<1>. QED  BY <1>2, <1>3 DEF Expected, Suppressed

\* A change by another program is asked about or reloaded.
LEMMA ExternalModification ==
    ASSUME Inv, NEW p \in Paths, NEW c,
           c \in [pending : SUBSET Paths, dialogs : SUBSET [path : Paths, id : Nat]],
           ApplyExternalModification(p, c)
    PROVE  /\ reloads' \in [Slots -> ReloadRecord \cup {NoRead}]
           /\ conflicts' \in [pending : SUBSET Paths,
                              dialogs : SUBSET [path : Paths, id : Nat]]
           /\ ~Shows(p) => conflicts' = c /\ reloads' = reloads
<1>1. [path |-> p, id |-> tab.id] \in [path : Paths, id : Nat]
  BY DEF Inv, Types
<1>2. CASE SpawnReload(p, FALSE) /\ conflicts' = c /\ Shows(p)
  BY <1>2, SpawnType DEF Inv
<1>3. CASE reloads' = reloads /\ conflicts' = [c EXCEPT !.pending = @ \cup {p}] /\ Shows(p)
  BY <1>3 DEF Inv, Types
<1>4. CASE /\ reloads' = reloads /\ Shows(p)
           /\ conflicts' = [c EXCEPT !.dialogs =
                              IF \E d \in @ : d.path = p THEN @
                              ELSE @ \cup {[path |-> p, id |-> tab.id]}]
  BY <1>1, <1>4 DEF Inv, Types
<1>5. CASE reloads' = reloads /\ conflicts' = c
  BY <1>5 DEF Inv, Types
<1>. QED  BY <1>2, <1>3, <1>4, <1>5 DEF ApplyExternalModification

LEMMA HandleSuppressedStep == ASSUME Inv, HandleSuppressed PROVE Inv'
<1>1. /\ events # <<>> /\ events' = Tail(events)
      /\ UNCHANGED <<disk, tab, opening, saves, reloads, recent, conflicts, detours, quiet, unsettled>>
  BY DEF HandleSuppressed
<1>2. Types'
  BY <1>1, TailEvents DEF Inv, Types
<1>3. TabInv' /\ DiskInv'
  BY <1>1 DEF Inv, TabInv, CleanIsBaseline, DiskInv, SaveInv, Dispatched
<1>4. SilentInv'
  BY <1>1, TakeEvent DEF Inv, SilentInv
<1>. QED  BY <1>2, <1>3, <1>4 DEF Inv

\* HandleModified, and HandleReplaced, which also sets up the watch.
LEMMA ModificationStep ==
    ASSUME Inv, events # <<>>, ~Suppressed(Head(events).path),
           events' = Tail(events), recent' = recent \cup {Head(events).path},
           NEW c \in {conflicts, PendingWithout(conflicts, Head(events).path)},
           ApplyExternalModification(Head(events).path, c),
           quiet' = (quiet /\ ~Mistaken(Head(events).path)),
           UNCHANGED <<disk, tab, opening, saves, detours, unsettled>>
    PROVE  Inv'
<1>. DEFINE p == Head(events).path
<1>1. p \in Paths
  BY TailEvents, EventPath DEF Inv
<1>2. c \in [pending : SUBSET Paths, dialogs : SUBSET [path : Paths, id : Nat]]
      /\ c.pending \subseteq conflicts.pending /\ c.dialogs = conflicts.dialogs
  <2>1. CASE c = conflicts
    BY <2>1 DEF Inv, Types
  <2>2. CASE c = PendingWithout(conflicts, p)
    BY <2>2 DEF Inv, Types, PendingWithout
  <2>. QED  BY <2>1, <2>2
<1>3. /\ reloads' \in [Slots -> ReloadRecord \cup {NoRead}]
      /\ conflicts' \in [pending : SUBSET Paths,
                         dialogs : SUBSET [path : Paths, id : Nat]]
      /\ ~Shows(p) => conflicts' = c /\ reloads' = reloads
  BY <1>1, <1>2, ExternalModification
<1>4. quiet' \in BOOLEAN /\ (quiet' => quiet /\ ~Shows(p))
  BY ExpectedIsSuppressed DEF Inv, Types, Mistaken
<1>5. Types'
  BY <1>1, <1>3, <1>4, TailEvents DEF Inv, Types
<1>6. TabInv' /\ DiskInv'
  BY <1>4 DEF Inv, TabInv, CleanIsBaseline, DiskInv, SaveInv, Dispatched
<1>7. SilentInv'
  <2>1. CASE ~quiet'
    BY <2>1 DEF SilentInv
  <2>2. CASE quiet'
    BY <1>2, <1>3, <1>4, <2>2, TakeEvent DEF Inv, SilentInv
  <2>. QED  BY <2>1, <2>2
<1>. QED  BY <1>5, <1>6, <1>7 DEF Inv

LEMMA HandleModifiedStep == ASSUME Inv, HandleModified PROVE Inv'
BY ModificationStep DEF HandleModified, NextEvent

LEMMA HandleReplacedStep == ASSUME Inv, HandleReplaced PROVE Inv'
<1>. DEFINE c == IF inodeBackend THEN PendingWithout(conflicts, Head(events).path)
                 ELSE conflicts
<1>1. c \in {conflicts, PendingWithout(conflicts, Head(events).path)}
  OBVIOUS
<1>2. ApplyExternalModification(Head(events).path, c)
  BY DEF HandleReplaced
<1>. HIDE DEF c
<1>. QED  BY <1>1, <1>2, ModificationStep DEF HandleReplaced, NextEvent

LEMMA HandleDeletedStep == ASSUME Inv, HandleDeleted PROVE Inv'
<1>. DEFINE p == Head(events).path
<1>1. /\ events # <<>> /\ ~Suppressed(p) /\ events' = Tail(events)
      /\ recent' = recent \cup {p}
      /\ conflicts' = PendingWithout(conflicts, p)
      /\ tab' = IF Shows(p) THEN [tab EXCEPT !.modified = TRUE] ELSE tab
      /\ quiet' = (quiet /\ ~Mistaken(p))
      /\ UNCHANGED <<disk, opening, saves, reloads, detours, unsettled>>
  BY DEF HandleDeleted, NextEvent
<1>2. p \in Paths
  BY <1>1, TailEvents, EventPath DEF Inv
<1>3. conflicts' \in [pending : SUBSET Paths, dialogs : SUBSET [path : Paths, id : Nat]]
      /\ conflicts'.pending \subseteq conflicts.pending
      /\ conflicts'.dialogs = conflicts.dialogs
  BY <1>1 DEF Inv, Types, PendingWithout
<1>4. quiet' \in BOOLEAN /\ (quiet' => quiet /\ ~Shows(p))
  BY <1>1, ExpectedIsSuppressed DEF Inv, Types, Mistaken
<1>5. Types'
  BY <1>1, <1>2, <1>3, <1>4, TailEvents DEF Inv, Types
<1>6. TabInv' /\ DiskInv'
  BY <1>1, <1>4 DEF Inv, Types, TabInv, CleanIsBaseline, DiskInv, SaveInv, Dispatched
<1>7. SilentInv'
  <2>1. CASE ~quiet'
    BY <2>1 DEF SilentInv
  <2>2. CASE quiet'
    BY <1>1, <1>3, <1>4, <2>2, TakeEvent DEF Inv, SilentInv
  <2>. QED  BY <2>1, <2>2
<1>. QED  BY <1>5, <1>6, <1>7 DEF Inv

\* Only another program causes this event.
LEMMA HandleRenamedStep == ASSUME Inv, HandleRenamed PROVE Inv'
<1>. DEFINE p == Head(events).path
            q == Head(events).to
<1>1. /\ events # <<>> /\ Head(events).kind = "Renamed" /\ events' = Tail(events)
      /\ \/ /\ tab' = [tab EXCEPT !.path = q]
            /\ recent' = recent \ {p}
            /\ conflicts' = PendingWithout(conflicts, p)
         \/ /\ recent' = recent \cup {p}
            /\ UNCHANGED <<tab, conflicts>>
      /\ UNCHANGED <<disk, opening, saves, reloads, detours, quiet, unsettled>>
  BY DEF HandleRenamed, NextEvent
<1>2. p \in Paths /\ q \in Paths
  BY <1>1, TailEvents DEF Inv, Event
<1>3. ~quiet
  BY <1>1, TailEvents DEF Inv, SilentInv
<1>4. PendingWithout(conflicts, p) \in
        [pending : SUBSET Paths, dialogs : SUBSET [path : Paths, id : Nat]]
  BY DEF Inv, Types, PendingWithout
<1>5. Types'
  BY <1>1, <1>2, <1>4, TailEvents DEF Inv, Types
<1>6. TabInv'
  BY <1>1 DEF Inv, Types, TabInv, CleanIsBaseline
<1>. QED  BY <1>1, <1>3, <1>5, <1>6 DEF Inv, DiskInv, SilentInv

\* FILE_WATCH_DEBOUNCE does not end for a path with an event in the queue.
LEMMA DebounceStep ==
    ASSUME Inv, NEW p \in Paths, DebounceEnds(p)
    PROVE  Inv'
<1>1. Types'
  BY DEF Inv, Types, DebounceEnds
<1>2. TabInv' /\ DiskInv'
  BY DEF Inv, TabInv, CleanIsBaseline, DiskInv, SaveInv, Dispatched, DebounceEnds
<1>3. SilentInv'
  BY DEF Inv, SilentInv, Expected, Dispatched, Shows, DebounceEnds
<1>. QED  BY <1>1, <1>2, <1>3 DEF Inv

-----------------------------------------------------------------------------
(* The other program: quiet ends. *)

LEMMA ExternalSteps ==
    ASSUME Inv, External, disk' \in [Paths -> Texts \cup {Absent}],
           NEW e \in Event, events' \in {events, Append(events, e)}
    PROVE  Inv'
<1>1. events' \in Seq(Event)
  <2>1. events \in Seq(Event)
    BY DEF Inv, Types
  <2>2. CASE events' = Append(events, e)
    BY <2>1, <2>2
  <2>. QED  BY <2>1, <2>2
<1>2. detours' \in 0..MaxDetours /\ detours <= detours'
  BY FileSyncAssumption DEF Inv, Types, External, Detour
<1>3. Types'
  BY <1>1, <1>2 DEF Inv, Types, External
<1>4. TabInv'
  BY <1>2 DEF Inv, Types, TabInv, CleanIsBaseline, External
<1>5. DiskInv' /\ SilentInv'
  BY DEF External, DiskInv, SilentInv
<1>. QED  BY <1>3, <1>4, <1>5 DEF Inv

LEMMA ExternalWriteStep ==
    ASSUME Inv, NEW p \in Paths, NEW text \in Texts,
           ExternalWrite(p, text) \/ ExternalReplace(p, text)
    PROVE  Inv'
<1>. DEFINE e == [kind |-> IF inodeBackend THEN "Deleted" ELSE "Modified", path |-> p]
            m == [kind |-> "Modified", path |-> p]
<1>1. e \in Event /\ m \in Event
  BY DEF Event
<1>2. External /\ disk' = [disk EXCEPT ![p] = text]
  BY DEF ExternalWrite, ExternalReplace
<1>3. disk' \in [Paths -> Texts \cup {Absent}]
  BY <1>2 DEF Inv, Types
<1>4. events' \in {events, Append(events, e), Append(events, m)}
  BY DEF ExternalWrite, ExternalReplace, Replaced, Reported
<1>. HIDE DEF e, m
<1>. QED  BY <1>1, <1>2, <1>3, <1>4, ExternalSteps

LEMMA ExternalRemovalStep ==
    ASSUME Inv, NEW p \in Paths, NEW q \in Paths,
           ExternalDelete(p) \/ ExternalRename(p, q)
    PROVE  Inv'
<1>. DEFINE e == [kind |-> "Deleted", path |-> p]
            m == [kind |-> "Renamed", path |-> p, to |-> q]
<1>1. e \in Event /\ m \in Event
  BY DEF Event
<1>2. External
  BY DEF ExternalDelete, ExternalRename
<1>3. disk' \in [Paths -> Texts \cup {Absent}]
  BY DEF Inv, Types, ExternalDelete, ExternalRename
<1>4. events' \in {events, Append(events, e), Append(events, m)}
  BY DEF ExternalDelete, ExternalRename, Reported
<1>. HIDE DEF e, m
<1>. QED  BY <1>1, <1>2, <1>3, <1>4, ExternalSteps

-----------------------------------------------------------------------------
(* The types, the baseline, the stages of a save and the suppressed events *)
(* hold together in every state of the local files.                        *)
THEOREM Invariance == Spec => []Inv
<1>1. Inv /\ [Next]_vars => Inv'
  <2>. SUFFICES ASSUME Inv, [Next]_vars PROVE Inv'
    OBVIOUS
  <2>1. CASE UserStep
    BY <2>1, EditStep, SetActiveTabStep, NeighbourClosesStep, LeaveTabStep, CloseTabStep,
       ReopenFileStep, StopWatcherStep, StartWatcherStep, SaveToStep, OpenReadsStep
       DEF UserStep
  <2>2. CASE SaveStep
    BY <2>2, WriteSucceedsStep, WriteFailsStep, DirectorySyncFailsStep,
       FinishLocalSaveStep, FinishSaveAsStep, HandleFailedSaveStep DEF SaveStep
  <2>3. CASE ReloadStep
    BY <2>3, ReloadReadsStep, ApplyReloadStep DEF ReloadStep
  <2>4. CASE EventStep
    BY <2>4, HandleSuppressedStep, HandleModifiedStep, HandleReplacedStep,
       HandleDeletedStep, HandleRenamedStep DEF EventStep
  <2>5. CASE ExternalStep
    BY <2>5, ExternalWriteStep, ExternalRemovalStep DEF ExternalStep
  <2>6. CASE UNCHANGED vars
    BY <2>6 DEF vars, Inv, Types, TabInv, CleanIsBaseline, DiskInv, SaveInv, Dispatched,
                SilentInv, Expected, Shows
  <2>. QED  BY <2>1, <2>2, <2>3, <2>4, <2>5, <2>6, AnswerConflictStep, OpenFinishesStep,
               DebounceStep DEF Next
<1>. QED  BY InitInv, <1>1, PTL DEF Spec

(* As CleanIsBaseline says: whatever saves, failures and reloads cross, a  *)
(* tab without the modified mark shows its baseline.                       *)
THEOREM MarkIsNeverMissing == Spec => []CleanIsBaseline
<1>1. Inv => CleanIsBaseline
  BY DEF Inv, TabInv
<1>. QED  BY Invariance, <1>1, PTL

(* As CleanIsOnDisk says: while only the tab writes its file and no save   *)
(* of it is in flight, a tab without the modified mark shows the file,     *)
(* although spawn_local_save moves the baseline before the write.          *)
THEOREM CleanIsWritten == Spec => []CleanIsOnDisk
<1>1. Inv => CleanIsOnDisk
  BY DEF Inv, TabInv, CleanIsBaseline, DiskInv, CleanIsOnDisk
<1>. QED  BY Invariance, <1>1, PTL

(* As OwnSavesAreSilent says: should_suppress_file_watch_event drops every *)
(* event of an own save, for any number of saves, paths and debounces.     *)
THEOREM OwnEventsAreSuppressed == Spec => []OwnSavesAreSilent
<1>1. Inv => OwnSavesAreSilent
  BY DEF Inv, SilentInv, OwnSavesAreSilent
<1>. QED  BY Invariance, <1>1, PTL
=============================================================================
