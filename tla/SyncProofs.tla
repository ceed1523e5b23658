----------------------------- MODULE SyncProofs -----------------------------
(***************************************************************************)
(* Proofs about the two modules of a profile's connection, each for every  *)
(* value of its constants.                                                 *)
(*                                                                         *)
(* SyncSession, for any number of workers, operations and retries: a       *)
(* profile has at most one worker that was not told to stop, and it is one *)
(* the settings ask for.  NoOrphanWorker speaks of threads that run.  It   *)
(* is not inductive: a job that waits for the old worker will start a      *)
(* thread later.  OneInv says the same of every worker that was begun,     *)
(* from the moment it is put into the slot, and that settings and saved    *)
(* settings agree as long as no edit was lost, which is why the bootstrap  *)
(* may read the saved ones.                                                *)
(*                                                                         *)
(* AccessToken, for every set of threads and every number of calls and     *)
(* keys: one refresh at a time, no lost wakeup, and no token of an old key *)
(* after it was cleared.                                                   *)
(***************************************************************************)
EXTENDS SyncSession, AccessToken, TLAPS

-----------------------------------------------------------------------------
(* The worker of the profile (SyncSession).                                *)
WorkerRecord == [flag : BOOLEAN, job : Jobs, kind : {"quiet", "progress", "bootstrap"},
                 cancelled : BOOLEAN, uses : 0..MaxOps]
SettingsRecord == [exists : BOOLEAN, active : BOOLEAN, address : 0..MaxOps, master : BOOLEAN]

ConnType ==
    /\ slot \in Workers \cup {NoWorker}
    /\ next \in 1..(MaxWorkers + 1)
    /\ worker \in [Workers -> WorkerRecord]
    /\ at \in [Workers -> Places]
    /\ publishing \in [Workers -> Statuses \cup {NoStatus}]
    /\ retries \in [Workers -> [failures : 0..(TransientRetryAttempts + 1),
                                 handoffs : 0..FastAttempts]]

UserType ==
    /\ settings \in SettingsRecord /\ saved \in SettingsRecord
    /\ initialized \in BOOLEAN /\ unapplied \in BOOLEAN
    /\ ops \in 0..MaxOps
    /\ settings.address <= ops /\ saved.address <= ops

ShownType ==
    /\ heartbeat \in BOOLEAN
    /\ status \in Statuses
    /\ sheet \in [open : BOOLEAN, fetch : {"idle", "start", "sync", "devices"},
                   reconnect : BOOLEAN, restart : BOOLEAN]

Types == ConnType /\ UserType /\ ShownType

\* Types is TypeOK, with the addresses bounded by the operations so far.
LEMMA TypesImplyTypeOK == Types => TypeOK
BY DEF Types, ConnType, UserType, ShownType, TypeOK, WorkerRecord, SettingsRecord

\* A worker some step has begun to start.
Begun(w) == worker[w].job # "none" \/ at[w] # "none"

\* Begun and not told to stop.
Kept(w) == Begun(w) /\ ~worker[w].flag

Wanted(w) == /\ settings.exists /\ settings.active /\ settings.master
             /\ worker[w].uses = settings.address

OneInv ==
    /\ \A w \in Workers : w >= next => ~Begun(w)
    /\ \A w \in Workers : Kept(w) => slot = w
    /\ ~unapplied => saved = settings /\ \A w \in Workers : Kept(w) => Wanted(w)

Inv == Types /\ OneInv

\* Retiring tells every worker to stop that was begun, since it is in the slot.
LEMMA RetireSteps ==
    ASSUME ConnType, OneInv
    PROVE  /\ Retire(worker) \in [Workers -> WorkerRecord]
           /\ \A w \in Workers : Begun(w) => Retire(worker)[w].flag
           /\ \A w \in Workers : Retire(worker)[w].job = worker[w].job
<1>1. DOMAIN worker = Workers
  BY DEF ConnType
<1>2. ASSUME NEW w \in Workers
      PROVE  /\ Retire(worker)[w] \in WorkerRecord
             /\ Retire(worker)[w].job = worker[w].job
             /\ Retire(worker)[w].flag = (worker[w].flag \/ w = slot)
  <2>1. worker[w] \in WorkerRecord
    BY DEF ConnType
  <2>2. Retire(worker)[w] = IF w = slot THEN [worker[w] EXCEPT !.flag = TRUE] ELSE worker[w]
    BY <1>1 DEF Retire
  <2>. QED  BY <2>1, <2>2 DEF WorkerRecord
<1>3. Retire(worker) = [w \in Workers |-> Retire(worker)[w]]
  BY <1>1 DEF Retire
<1>4. ASSUME NEW w \in Workers, Begun(w)  PROVE Retire(worker)[w].flag
  BY <1>2, <1>4 DEF OneInv, Kept
<1>. QED  BY <1>2, <1>3, <1>4

\* A stop leaves no worker that was not told to stop.
LEMMA StopSteps ==
    ASSUME ConnType, OneInv, UNCHANGED <<at, publishing, retries, next>>,
           worker' = Retire(worker), slot' = NoWorker
    PROVE  /\ ConnType'
           /\ \A w \in Workers : ~Kept(w)'
           /\ \A w \in Workers : w >= next' => ~Begun(w)'
<1>1. ConnType'
  BY RetireSteps DEF ConnType, NoWorker
<1>2. \A w \in Workers : Begun(w)' => Begun(w) /\ worker'[w].flag
  BY RetireSteps DEF Begun
<1>. QED  BY <1>1, <1>2 DEF OneInv, Kept

\* A new worker is the only one that was not told to stop.
LEMMA InstallSteps ==
    ASSUME ConnType, OneInv, NEW kind \in {"quiet", "progress", "bootstrap"},
           NEW job \in Jobs, NEW address \in 0..MaxOps, Install(kind, job, address)
    PROVE  /\ ConnType'
           /\ \A w \in Workers : Kept(w)' => w = slot' /\ worker'[w].uses = address
           /\ \A w \in Workers : w >= next' => ~Begun(w)'
<1>. DEFINE new == [flag |-> FALSE, job |-> job, kind |-> kind, cancelled |-> FALSE,
                    uses |-> address]
<1>1. new \in WorkerRecord /\ new.uses = address
  BY DEF WorkerRecord
<1>. HIDE DEF new
<1>2. /\ next \in Workers /\ next' = next + 1 /\ slot' = next
      /\ worker' = [Retire(worker) EXCEPT ![next] = new]
      /\ UNCHANGED <<at, publishing, retries>>
  BY DEF Install, new
<1>3. worker' \in [Workers -> WorkerRecord]
  BY <1>1, <1>2, RetireSteps
<1>4. ConnType'
  <2>1. next' \in 1..(MaxWorkers + 1) /\ slot' \in Workers
    BY <1>2, SyncSessionAssumption DEF Workers
  <2>. QED  BY <1>2, <1>3, <2>1 DEF ConnType
<1>5. \A w \in Workers : worker'[w] = IF w = next THEN new ELSE Retire(worker)[w]
  BY <1>2, RetireSteps
<1>6. ASSUME NEW w \in Workers, w # next, Begun(w)'  PROVE Begun(w) /\ worker'[w].flag
  BY <1>2, <1>5, <1>6, RetireSteps DEF Begun
<1>7. ASSUME NEW w \in Workers, w >= next'  PROVE ~Begun(w)'
  BY <1>2, <1>6, <1>7, SyncSessionAssumption DEF OneInv, Workers
<1>. QED  BY <1>1, <1>2, <1>4, <1>5, <1>6, <1>7 DEF Kept

\* Settings and connection after a restart with the settings set.
LEMMA RestartSteps ==
    ASSUME ConnType, OneInv, status \in Statuses, NEW set \in SettingsRecord,
           NEW kind \in {"quiet", "progress"}, Restart(kind, set)
    PROVE  /\ ConnType' /\ status' \in Statuses
           /\ \A w \in Workers : w >= next' => ~Begun(w)'
           /\ \A w \in Workers : Kept(w)' => slot' = w
           /\ \/ set.exists /\ set.active /\ set.master
                 /\ \A w \in Workers : Kept(w)' => worker'[w].uses = set.address
              \/ ~(set.exists /\ set.active /\ set.master) /\ UNCHANGED conn
<1>1. CASE set.exists /\ set.active /\ set.master
  <2>1. Install(kind, "retire", set.address) /\ status' \in {"Connecting", status}
    BY <1>1 DEF Restart
  <2>2. set.address \in 0..MaxOps /\ "retire" \in Jobs
    BY DEF SettingsRecord, Jobs
  <2>. QED  BY <1>1, <2>1, <2>2, InstallSteps DEF Statuses
<1>2. CASE ~(set.exists /\ set.active /\ set.master)
  <2>1. UNCHANGED conn /\ UNCHANGED status
    BY <1>2 DEF Restart
  <2>. QED  BY <1>2, <2>1 DEF conn, ConnType, OneInv, Kept, Begun
<1>. QED  BY <1>1, <1>2

-----------------------------------------------------------------------------
(* The steps of the user. *)

\* An edit of the profile: the connection follows it, or unapplied says that
\* it does not.
LEMMA EditSteps ==
    ASSUME Inv, NEW set \in SettingsRecord, set.exists, set.address <= ops',
           set.master = settings.master,
           ops' \in 0..MaxOps, ops <= ops', heartbeat' = heartbeat, EditProfile(set)
    PROVE  Inv'
<1>1. /\ settings' = set /\ UNCHANGED <<initialized, sheet>>
      /\ \/ /\ saved' = set
            /\ unapplied' = (unapplied /\ set.active /\ ~set.master)
            /\ IF set.active THEN Restart("progress", set) ELSE StopConnection
         \/ unapplied' = TRUE /\ UNCHANGED <<saved, conn, status>>
  BY DEF EditProfile
<1>2. UserType'
  <2>1. unapplied' \in BOOLEAN
    BY <1>1 DEF Inv, Types, UserType
  <2>2. saved' \in SettingsRecord /\ saved'.address <= ops'
    <3>1. saved.address <= ops'
      BY SyncSessionAssumption DEF Inv, Types, UserType, SettingsRecord
    <3>. QED  BY <1>1, <3>1 DEF Inv, Types, UserType
  <2>. QED  BY <1>1, <2>1, <2>2 DEF Inv, Types, UserType
<1>3. CASE unapplied' = TRUE /\ UNCHANGED <<saved, conn, status>>
  <2>1. ConnType' /\ ShownType'
    BY <1>1, <1>3 DEF Inv, Types, ConnType, ShownType, conn
  <2>2. OneInv'
    BY <1>3 DEF Inv, OneInv, Kept, Begun, conn
  <2>. QED  BY <1>2, <2>1, <2>2 DEF Inv, Types
<1>4. CASE /\ saved' = set /\ unapplied' = (unapplied /\ set.active /\ ~set.master)
           /\ set.active /\ Restart("progress", set)
  <2>1. /\ ConnType' /\ status' \in Statuses
        /\ \A w \in Workers : w >= next' => ~Begun(w)'
        /\ \A w \in Workers : Kept(w)' => slot' = w
        /\ \/ set.exists /\ set.active /\ set.master
              /\ \A w \in Workers : Kept(w)' => worker'[w].uses = set.address
           \/ ~(set.exists /\ set.active /\ set.master) /\ UNCHANGED conn
    BY <1>4, RestartSteps DEF Inv, Types, ShownType
  <2>2. ShownType'
    BY <1>1, <2>1 DEF Inv, Types, ShownType
  <2>3. ASSUME ~unapplied', NEW w \in Workers, Kept(w)'  PROVE Wanted(w)'
    <3>1. CASE set.exists /\ set.active /\ set.master
      BY <1>1, <2>1, <2>3, <3>1 DEF Wanted
    <3>2. CASE ~set.master /\ UNCHANGED conn
      <4>1. ~unapplied
        BY <1>4, <2>3, <3>2
      <4>2. Kept(w)
        BY <2>3, <3>2 DEF Kept, Begun, conn
      <4>. QED  BY <3>2, <4>1, <4>2 DEF Inv, OneInv, Wanted
    <3>. QED  BY <1>4, <2>1, <3>1, <3>2
  <2>4. OneInv'
    BY <1>1, <1>4, <2>1, <2>3 DEF OneInv
  <2>. QED  BY <1>2, <2>1, <2>2, <2>4 DEF Inv, Types
<1>5. CASE /\ saved' = set /\ StopConnection
  <2>1. /\ ConnType' /\ status' \in Statuses
        /\ \A w \in Workers : w >= next' => ~Begun(w)'
        /\ \A w \in Workers : ~Kept(w)'
    BY <1>5, StopSteps DEF StopConnection, Inv, Types, Statuses
  <2>2. ShownType'
    BY <1>1, <2>1 DEF Inv, Types, ShownType
  <2>3. OneInv'
    BY <1>1, <1>5, <2>1 DEF OneInv
  <2>. QED  BY <1>2, <2>1, <2>2, <2>3 DEF Inv, Types
<1>. QED  BY <1>1, <1>3, <1>4, <1>5

\* An operation of the user is counted.
LEMMA OperationSteps ==
    ASSUME UserType, Operation
    PROVE  ops' \in 0..MaxOps /\ ops' = ops + 1 /\ ops <= ops' /\ ops' > 0
           /\ heartbeat' = heartbeat
BY SyncSessionAssumption DEF UserType, Operation

\* The toggle of the profile is an edit that keeps its address.
LEMMA ToggleProfileStep == ASSUME Inv, ToggleProfile PROVE Inv'
<1>. DEFINE set == [settings EXCEPT !.active = ~@]
<1>1. Operation /\ EditProfile(set) /\ settings.exists
  BY DEF ToggleProfile, EditProfile
<1>2. settings \in SettingsRecord /\ ops \in 0..MaxOps /\ settings.address <= ops
  BY DEF Inv, Types, UserType
<1>3. /\ set \in SettingsRecord /\ set.exists = settings.exists
      /\ set.master = settings.master /\ set.address = settings.address
  BY <1>2 DEF SettingsRecord
<1>4. set.address <= ops'
  BY <1>1, <1>2, <1>3, OperationSteps, SyncSessionAssumption DEF Inv, Types, SettingsRecord
<1>. HIDE DEF set
<1>. QED  BY <1>1, <1>3, <1>4, OperationSteps, EditSteps DEF Inv, Types

\* So is Save in the profile sheet, with a new address.
LEMMA SaveProfileStep == ASSUME Inv, SaveProfile PROVE Inv'
<1>. DEFINE set == [settings EXCEPT !.address = @ + 1]
<1>1. Operation /\ EditProfile(set) /\ settings.exists
  BY DEF SaveProfile, EditProfile
<1>2. settings \in SettingsRecord /\ ops \in 0..MaxOps /\ settings.address <= ops
  BY DEF Inv, Types, UserType
<1>3. settings.address + 1 <= ops' /\ settings.address + 1 \in 0..MaxOps
  BY <1>1, <1>2, OperationSteps, SyncSessionAssumption DEF Inv, Types, SettingsRecord
<1>4. /\ set \in SettingsRecord /\ set.exists = settings.exists
      /\ set.master = settings.master /\ set.address = settings.address + 1
  BY <1>2, <1>3 DEF SettingsRecord
<1>. HIDE DEF set
<1>. QED  BY <1>1, <1>3, <1>4, OperationSteps, EditSteps DEF Inv, Types

\* The master switch restarts or stops what the settings had active.
LEMMA ToggleMasterStep == ASSUME Inv, ToggleMaster PROVE Inv'
<1>. DEFINE set == [settings EXCEPT !.master = ~@]
<1>1. /\ Operation /\ settings' = set /\ saved' \in {saved, set}
      /\ UNCHANGED <<initialized, sheet>>
  BY DEF ToggleMaster
<1>2. /\ settings \in SettingsRecord /\ saved \in SettingsRecord
      /\ ops \in 0..MaxOps /\ settings.address <= ops /\ saved.address <= ops
  BY DEF Inv, Types, UserType
<1>3. /\ set \in SettingsRecord /\ set.exists = settings.exists
      /\ set.active = settings.active /\ set.address = settings.address
      /\ set.master = ~settings.master
  BY <1>2 DEF SettingsRecord
<1>. HIDE DEF set
<1>4. ops' \in 0..MaxOps /\ ops' = ops + 1 /\ heartbeat' = heartbeat
  BY <1>1, OperationSteps DEF Inv, Types
<1>5. unapplied' \in BOOLEAN /\ (~unapplied' => saved' = settings')
  BY <1>1, <1>2 DEF ToggleMaster, Inv, Types, UserType
<1>6. UserType'
  BY <1>1, <1>2, <1>3, <1>4, <1>5, SyncSessionAssumption DEF Inv, Types, UserType, SettingsRecord
<1>7. CASE settings.exists /\ settings.active /\ settings'.master
  <2>1. Restart("quiet", set)
    BY <1>1, <1>7 DEF ToggleMaster
  <2>2. set.exists /\ set.active /\ set.master
    BY <1>1, <1>3, <1>7
  <2>3. /\ ConnType' /\ status' \in Statuses
        /\ \A w \in Workers : w >= next' => ~Begun(w)'
        /\ \A w \in Workers : Kept(w)' => slot' = w /\ worker'[w].uses = set.address
    BY <1>3, <2>1, <2>2, RestartSteps DEF Inv, Types, ShownType
  <2>4. OneInv'
    BY <1>1, <1>5, <2>2, <2>3 DEF OneInv, Wanted
  <2>. QED  BY <1>1, <1>4, <1>6, <2>3, <2>4 DEF Inv, Types, ShownType
<1>8. CASE settings.exists /\ settings.active /\ ~settings'.master
  <2>1. StopConnection
    BY <1>1, <1>8 DEF ToggleMaster
  <2>2. /\ ConnType' /\ status' \in Statuses
        /\ \A w \in Workers : w >= next' => ~Begun(w)'
        /\ \A w \in Workers : ~Kept(w)'
    BY <2>1, StopSteps DEF StopConnection, Inv, Types, Statuses
  <2>3. OneInv'
    BY <1>5, <2>2 DEF OneInv
  <2>. QED  BY <1>1, <1>4, <1>6, <2>2, <2>3 DEF Inv, Types, ShownType
<1>9. CASE ~(settings.exists /\ settings.active)
  <2>1. /\ UNCHANGED <<conn, status>>
        /\ ~unapplied' => ~unapplied
    BY <1>9 DEF ToggleMaster
  <2>2. ConnType' /\ ShownType'
    BY <1>1, <1>4, <2>1 DEF Inv, Types, ConnType, ShownType, conn
  <2>3. \A w \in Workers : /\ Kept(w)' => Kept(w)
                           /\ Begun(w)' => Begun(w)
    BY <2>1 DEF Kept, Begun, conn
  <2>4. ~unapplied' => \A w \in Workers : ~Kept(w)'
    BY <1>9, <2>1, <2>3 DEF Inv, OneInv, Wanted
  <2>5. OneInv'
    BY <1>5, <2>1, <2>3, <2>4 DEF Inv, OneInv, conn
  <2>. QED  BY <1>6, <2>2, <2>5 DEF Inv, Types
<1>. QED  BY <1>7, <1>8, <1>9

\* A deletion retires the worker, whether it could be saved or not.
LEMMA DeleteProfileStep == ASSUME Inv, DeleteProfile PROVE Inv'
<1>. DEFINE set == [settings EXCEPT !.exists = FALSE]
<1>1. /\ Operation /\ settings' = set /\ saved' \in {saved, set}
      /\ unapplied' = (saved' # settings')
      /\ worker' = Retire(worker) /\ slot' = NoWorker
      /\ UNCHANGED <<initialized, status, sheet, at, publishing, retries, next>>
  BY DEF DeleteProfile
<1>2. /\ settings \in SettingsRecord /\ saved \in SettingsRecord
      /\ ops \in 0..MaxOps /\ settings.address <= ops /\ saved.address <= ops
  BY DEF Inv, Types, UserType
<1>3. set \in SettingsRecord /\ set.address = settings.address
  BY <1>2 DEF SettingsRecord
<1>. HIDE DEF set
<1>4. ops' \in 0..MaxOps /\ ops' = ops + 1 /\ heartbeat' = heartbeat
  BY <1>1, OperationSteps DEF Inv, Types
<1>5. UserType'
  BY <1>1, <1>2, <1>3, <1>4, SyncSessionAssumption DEF Inv, Types, UserType, SettingsRecord
<1>6. /\ ConnType'
      /\ \A w \in Workers : w >= next' => ~Begun(w)'
      /\ \A w \in Workers : ~Kept(w)'
  BY <1>1, StopSteps DEF Inv, Types
<1>7. OneInv'
  BY <1>1, <1>6 DEF OneInv
<1>8. ShownType'
  BY <1>1, <1>4 DEF Inv, Types, ShownType
<1>. QED  BY <1>5, <1>6, <1>7, <1>8 DEF Inv, Types

\* The bootstrap of a window takes the saved settings.
LEMMA BeginStep == ASSUME Inv, BeginSynchronization PROVE Inv'
<1>1. /\ saved.master /\ initialized' = TRUE
      /\ UNCHANGED <<settings, saved, ops, unapplied, heartbeat, sheet>>
  BY DEF BeginSynchronization
<1>2. UserType'
  BY <1>1 DEF Inv, Types, UserType
<1>3. CASE saved.exists /\ saved.active
  <2>1. Install("bootstrap", "sync", saved.address) /\ UNCHANGED status
    BY <1>3 DEF BeginSynchronization
  <2>2. saved.address \in 0..MaxOps /\ "sync" \in Jobs
    BY DEF Inv, Types, UserType, SettingsRecord, Jobs
  <2>3. /\ ConnType'
        /\ \A w \in Workers : Kept(w)' => w = slot' /\ worker'[w].uses = saved.address
        /\ \A w \in Workers : w >= next' => ~Begun(w)'
    BY <2>1, <2>2, InstallSteps DEF Inv, Types
  <2>4. OneInv'
    BY <1>1, <1>3, <2>3 DEF Inv, OneInv, Wanted
  <2>5. ShownType'
    BY <1>1, <2>1 DEF Inv, Types, ShownType
  <2>. QED  BY <1>2, <2>3, <2>4, <2>5 DEF Inv, Types
<1>4. CASE ~(saved.exists /\ saved.active)
  <2>1. UNCHANGED <<conn, status>>
    BY <1>4 DEF BeginSynchronization
  <2>2. ConnType' /\ ShownType'
    BY <1>1, <2>1 DEF Inv, Types, ConnType, ShownType, conn
  <2>3. OneInv'
    BY <1>1, <2>1 DEF Inv, OneInv, Kept, Begun, Wanted, conn
  <2>. QED  BY <1>2, <2>2, <2>3 DEF Inv, Types
<1>. QED  BY <1>3, <1>4

\* An edit that was undone by the observer had not been saved, so unapplied
\* holds before and after.
LEMMA ObserveStep == ASSUME Inv, ObserveSettings PROVE Inv'
<1>1. /\ settings # saved /\ settings' = saved
      /\ UNCHANGED <<saved, initialized, ops, unapplied, conn, status, heartbeat, sheet>>
  BY DEF ObserveSettings
<1>2. UserType' /\ ConnType' /\ ShownType'
  BY <1>1 DEF Inv, Types, UserType, ConnType, ShownType, conn
<1>3. unapplied /\ unapplied'
  BY <1>1 DEF Inv, OneInv
<1>4. OneInv'
  BY <1>1, <1>3 DEF Inv, OneInv, Kept, Begun, conn
<1>. QED  BY <1>2, <1>4 DEF Inv, Types

\* A restart asked for by the share sheet.
LEMMA SheetRestartStep == ASSUME Inv, ProcessPendingShareSheet PROVE Inv'
<1>1. /\ sheet' = [sheet EXCEPT !.restart = FALSE] /\ Restart("quiet", settings)
      /\ UNCHANGED <<user, heartbeat>>
  BY DEF ProcessPendingShareSheet
<1>2. UserType'
  BY <1>1 DEF Inv, Types, UserType, user
<1>3. /\ ConnType' /\ status' \in Statuses
      /\ \A w \in Workers : w >= next' => ~Begun(w)'
      /\ \A w \in Workers : Kept(w)' => slot' = w
      /\ \/ settings.exists /\ settings.active /\ settings.master
            /\ \A w \in Workers : Kept(w)' => worker'[w].uses = settings.address
         \/ ~(settings.exists /\ settings.active /\ settings.master) /\ UNCHANGED conn
  BY <1>1, RestartSteps DEF Inv, Types, UserType, ShownType
<1>4. ShownType'
  BY <1>1, <1>3 DEF Inv, Types, ShownType
<1>5. UNCHANGED conn => \A w \in Workers : Kept(w)' => Kept(w) /\ worker'[w] = worker[w]
  BY DEF Kept, Begun, conn
<1>6. OneInv'
  BY <1>1, <1>3, <1>5 DEF Inv, OneInv, Wanted, user
<1>. QED  BY <1>2, <1>3, <1>4, <1>6 DEF Inv, Types

\* Steps that leave the workers and the settings alone.
LEMMA ShownStep ==
    ASSUME Inv, UNCHANGED conn, UserType', ShownType', UNCHANGED <<settings, saved, unapplied>>
    PROVE  Inv'
<1>1. ConnType'
  BY DEF Inv, Types, ConnType, conn
<1>2. OneInv'
  BY DEF Inv, OneInv, Kept, Begun, Wanted, conn
<1>. QED  BY <1>1, <1>2 DEF Inv, Types

\* The share sheet, its fetch and heartbeats write the status only.
LEMMA SheetSteps ==
    ASSUME Inv, OpenShareSheet \/ CloseShareSheet \/ Fetch \/ HandleHeartbeat
    PROVE  Inv'
<1>1. ShownType'
  <2>1. CASE OpenShareSheet
    BY <2>1 DEF Inv, Types, ShownType, OpenShareSheet, Operation, Statuses
  <2>2. CASE CloseShareSheet
    BY <2>2 DEF Inv, Types, ShownType, CloseShareSheet
  <2>3. CASE FetchStarts
    BY <2>3 DEF Inv, Types, ShownType, FetchStarts
  <2>4. CASE FetchSynchronizes
    BY <2>4 DEF Inv, Types, ShownType, FetchSynchronizes, Statuses
  <2>5. CASE FetchDevices
    BY <2>5 DEF Inv, Types, ShownType, FetchDevices, Statuses
  <2>6. CASE HandleHeartbeat
    BY <2>6 DEF Inv, Types, ShownType, HandleHeartbeat, Statuses
  <2>. QED  BY <2>1, <2>2, <2>3, <2>4, <2>5, <2>6 DEF Fetch
<1>2. CASE OpenShareSheet
  <2>1. /\ Operation /\ UNCHANGED conn
        /\ UNCHANGED <<settings, saved, initialized, unapplied>>
    BY <1>2 DEF OpenShareSheet
  <2>2. UserType'
    BY <2>1, OperationSteps, SyncSessionAssumption DEF Inv, Types, UserType, SettingsRecord
  <2>. QED  BY <1>1, <2>1, <2>2, ShownStep
<1>3. CASE CloseShareSheet \/ Fetch \/ HandleHeartbeat
  <2>1. UNCHANGED conn /\ UNCHANGED <<settings, saved, initialized, unapplied, ops>>
    BY <1>3 DEF CloseShareSheet, Fetch, FetchStarts, FetchSynchronizes, FetchDevices,
                HandleHeartbeat, user
  <2>2. UserType'
    BY <2>1 DEF Inv, Types, UserType
  <2>. QED  BY <1>1, <2>1, <2>2, ShownStep
<1>. QED  BY <1>2, <1>3

-----------------------------------------------------------------------------
(* The steps of the workers: none starts another worker or lifts a flag. *)

\* Steps that neither begin a worker nor lift a flag keep OneInv.
LEMMA OneKept ==
    ASSUME OneInv, UNCHANGED <<slot, next, settings, saved, unapplied>>,
           \A v \in Workers : /\ Begun(v)' => Begun(v)
                              /\ worker'[v].flag = worker[v].flag
                              /\ worker'[v].uses = worker[v].uses
    PROVE  OneInv'
<1>1. \A v \in Workers : Kept(v)' => Kept(v)
  BY DEF Kept
<1>. QED  BY <1>1 DEF OneInv, Wanted

\* A cancel is a mark on a job.
LEMMA CancelStep == ASSUME Inv, NEW w \in Workers, CancelProgress(w) PROVE Inv'
<1>1. /\ Operation /\ worker[w].job # "none" /\ status' = "Disconnected"
      /\ worker' = [worker EXCEPT ![w].cancelled = TRUE]
      /\ UNCHANGED <<settings, saved, initialized, unapplied, at, publishing,
                     retries, slot, next, sheet>>
  BY DEF CancelProgress
<1>2. /\ worker' \in [Workers -> WorkerRecord]
      /\ \A v \in Workers : /\ worker'[v].flag = worker[v].flag
                            /\ worker'[v].uses = worker[v].uses
                            /\ worker'[v].job = worker[v].job
  BY <1>1 DEF Inv, Types, ConnType, WorkerRecord
<1>3. ConnType'
  BY <1>1, <1>2 DEF Inv, Types, ConnType
<1>4. UserType' /\ ShownType'
  BY <1>1, OperationSteps, SyncSessionAssumption
     DEF Inv, Types, UserType, ShownType, SettingsRecord, Statuses
<1>5. OneInv'
  BY <1>1, <1>2, OneKept DEF Inv, Begun
<1>. QED  BY <1>3, <1>4, <1>5 DEF Inv, Types

\* A step of a job moves a worker that was begun already.
LEMMA JobStepSteps ==
    ASSUME Inv, NEW w \in Workers, NEW from \in Jobs \ {"none"}, NEW to \in Jobs \ {"none"},
           JobStep(w, from, to), status' \in Statuses,
           at' = at \/ at' = [at EXCEPT ![w] = "top"]
    PROVE  Inv'
<1>1. /\ worker[w].job = from
      /\ worker' = [worker EXCEPT
                     ![w].job = to,
                     ![w].kind = IF to = "done" THEN "quiet" ELSE @,
                     ![w].cancelled = (@ /\ to # "done")]
      /\ UNCHANGED <<user, heartbeat, sheet, slot, next, publishing, retries>>
  BY DEF JobStep
<1>2. /\ worker' \in [Workers -> WorkerRecord]
      /\ \A v \in Workers : /\ worker'[v].flag = worker[v].flag
                            /\ worker'[v].uses = worker[v].uses
                            /\ v # w => worker'[v].job = worker[v].job
  <2>. DEFINE kind == IF to = "done" THEN "quiet" ELSE worker[w].kind
              cancelled == worker[w].cancelled /\ to # "done"
  <2>1. worker \in [Workers -> WorkerRecord] /\ worker[w] \in WorkerRecord
    BY DEF Inv, Types, ConnType
  <2>2. kind \in {"quiet", "progress", "bootstrap"}
    BY <2>1 DEF WorkerRecord
  <2>3. cancelled \in BOOLEAN
    OBVIOUS
  <2>4. worker' = [worker EXCEPT ![w] = [worker[w] EXCEPT !.job = to, !.kind = kind,
                                                          !.cancelled = cancelled]]
    BY <1>1, <2>1 DEF WorkerRecord
  <2>. HIDE DEF kind, cancelled
  <2>5. [worker[w] EXCEPT !.job = to, !.kind = kind, !.cancelled = cancelled] \in WorkerRecord
    BY <2>1, <2>2, <2>3 DEF WorkerRecord
  <2>6. /\ worker'[w] \in WorkerRecord
        /\ worker'[w].flag = worker[w].flag /\ worker'[w].uses = worker[w].uses
        /\ \A v \in Workers \ {w} : worker'[v] = worker[v]
    BY <2>1, <2>4, <2>5 DEF WorkerRecord
  <2>. QED  BY <2>1, <2>4, <2>5, <2>6
<1>3. at' \in [Workers -> Places] /\ \A v \in Workers \ {w} : at'[v] = at[v]
  BY DEF Inv, Types, ConnType, Places
<1>4. ConnType'
  BY <1>1, <1>2, <1>3 DEF Inv, Types, ConnType
<1>5. UserType' /\ ShownType'
  BY <1>1 DEF Inv, Types, UserType, ShownType, user
<1>6. \A v \in Workers : Begun(v)' => Begun(v)
  BY <1>1, <1>2, <1>3 DEF Begun
<1>7. OneInv'
  BY <1>1, <1>2, <1>6, OneKept DEF Inv, user
<1>. QED  BY <1>4, <1>5, <1>7 DEF Inv, Types

\* The five steps of a job.
LEMMA JobSteps == ASSUME Inv, NEW w \in Workers, Job(w) PROVE Inv'
<1>. USE DEF Jobs, Statuses
<1>1. status \in Statuses
  BY DEF Inv, Types, ShownType
<1>2. CASE RetireOld(w)
  BY <1>1, <1>2, JobStepSteps DEF RetireOld
<1>3. CASE SyncSucceeds(w)
  BY <1>1, <1>3, JobStepSteps DEF SyncSucceeds
<1>4. CASE SyncFails(w)
  BY <1>1, <1>4, JobStepSteps DEF SyncFails
<1>5. CASE StartSse(w)
  BY <1>1, <1>5, JobStepSteps DEF StartSse
<1>6. CASE ReportOutcome(w)
  BY <1>6, JobStepSteps DEF ReportOutcome
<1>. QED  BY <1>2, <1>3, <1>4, <1>5, <1>6 DEF Job

\* What a step of a stream thread may change.
LEMMA ThreadMoves ==
    ASSUME Inv, NEW w \in Workers, Running(w), NEW place \in Places \ {"none"},
           at' = [at EXCEPT ![w] = place],
           publishing' \in [Workers -> Statuses \cup {NoStatus}],
           retries' \in [Workers -> [failures : 0..(TransientRetryAttempts + 1),
                                      handoffs : 0..FastAttempts]],
           status' \in Statuses, heartbeat' \in BOOLEAN,
           UNCHANGED <<user, sheet, worker, slot, next>>
    PROVE  Inv'
<1>1. at' \in [Workers -> Places] /\ at[w] # "none" /\ \A v \in Workers \ {w} : at'[v] = at[v]
  BY DEF Inv, Types, ConnType, Running
<1>2. ConnType' /\ UserType' /\ ShownType'
  BY <1>1 DEF Inv, Types, ConnType, UserType, ShownType, user
<1>3. \A v \in Workers : Begun(v)' => Begun(v)
  BY <1>1 DEF Begun
<1>4. OneInv'
  BY <1>3, OneKept DEF Inv, user
<1>. QED  BY <1>2, <1>4 DEF Inv, Types

\* What a thread is about to publish is a status or nothing.
LEMMA Publishes ==
    ASSUME Inv, NEW w \in Workers, NEW s \in Statuses \cup {NoStatus}, Publish(w, s)
    PROVE  publishing' \in [Workers -> Statuses \cup {NoStatus}]
BY DEF Inv, Types, ConnType, Publish

\* The counters of a thread stay in their bounds.
LEMMA RetriesType ==
    /\ NoRetries \in [failures : 0..(TransientRetryAttempts + 1), handoffs : 0..FastAttempts]
    /\ \A n \in 0..(TransientRetryAttempts + 1) :
          Least(n + 1, TransientRetryAttempts + 1) \in 0..(TransientRetryAttempts + 1)
BY SyncSessionAssumption DEF NoRetries, Least

\* So they do when a connection fails.
LEMMA Failing ==
    ASSUME Inv, NEW w \in Workers, Fail(w)
    PROVE  /\ publishing' \in [Workers -> Statuses \cup {NoStatus}]
           /\ retries' \in [Workers -> [failures : 0..(TransientRetryAttempts + 1),
                                         handoffs : 0..FastAttempts]]
<1>. DEFINE failures == Least(retries[w].failures + 1, TransientRetryAttempts + 1)
<1>1. retries' = [retries EXCEPT ![w].failures = failures] /\ Publish(w, RetryStatus(failures))
  BY DEF Fail
<1>2. failures \in 0..(TransientRetryAttempts + 1)
  BY RetriesType DEF Inv, Types, ConnType
<1>. HIDE DEF failures
<1>3. RetryStatus(failures) \in Statuses \cup {NoStatus}
  BY DEF RetryStatus, Statuses
<1>. QED  BY <1>1, <1>2, <1>3, Publishes DEF Inv, Types, ConnType

\* The steps of a stream thread move a worker that runs.
LEMMA ThreadSteps == ASSUME Inv, NEW w \in Workers, Thread(w) PROVE Inv'
<1>1. /\ publishing \in [Workers -> Statuses \cup {NoStatus}]
      /\ retries \in [Workers -> [failures : 0..(TransientRetryAttempts + 1),
                                   handoffs : 0..FastAttempts]]
      /\ at \in [Workers -> Places] /\ status \in Statuses /\ heartbeat \in BOOLEAN
  BY DEF Inv, Types, ConnType, ShownType
<1>2. \A v \in Workers : at = [at EXCEPT ![v] = at[v]]
  BY <1>1
<1>3. ASSUME ThreadStep(w), End(w), at[w] \in {"top", "connect", "reading", "sleep"}  PROVE Inv'
  <2>1. retries' \in [Workers -> [failures : 0..(TransientRetryAttempts + 1),
                                   handoffs : 0..FastAttempts]]
    BY <1>1, <1>3, RetriesType DEF End
  <2>. QED  BY <1>1, <1>3, <2>1, ThreadMoves DEF ThreadStep, End, Go, Running, Places
<1>4. ASSUME ThreadStep(w), Fail(w), Go(w, "sleep"), UNCHANGED heartbeat,
             at[w] \in {"top", "connect", "reading", "sleep"}
      PROVE  Inv'
  BY <1>1, <1>4, Failing, ThreadMoves DEF ThreadStep, Go, Running, Places
<1>5. CASE LoopTop(w)
  <2>1. CASE End(w)
    BY <1>3, <1>5, <2>1 DEF LoopTop
  <2>2. CASE Go(w, "connect") /\ UNCHANGED <<publishing, retries, heartbeat>>
    BY <1>1, <1>5, <2>2, ThreadMoves DEF LoopTop, ThreadStep, Go, Running, Places
  <2>3. CASE Go(w, "sleep") /\ Publish(w, "Error") /\ UNCHANGED <<retries, heartbeat>>
    <3>1. publishing' \in [Workers -> Statuses \cup {NoStatus}]
      BY <2>3, Publishes DEF Statuses
    <3>. QED  BY <1>1, <1>5, <2>3, <3>1, ThreadMoves DEF LoopTop, ThreadStep, Go, Running, Places
  <2>. QED  BY <1>5, <2>1, <2>2, <2>3 DEF LoopTop
<1>6. CASE SlotBusy(w)
  <2>1. CASE End(w)
    BY <1>3, <1>6, <2>1 DEF SlotBusy
  <2>2. CASE /\ retries[w].handoffs < FastAttempts
             /\ retries' = [retries EXCEPT ![w].handoffs = @ + 1]
             /\ Go(w, "sleep") /\ UNCHANGED <<publishing, heartbeat>>
    <3>1. retries[w].handoffs + 1 \in 0..FastAttempts
      BY <1>1, <2>2, SyncSessionAssumption
    <3>2. retries' \in [Workers -> [failures : 0..(TransientRetryAttempts + 1),
                                     handoffs : 0..FastAttempts]]
      BY <1>1, <2>2, <3>1
    <3>. QED  BY <1>1, <1>6, <2>2, <3>2, ThreadMoves DEF SlotBusy, ThreadStep, Go, Running, Places
  <2>3. CASE Fail(w) /\ Go(w, "sleep") /\ UNCHANGED heartbeat
    BY <1>4, <1>6, <2>3 DEF SlotBusy
  <2>. QED  BY <1>6, <2>1, <2>2, <2>3 DEF SlotBusy
<1>7. CASE ConnectFails(w) \/ StreamEnds(w)
  BY <1>3, <1>4, <1>7 DEF ConnectFails, StreamEnds
<1>8. CASE ServerTooOld(w)
  <2>1. publishing' \in [Workers -> Statuses \cup {NoStatus}]
    BY <1>8, Publishes DEF ServerTooOld, Statuses
  <2>. QED  BY <1>1, <1>8, <2>1, ThreadMoves DEF ServerTooOld, ThreadStep, Go, Running, Places
<1>9. CASE ConnectSucceeds(w)
  <2>1. publishing' \in [Workers -> Statuses \cup {NoStatus}]
    BY <1>9, Publishes DEF ConnectSucceeds, Statuses
  <2>2. retries' \in [Workers -> [failures : 0..(TransientRetryAttempts + 1),
                                   handoffs : 0..FastAttempts]]
    BY <1>1, <1>9, RetriesType DEF ConnectSucceeds
  <2>. QED  BY <1>1, <1>9, <2>1, <2>2, ThreadMoves
            DEF ConnectSucceeds, ThreadStep, Go, Running, Places
<1>10. CASE ReadHeartbeat(w)
  BY <1>1, <1>2, <1>10, ThreadMoves DEF ReadHeartbeat, ThreadStep, Running, Places
<1>11. CASE Sleep(w)
  <2>1. CASE End(w)
    BY <1>3, <1>11, <2>1 DEF Sleep
  <2>2. CASE Go(w, "top") /\ UNCHANGED <<retries, publishing, heartbeat>>
    BY <1>1, <1>11, <2>2, ThreadMoves DEF Sleep, ThreadStep, Go, Running, Places
  <2>. QED  BY <1>11, <2>1, <2>2 DEF Sleep
<1>12. CASE PublishStatus(w)
  <2>1. /\ UNCHANGED <<user, heartbeat, sheet, worker, slot, next, at, retries>>
        /\ status' \in Statuses
        /\ publishing' \in [Workers -> Statuses \cup {NoStatus}]
    BY <1>1, <1>12 DEF PublishStatus
  <2>2. ConnType' /\ UserType' /\ ShownType'
    BY <2>1 DEF Inv, Types, ConnType, UserType, ShownType, user
  <2>3. OneInv'
    BY <2>1, OneKept DEF Inv, Begun, user
  <2>. QED  BY <2>2, <2>3 DEF Inv, Types
<1>. QED  BY <1>5, <1>6, <1>7, <1>8, <1>9, <1>10, <1>11, <1>12 DEF Thread

-----------------------------------------------------------------------------
\* Nothing was begun at first.
LEMMA InvInit == Init => Inv
<1>. SUFFICES ASSUME Init PROVE Inv
  OBVIOUS
<1>1. ConnType
  BY SyncSessionAssumption
     DEF Init, ConnType, WorkerRecord, NewWorker, Jobs, Places, Workers, NoWorker
<1>2. UserType
  <2>1. 0 \in 0..MaxOps
    BY SyncSessionAssumption
  <2>2. settings \in [exists : {TRUE}, active : BOOLEAN, address : {0}, master : BOOLEAN]
    BY DEF Init
  <2>3. settings \in SettingsRecord
    BY <2>1, <2>2 DEF SettingsRecord
  <2>4. settings.address = 0
    BY <2>2
  <2>5. saved = settings /\ initialized = FALSE /\ unapplied = FALSE /\ ops = 0
    BY DEF Init
  <2>6. initialized \in BOOLEAN /\ unapplied \in BOOLEAN
    BY <2>5
  <2>7. settings.address <= ops /\ saved.address <= ops /\ ops \in 0..MaxOps
    BY <2>1, <2>4, <2>5
  <2>. QED  BY <2>3, <2>5, <2>6, <2>7 DEF UserType
<1>3. ShownType
  BY DEF Init, ShownType, Statuses
<1>4. \A w \in Workers : ~Begun(w)
  BY DEF Init, Begun, NewWorker
<1>5. OneInv
  BY <1>4 DEF Init, OneInv, Kept
<1>. QED  BY <1>1, <1>2, <1>3, <1>5 DEF Inv, Types

\* Every step keeps the types and OneInv.
LEMMA InvStep == ASSUME Inv, [Next]_vars PROVE Inv'
<1>1. CASE UNCHANGED vars
  BY <1>1 DEF vars, conn, user, Inv, Types, ConnType, UserType, ShownType, OneInv, Kept,
              Begun, Wanted
<1>2. CASE Next
  BY <1>2, BeginStep, ToggleProfileStep, SaveProfileStep, ToggleMasterStep, DeleteProfileStep,
     ObserveStep, SheetSteps, SheetRestartStep, CancelStep, JobSteps, ThreadSteps DEF Next
<1>. QED  BY <1>1, <1>2

\* Theorem: what the window, the jobs and the stream threads keep true together.
THEOREM Invariance == Spec => []Inv
<1>1. Inv /\ [Next]_vars => Inv'
  BY InvStep
<1>. QED  BY InvInit, <1>1, PTL DEF Spec

\* Theorem: TypeOK, for any number of workers, operations and retries.
THEOREM TypeCorrect == Spec => []TypeOK
<1>1. Inv => TypeOK
  BY TypesImplyTypeOK DEF Inv
<1>. QED  BY Invariance, <1>1, PTL

\* Theorem (restart.rs, bootstrap.rs): as NoOrphanWorker says, a worker that was
\* not told to stop is the one in the slot, so that a profile has at most one.
THEOREM OneWorker == Spec => []NoOrphanWorker
<1>1. Inv => NoOrphanWorker
  BY DEF Inv, OneInv, NoOrphanWorker, Kept, Begun, Live, Running
<1>. QED  BY Invariance, <1>1, PTL

\* Theorem (profile_lifecycle.rs, sync_controls.rs): as LiveWorkerIsWanted says,
\* the live worker serves the profile as the settings have it.
THEOREM WorkerIsWanted == Spec => []LiveWorkerIsWanted
<1>1. Inv => LiveWorkerIsWanted
  BY DEF Inv, OneInv, LiveWorkerIsWanted, Wanted, Kept, Begun, Live, Running
<1>. QED  BY Invariance, <1>1, PTL

-----------------------------------------------------------------------------
(* The access token (AccessToken).                                         *)

(* A request that was sent was sent with a key.                            *)
SentInv == \A t \in Threads : pc[t] = "requested" => sent[t] # NoKey

(* While no token was cleared during a request, everything a call may      *)
(* still return was obtained with the key of the last clear_token or with  *)
(* a later one.                                                            *)
KeyInv ==
    /\ cleared <= key
    /\ \A t \in Threads : asked[t] <= cleared
    /\ ~overlapped =>
          /\ token.valid => cleared <= token.key
          /\ \A t \in Threads : pc[t] = "requested" => cleared <= sent[t]

TokenInv == TokenTypeOK /\ SentInv /\ SingleFlight /\ SleepersAreWoken /\ KeyInv

-----------------------------------------------------------------------------
(* A token manager starts with no token and nobody asking for one.         *)
LEMMA TokenInitInv == TokenInit => TokenInv
<1> SUFFICES ASSUME TokenInit PROVE TokenInv
  OBVIOUS
<1>1. TokenTypeOK
  <2>1. pc \in [Threads -> TokenPlaces] /\ sent \in [Threads -> Nat]
        /\ asked \in [Threads -> Nat]
    BY DEF TokenInit, TokenPlaces, NoKey
  <2>2. calls \in 0..MaxCalls
    BY AccessTokenAssumption DEF TokenInit
  <2>3. key \in Nat \ {NoKey} /\ cleared \in Nat
    BY DEF TokenInit, NoKey
  <2> QED
    BY <2>1, <2>2, <2>3 DEF TokenInit, TokenTypeOK
<1>2. SentInv
  BY DEF TokenInit, SentInv
<1>3. SingleFlight
  BY DEF TokenInit, SingleFlight, Refreshers
<1>4. SleepersAreWoken
  BY DEF TokenInit, SleepersAreWoken
<1>5. KeyInv
  BY DEF TokenInit, KeyInv, NoKey, NoToken
<1> QED
  BY <1>1, <1>2, <1>3, <1>4, <1>5 DEF TokenInv

(* Every step keeps the types.                                             *)
LEMMA TokenTypeStep == TokenTypeOK /\ SentInv /\ [TokenNext]_tokenVars => TokenTypeOK' /\ SentInv'
<1> SUFFICES ASSUME TokenTypeOK, SentInv, [TokenNext]_tokenVars PROVE TokenTypeOK' /\ SentInv'
  OBVIOUS
<1> USE AccessTokenAssumption DEF TokenTypeOK, SentInv, TokenPlaces, Goto, userVars
<1>1. ASSUME NEW t \in Threads, FastPath(t) PROVE TokenTypeOK' /\ SentInv'
  BY <1>1 DEF FastPath
<1>2. ASSUME NEW t \in Threads, Returns(t) PROVE TokenTypeOK' /\ SentInv'
  BY <1>2 DEF Returns
<1>3. ASSUME NEW t \in Threads, Waits(t) PROVE TokenTypeOK' /\ SentInv'
  BY <1>3 DEF Waits
<1>4. ASSUME NEW t \in Threads, GivesUp(t) PROVE TokenTypeOK' /\ SentInv'
  BY <1>4 DEF GivesUp
<1>5. ASSUME NEW t \in Threads, TakesOver(t) PROVE TokenTypeOK' /\ SentInv'
  BY <1>5 DEF TakesOver
<1>6. ASSUME NEW t \in Threads, Requests(t) PROVE TokenTypeOK' /\ SentInv'
  BY <1>6 DEF Requests
<1>7. ASSUME NEW t \in Threads, Stores(t) PROVE TokenTypeOK' /\ SentInv'
  <2>1. PICK valid \in BOOLEAN : token' = [key |-> sent[t], valid |-> valid]
    BY <1>7 DEF Stores
  <2>2. sent[t] \in Nat \ {NoKey}
    BY <1>7 DEF Stores
  <2>3. token' \in [key : Nat \ {NoKey}, valid : BOOLEAN]
    BY <2>1, <2>2
  <2> QED
    BY <1>7, <2>3 DEF Stores, NotifyAll
<1>8. ASSUME NEW t \in Threads, Fails(t) PROVE TokenTypeOK' /\ SentInv'
  BY <1>8 DEF Fails, NotifyAll
<1>9. ASSUME NEW t \in Threads, WaitTimesOut(t) PROVE TokenTypeOK' /\ SentInv'
  BY <1>9 DEF WaitTimesOut
<1>10. CASE StoreKey
  <2>1. rollback' \in BOOLEAN
    BY <1>10, Zenon DEF StoreKey
  <2> QED
    BY <1>10, <2>1 DEF StoreKey, NoKey
<1>11. CASE ClearToken
  <2>1. rollback' \in BOOLEAN
    BY <1>11, Zenon DEF ClearToken
  <2> QED
    BY <1>11, <2>1 DEF ClearToken
<1>12. CASE CancelEdit
  <2>1. rollback' \in BOOLEAN
    BY <1>12, Zenon DEF CancelEdit
  <2>2. clearing' \in BOOLEAN
    BY <1>12, Zenon DEF CancelEdit
  <2>3. key' \in Nat \ {NoKey}
    BY <1>12 DEF CancelEdit, NoKey
  <2> QED
    BY <1>12, <2>1, <2>2, <2>3 DEF CancelEdit
<1>13. CASE Expire
  <2>1. token # NoToken
    BY <1>13 DEF Expire, NoToken
  <2>2. token' \in [key : Nat \ {NoKey}, valid : BOOLEAN]
    BY <1>13, <2>1 DEF Expire
  <2> QED
    BY <1>13, <2>2 DEF Expire
<1>14. CASE UNCHANGED tokenVars
  BY <1>14 DEF tokenVars
<1> QED
  BY <1>1, <1>2, <1>3, <1>4, <1>5, <1>6, <1>7, <1>8, <1>9, <1>10, <1>11,
     <1>12, <1>13, <1>14 DEF TokenNext, Step

(* Every step keeps one refresh at a time and every sleeper with somebody  *)
(* to wake it: the flag is set in the critical section that found it       *)
(* clear, and cleared in the one that wakes everybody.                     *)
LEMMA FlightStep ==
    TokenTypeOK /\ SingleFlight /\ SleepersAreWoken /\ [TokenNext]_tokenVars
        => SingleFlight' /\ SleepersAreWoken'
<1> SUFFICES ASSUME TokenTypeOK, SingleFlight, SleepersAreWoken, [TokenNext]_tokenVars
             PROVE  SingleFlight' /\ SleepersAreWoken'
  OBVIOUS
<1> USE DEF SingleFlight, SleepersAreWoken, Refreshers, Goto
<1>0. pc \in [Threads -> TokenPlaces]
  BY DEF TokenTypeOK
<1>1. ASSUME NEW t \in Threads, FastPath(t) PROVE SingleFlight' /\ SleepersAreWoken'
  BY <1>0, <1>1 DEF FastPath
<1>2. ASSUME NEW t \in Threads, Returns(t) PROVE SingleFlight' /\ SleepersAreWoken'
  BY <1>0, <1>2 DEF Returns
<1>3. ASSUME NEW t \in Threads, Waits(t) PROVE SingleFlight' /\ SleepersAreWoken'
  BY <1>0, <1>3 DEF Waits
<1>4. ASSUME NEW t \in Threads, GivesUp(t) PROVE SingleFlight' /\ SleepersAreWoken'
  BY <1>0, <1>4 DEF GivesUp
<1>5. ASSUME NEW t \in Threads, TakesOver(t) PROVE SingleFlight' /\ SleepersAreWoken'
  BY <1>0, <1>5 DEF TakesOver
<1>6. ASSUME NEW t \in Threads, Requests(t) PROVE SingleFlight' /\ SleepersAreWoken'
  BY <1>0, <1>6 DEF Requests
<1>7. ASSUME NEW t \in Threads, Stores(t) PROVE SingleFlight' /\ SleepersAreWoken'
  BY <1>0, <1>7 DEF Stores, NotifyAll
<1>8. ASSUME NEW t \in Threads, Fails(t) PROVE SingleFlight' /\ SleepersAreWoken'
  BY <1>0, <1>8 DEF Fails, NotifyAll
<1>9. ASSUME NEW t \in Threads, WaitTimesOut(t) PROVE SingleFlight' /\ SleepersAreWoken'
  BY <1>0, <1>9 DEF WaitTimesOut
<1>10. CASE StoreKey
  BY <1>0, <1>10 DEF StoreKey
<1>11. CASE ClearToken
  BY <1>0, <1>11 DEF ClearToken
<1>12. CASE CancelEdit
  BY <1>0, <1>12 DEF CancelEdit
<1>13. CASE Expire
  BY <1>0, <1>13 DEF Expire
<1>14. CASE UNCHANGED tokenVars
  BY <1>14 DEF tokenVars
<1> QED
  BY <1>1, <1>2, <1>3, <1>4, <1>5, <1>6, <1>7, <1>8, <1>9, <1>10, <1>11,
     <1>12, <1>13, <1>14 DEF TokenNext, Step

(* Every step keeps the keys in order.  A token is cleared either while    *)
(* nobody requests one, or with the overlap recorded.                      *)
LEMMA KeyStep ==
    TokenTypeOK /\ SingleFlight /\ KeyInv /\ [TokenNext]_tokenVars => KeyInv'
<1> SUFFICES ASSUME TokenTypeOK, SingleFlight, KeyInv, [TokenNext]_tokenVars PROVE KeyInv'
  OBVIOUS
<1> USE DEF KeyInv, Goto, userVars, TokenTypeOK
<1>1. ASSUME NEW t \in Threads, FastPath(t) PROVE KeyInv'
  BY <1>1 DEF FastPath
<1>2. ASSUME NEW t \in Threads, Returns(t) PROVE KeyInv'
  BY <1>2 DEF Returns
<1>3. ASSUME NEW t \in Threads, Waits(t) PROVE KeyInv'
  BY <1>3 DEF Waits
<1>4. ASSUME NEW t \in Threads, GivesUp(t) PROVE KeyInv'
  BY <1>4 DEF GivesUp
<1>5. ASSUME NEW t \in Threads, TakesOver(t) PROVE KeyInv'
  BY <1>5 DEF TakesOver
<1>6. ASSUME NEW t \in Threads, Requests(t) PROVE KeyInv'
  BY <1>6 DEF Requests
<1>7. ASSUME NEW t \in Threads, Stores(t) PROVE KeyInv'
  BY <1>7 DEF Stores, NotifyAll
<1>8. ASSUME NEW t \in Threads, Fails(t) PROVE KeyInv'
  BY <1>8 DEF Fails, NotifyAll
<1>9. ASSUME NEW t \in Threads, WaitTimesOut(t) PROVE KeyInv'
  BY <1>9 DEF WaitTimesOut
<1>10. CASE StoreKey
  BY <1>10 DEF StoreKey
<1>11. CASE ClearToken
  BY <1>11 DEF ClearToken, NoToken, SingleFlight, Refreshers
<1>12. CASE CancelEdit
  BY <1>12 DEF CancelEdit
<1>13. CASE Expire
  BY <1>13 DEF Expire
<1>14. CASE UNCHANGED tokenVars
  BY <1>14 DEF tokenVars
<1> QED
  BY <1>1, <1>2, <1>3, <1>4, <1>5, <1>6, <1>7, <1>8, <1>9, <1>10, <1>11,
     <1>12, <1>13, <1>14 DEF TokenNext, Step

(* The inductive invariant holds of every reachable state.                 *)
THEOREM TokenInvariance == TokenSpec => []TokenInv
<1>1. TokenInv /\ [TokenNext]_tokenVars => TokenInv'
  BY TokenTypeStep, FlightStep, KeyStep DEF TokenInv
<1> QED
  BY TokenInitInv, <1>1, PTL DEF TokenSpec

-----------------------------------------------------------------------------
(* Type correctness, for any number of threads.                            *)
THEOREM TokenTypeCorrect == TokenSpec => []TokenTypeOK
<1>1. TokenInv => TokenTypeOK
  BY DEF TokenInv
<1> QED
  BY TokenInvariance, <1>1, PTL

(* However many threads ask for a token, only one requests it, and the     *)
(* flag is never left set.                                                 *)
THEOREM OneRefresh == TokenSpec => []SingleFlight
<1>1. TokenInv => SingleFlight
  BY DEF TokenInv
<1> QED
  BY TokenInvariance, <1>1, PTL

(* No thread sleeps without another that is going to wake it.              *)
THEOREM NoLostWakeup == TokenSpec => []SleepersAreWoken
<1>1. TokenInv => SleepersAreWoken
  BY DEF TokenInv
<1> QED
  BY TokenInvariance, <1>1, PTL

(* A call that follows clear_token never returns a token of an older key,  *)
(* unless a request was under way while the token was cleared.             *)
THEOREM ClearedIsGone == TokenSpec => ClearedTokenIsGone
<1>1. ASSUME TokenInv, [TokenNext]_tokenVars,
             NEW t \in Threads, NEW k \in 0..key, ReturnedKey(t, k), ~overlapped
      PROVE  asked'[t] <= k
  <2> USE <1>1 DEF TokenInv, KeyInv, TokenTypeOK
  <2>1. CASE FastPath(t) /\ token.valid /\ k = token.key
    BY <2>1 DEF FastPath
  <2>2. CASE Returns(t) /\ token.valid /\ k = token.key
    BY <2>2 DEF Returns
  <2>3. CASE Stores(t) /\ k = sent[t]
    BY <2>3 DEF Stores
  <2> QED
    BY <2>1, <2>2, <2>3 DEF ReturnedKey
<1>2. TokenInv /\ [TokenNext]_tokenVars =>
        [\A t \in Threads, k \in 0..key :
           ReturnedKey(t, k) /\ ~overlapped => asked'[t] <= k]_tokenVars
  BY <1>1
<1> QED
  BY TokenInvariance, <1>2, PTL DEF TokenSpec, ClearedTokenIsGone
=============================================================================
