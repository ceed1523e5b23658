----------------------------- MODULE ConfigDir -----------------------------
(***************************************************************************)
(* The files of the configuration directory other than the rows of the     *)
(* database: settings.json with its backup and temporary files, and the    *)
(* document of earlier versions that is imported when the database is      *)
(* created.  Processes start, read them, change them and may end at any    *)
(* moment; the windows of a process keep copies of the settings that an    *)
(* observer of the shared state brings up to date.                         *)
(*                                                                         *)
(* The settings are a number with a range, standing for every option of    *)
(* the settings pages, and the recent files.  The key pairs and the log    *)
(* level are left out, and so is what the theme does to the screen.        *)
(***************************************************************************)
EXTENDS Integers, Sequences, SequencesExt

CONSTANTS
    Process,      \* the processes that may run at the same time
    Window,       \* windows of a process
    RecentFile,   \* files the user may open
    MaxRecent,    \* max_files of the recent files
    MaxChanges,   \* bound: changes of settings by the user
    MaxLaunches,  \* bound: launches of a process
    MaxFaults     \* bound: failed calls, killed processes, edits by hand

ASSUME ConfigDirAssumption ==
    /\ MaxRecent \in Nat /\ MaxChanges \in Nat
    /\ MaxLaunches \in Nat /\ MaxFaults \in Nat

VARIABLES
    settingsFile, \* settings.json: settings, Torn or NoFile
    backup,       \* settings.json.bak
    temp,         \* the processes whose temporary file is there
    legacy,       \* state.json or its backup is there and can be read
    stateDb,      \* state.db exists
    imports,      \* imports of the legacy document into state.db
    proc,         \* per process: where it is, its copies of the settings,
                  \* the save it is in and whether it found no state.db
    budget,       \* what is left of the three bounds
    untouched,    \* history: the processes whose saves all succeeded and
                  \* whose settings.json nobody else changed
    interrupted,  \* history: a start that found no database failed or was cut
                  \* short when there was one
    overlapped    \* history: two such starts were under way at one time

dirVars == <<settingsFile, backup, temp, legacy, stateDb, imports>>
startHistory == <<interrupted, overlapped>>
configVars == <<dirVars, proc, budget, untouched, startHistory>>

\* What stands where settings would: no file, a damaged file, no window.
NoFile == [size |-> -1, recent |-> <<>>]
Torn == [size |-> -2, recent |-> <<>>]
Shut == [size |-> -3, recent |-> <<>>]
NoSave == [step |-> "none"]

\* FONT_SIZE_MIN to TAB_SIZE_MAX of persistence.rs, the narrower range the
\* settings page offers, and what else may be found in an edited file.
Valid == 1 .. 3
Offered == 2 .. 3
ByHand == {0, 4}

Clamp(n, S) == CHOOSE v \in S : \A u \in S : (v - n) * (v - n) <= (u - n) * (u - n)

RecentLists == UNION {[1 .. n -> RecentFile] : n \in 0 .. MaxRecent}
Settings == [size : Valid, recent : RecentLists]
Default == [size |-> 2, recent |-> <<>>]

Down == [phase |-> "down", shared |-> Default, win |-> [w \in Window |-> Shut],
         save |-> NoSave, newDb |-> FALSE]

\* The user interface of a process handles something only between saves.
Idle(p) == proc[p].phase = "running" /\ proc[p].save = NoSave
OpenWindows(p) == {w \in Window : proc[p].win[w] # Shut}
Spend(what) == budget[what] > 0 /\ budget' = [budget EXCEPT ![what] = @ - 1]

ConfigInit ==
    /\ settingsFile \in {NoFile, Default}
    /\ backup = NoFile
    /\ temp = {}
    /\ legacy \in BOOLEAN
    /\ stateDb = FALSE
    /\ imports = 0
    /\ proc = [p \in Process |-> Down]
    /\ budget = [changes |-> MaxChanges, launches |-> MaxLaunches, faults |-> MaxFaults]
    /\ untouched = {}
    /\ interrupted = FALSE /\ overlapped = FALSE

-----------------------------------------------------------------------------
(* Starting. *)

\* validate clamps what the settings page could not have written.
Validated(s) == [s EXCEPT !.size = Clamp(@, Valid)]

\* Settings::load: the backup stands in for a damaged file, not for a missing
\* one; then and when both are damaged main takes the defaults.
Loaded ==
    IF settingsFile \notin {NoFile, Torn} THEN Validated(settingsFile)
    ELSE IF settingsFile = Torn /\ backup \notin {NoFile, Torn} THEN Validated(backup)
    ELSE Default

\* main: the temporary files of any process are swept away, then the settings
\* are read.
Launch(p) ==
    /\ proc[p].phase = "down" /\ Spend("launches")
    /\ temp' = {}
    /\ proc' = [proc EXCEPT ![p] = [Down EXCEPT !.phase = "starting", !.shared = Loaded]]
    /\ untouched' = IF settingsFile \in {NoFile, Torn} THEN untouched \ {p}
                    ELSE untouched \union {p}
    /\ UNCHANGED <<settingsFile, backup, legacy, stateDb, imports, startHistory>>

\* A Windows launch that hands its files to the running process ends here.
HandOver(p) ==
    /\ proc[p].phase = "starting"
    /\ proc' = [proc EXCEPT ![p] = Down]
    /\ UNCHANGED <<dirVars, budget, untouched, startHistory>>

\* p is between looking for the database and importing what it lacks.
Importing(p) == proc[p].newDb

\* Mutant: the question is asked of the database just opened.
LookForDbOpened(p) ==
    /\ proc[p].phase = "starting"
    /\ proc' = [proc EXCEPT ![p].phase = "opening", ![p].newDb = FALSE]
    /\ UNCHANGED <<dirVars, budget, untouched, startHistory>>

\* load_with_db: whether there is a database is asked before it is opened.
LookForDb(p) ==
    /\ proc[p].phase = "starting"
    /\ proc' = [proc EXCEPT ![p].phase = "opening", ![p].newDb = ~stateDb]
    /\ overlapped' = \/ overlapped
                     \/ ~stateDb /\ \E q \in Process : Importing(q)
    /\ UNCHANGED <<dirVars, budget, untouched, interrupted>>

\* The first window of the session; the others open in ShowWindow.
Started(p) ==
    [proc EXCEPT ![p].phase = "running", ![p].newDb = FALSE,
                 ![p].win[CHOOSE w \in Window : TRUE] = proc[p].shared]

\* open_or_fallback.  The file is created before the pragmas and the migration,
\* and stays when one of them fails and a database in memory takes its place.
OpenDb(p) ==
    /\ proc[p].phase = "opening"
    /\ stateDb' = TRUE
    /\ proc' = IF proc[p].newDb THEN [proc EXCEPT ![p].phase = "importing"] ELSE Started(p)
    /\ UNCHANGED <<settingsFile, backup, temp, legacy, imports, budget, untouched, startHistory>>

OpenDbFails(p) ==
    /\ proc[p].phase = "opening" /\ Spend("faults")
    /\ stateDb' \in {stateDb, TRUE}
    /\ proc' = Started(p)
    /\ interrupted' = (interrupted \/ (proc[p].newDb /\ stateDb'))
    /\ UNCHANGED <<settingsFile, backup, temp, legacy, imports, untouched, overlapped>>

\* import_legacy_json: read, given identities and applied, in one transaction
\* and leaving the document where it is.
ImportLegacy(p) ==
    /\ proc[p].phase = "importing"
    /\ imports' = imports + (IF legacy THEN 1 ELSE 0)
    /\ proc' = Started(p)
    /\ UNCHANGED <<settingsFile, backup, temp, legacy, stateDb, budget, untouched, startHistory>>

ImportFails(p) ==
    /\ proc[p].phase = "importing" /\ Spend("faults")
    /\ proc' = Started(p)
    /\ interrupted' = TRUE
    /\ UNCHANGED <<dirVars, untouched, overlapped>>

-----------------------------------------------------------------------------
(* Saving: the user interface does nothing else until it is done. *)

\* A change of the copy of window w and the save of that copy.
SaveFrom(p, w, settings, publish) ==
    /\ Idle(p) /\ proc[p].win[w] # Shut
    /\ Spend("changes")
    /\ proc' = [proc EXCEPT ![p].win[w] = settings,
                  ![p].save = [step |-> IF settingsFile = NoFile THEN "writing" ELSE "copying",
                               from |-> w, publish |-> publish]]
    /\ UNCHANGED <<dirVars, untouched, startHistory>>

\* A setter of the settings pages; a number field clamps what is typed, which
\* need not be near the number shown.
ChangeOption(p, w) ==
    \E n \in Offered : SaveFrom(p, w, [proc[p].win[w] EXCEPT !.size = n], TRUE)

\* Settings::add_file, when a file was opened: saved, not propagated.
WithRecent(list, f) ==
    LET longer == Append(Remove(list, f), f)
    IN  IF Len(longer) > MaxRecent THEN Tail(longer) ELSE longer

AddFile(p, w) ==
    \E f \in RecentFile :
        SaveFrom(p, w, [proc[p].win[w] EXCEPT !.recent = WithRecent(@, f)], FALSE)

ClearRecentFiles(p, w) == SaveFrom(p, w, [proc[p].win[w] EXCEPT !.recent = <<>>], TRUE)

\* save_to_path: the backup is copied in place, and a failure is only logged.
CopyBackup(p) ==
    /\ proc[p].save.step = "copying"
    /\ \/ backup' = settingsFile /\ UNCHANGED budget
       \/ backup' \in {backup, Torn} /\ Spend("faults")
    /\ proc' = [proc EXCEPT ![p].save.step = "writing"]
    /\ UNCHANGED <<settingsFile, temp, legacy, stateDb, imports, untouched, startHistory>>

\* atomic_write_file: a temporary file beside the target, then a rename.
WriteTemp(p) ==
    /\ proc[p].save.step = "writing"
    /\ temp' = temp \union {p}
    /\ proc' = [proc EXCEPT ![p].save.step = "renaming"]
    /\ UNCHANGED <<settingsFile, backup, legacy, stateDb, imports, budget, untouched, startHistory>>

\* Mutant: the other windows do not hear of it.
ObservedBySaver(p, settings) == proc[p].win

\* The observers of the shared settings: every window takes them.
Observed(p, settings) ==
    [w \in Window |-> IF proc[p].win[w] = Shut THEN Shut ELSE settings]

\* What is being saved: the copy of the window that changed it.
Saved(p) == proc[p].win[proc[p].save.from]

\* update_and_propagate_settings after the save; add_file does nothing more.
Rename(p) ==
    LET settings == Saved(p)
        publish == proc[p].save.publish
    IN  /\ proc[p].save.step = "renaming" /\ p \in temp
        /\ settingsFile' = settings
        /\ temp' = temp \ {p}
        /\ proc' = [proc EXCEPT ![p].save = NoSave,
                        ![p].shared = IF publish THEN settings ELSE @,
                        ![p].win = IF publish THEN Observed(p, settings) ELSE @]
        /\ untouched' = untouched \intersect {p}
        /\ UNCHANGED <<backup, legacy, stateDb, imports, budget, startHistory>>

\* The write or the rename fails, or another launch swept the temporary file
\* away, or only the directory could not be synchronized; in each case the
\* function returns before it publishes.
SettingsSaveFails(p) ==
    /\ proc[p].save.step \in {"writing", "renaming"}
    /\ \/ Spend("faults") /\ settingsFile' \in
              IF p \in temp THEN {settingsFile, Saved(p)} ELSE {settingsFile}
       \/ proc[p].save.step = "renaming" /\ p \notin temp /\ UNCHANGED <<budget, settingsFile>>
    /\ temp' = temp \ {p}
    /\ proc' = [proc EXCEPT ![p].save = NoSave]
    /\ untouched' = IF settingsFile' = settingsFile THEN untouched \ {p} ELSE {}
    /\ UNCHANGED <<backup, legacy, stateDb, imports, startHistory>>

-----------------------------------------------------------------------------
(* Windows, other changes, and the end of a process. *)

ShowWindow(p) ==
    \E w \in Window \ OpenWindows(p) :
        /\ Idle(p)
        /\ proc' = [proc EXCEPT ![p].win[w] = proc[p].shared]
        /\ UNCHANGED <<dirVars, budget, untouched, startHistory>>

HideWindow(p) ==
    \E w \in OpenWindows(p) :
        /\ Idle(p)
        /\ proc' = IF OpenWindows(p) = {w} THEN [proc EXCEPT ![p] = Down]
                   ELSE [proc EXCEPT ![p].win[w] = Shut]
        /\ UNCHANGED <<dirVars, budget, untouched, startHistory>>

\* reload_themes_and_update changes the shared state too, and each window that
\* differs from the shared settings takes them.
ReloadThemes(p) ==
    /\ Idle(p)
    /\ proc' = [proc EXCEPT ![p].win = Observed(p, proc[p].shared)]
    /\ UNCHANGED <<dirVars, budget, untouched, startHistory>>

\* A killed process leaves its temporary file, and a torn copy of the backup.
Crash(p) ==
    /\ proc[p].phase # "down" /\ Spend("faults")
    /\ backup' \in IF proc[p].save.step = "copying" THEN {backup, Torn} ELSE {backup}
    /\ proc' = [proc EXCEPT ![p] = Down]
    /\ interrupted' = (interrupted \/ (proc[p].newDb /\ stateDb))
    /\ UNCHANGED <<settingsFile, temp, legacy, stateDb, imports, untouched, overlapped>>

\* The user edits settings.json: another number, or no JSON any more.
EditByHand ==
    /\ settingsFile \notin {NoFile, Torn} /\ Spend("faults")
    /\ \/ \E n \in ByHand : settingsFile' = [settingsFile EXCEPT !.size = n]
       \/ settingsFile' = Torn
    /\ untouched' = {}
    /\ UNCHANGED <<backup, temp, legacy, stateDb, imports, proc, startHistory>>

-----------------------------------------------------------------------------
StartStep(p) ==
    \/ Launch(p) \/ HandOver(p) \/ LookForDb(p) \/ OpenDb(p) \/ OpenDbFails(p)
    \/ ImportLegacy(p) \/ ImportFails(p)

SettingsStep(p) ==
    \/ \E w \in Window : ChangeOption(p, w) \/ AddFile(p, w) \/ ClearRecentFiles(p, w)
    \/ CopyBackup(p) \/ WriteTemp(p) \/ Rename(p) \/ SettingsSaveFails(p)

ConfigNext ==
    \/ \E p \in Process :
          \/ StartStep(p) \/ SettingsStep(p)
          \/ ShowWindow(p) \/ HideWindow(p) \/ ReloadThemes(p) \/ Crash(p)
    \/ EditByHand

ConfigSpec == ConfigInit /\ [][ConfigNext]_configVars

-----------------------------------------------------------------------------
ConfigTypeOK ==
    /\ settingsFile \in [size : Valid \union ByHand, recent : RecentLists] \union {NoFile, Torn}
    /\ backup \in [size : Valid \union ByHand, recent : RecentLists] \union {NoFile, Torn}
    /\ temp \subseteq Process
    /\ legacy \in BOOLEAN
    /\ stateDb \in BOOLEAN
    /\ imports \in 0 .. MaxLaunches
    /\ \A p \in Process :
          /\ proc[p].phase \in {"down", "starting", "opening", "importing", "running"}
          /\ proc[p].shared \in Settings
          /\ \A w \in Window : proc[p].win[w] \in Settings \union {Shut}
          /\ proc[p].save \in {NoSave} \union
                [step : {"copying", "writing", "renaming"}, from : Window, publish : BOOLEAN]
    /\ untouched \subseteq Process /\ interrupted \in BOOLEAN /\ overlapped \in BOOLEAN

\* "Every window (including this one) observes the global" (propagation.rs): as
\* long as the saves of a process succeed and nobody else writes the file, what
\* any of its windows shows is what the next launch would load, whichever
\* windows saved, opened, closed or were reset by an observer in between.
ShownIsStored ==
    \A p \in untouched :
        Idle(p) => /\ \A w \in OpenWindows(p) : proc[p].win[w].size = Loaded.size
                   /\ proc[p].shared.size = Loaded.size

\* What update_and_propagate_settings says of itself ("The shared state update and
\* re-render still happen even when saving fails", propagation.rs:20), and the code
\* does not do: it returns the error first.
SharedEvenIfNotSaved ==
    [][\A p \in Process :
          /\ proc[p].save # NoSave /\ proc[p].save.publish
          /\ proc'[p].phase = "running" /\ proc'[p].save = NoSave
          => proc'[p].shared = Saved(p)]_configVars

\* The import is decided by whether state.db is there.  Once it is and nobody is
\* about to import, a readable session of an earlier version was imported, and
\* once.  A start that fails or is killed before the file is created loses
\* nothing, the next one imports; one that does so after (the import is not tried
\* again) is the only way to lose the session, whoever overlaps.  Two starts that
\* both find no file are the only way to import it twice, whoever is killed.
LegacyImportedOnce ==
    stateDb /\ ~(\E p \in Process : Importing(p)) =>
        /\ legacy /\ imports = 0 => interrupted
        /\ imports > 1 => overlapped
=============================================================================
