----------------------------- MODULE UserFiles -----------------------------
(***************************************************************************)
(* What the program keeps on disk for a user: the rows of the session      *)
(* database, which processes share, the other files of the configuration   *)
(* directory, and the tabs of a window that these rows carry across a      *)
(* restart.                                                                *)
(*                                                                         *)
(* The database and the directory meet once, at a start that finds no      *)
(* database and imports the session of an earlier version; what is         *)
(* imported is saved and loaded like any other session.  The tabs of one   *)
(* window need one process, with rows of its own (SessionRestore).  A      *)
(* behaviour is that of one part, the others standing where they began,    *)
(* and the properties of each are those of its module.                     *)
(***************************************************************************)
EXTENDS StateDb, ConfigDir, SessionRestore

VARIABLE part      \* the part this behaviour is about

vars == <<part, dbVars, configVars, restoreVars>>

Part == {"database", "directory", "session"}

TypeOK == part \in Part /\ DbTypeOK /\ ConfigTypeOK /\ RestoreTypeOK

\* A part the behaviour is not about has one initial state.
Init ==
    /\ part \in Part
    /\ DbInit /\ ConfigInit /\ RestoreInit
    /\ part # "directory" => settingsFile = Default /\ legacy
    /\ part # "session" => persist

Next ==
    \/ part = "database"  /\ DbNext      /\ UNCHANGED <<part, configVars, restoreVars>>
    \/ part = "directory" /\ ConfigNext  /\ UNCHANGED <<part, dbVars, restoreVars>>
    \/ part = "session"   /\ RestoreNext /\ UNCHANGED <<part, dbVars, configVars>>

Spec == Init /\ [][Next]_vars
=============================================================================
