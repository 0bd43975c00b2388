----------------------------- MODULE MCBackend -----------------------------
(***************************************************************************)
(* The parts of the backend: the platform, the apps, the backups, the      *)
(* accounts, and what sync does with files and with records that refer to  *)
(* each other.  They share the database and nothing that a property here   *)
(* depends on, except the write fence, so a behaviour exercises one part.  *)
(***************************************************************************)
EXTENDS AppLifecycle, FocusSession, LinkedRecords, TaskRecords, ClockRecords, Backups, SnapshotMerge,
        Accounts, SyncFiles, SyncGraph, TLC

CONSTANTS x1, x2, y1, y2, n1

VARIABLE part

linkRest == <<app, text, tagRow, link, notePage, posting, theirs, blind>>
taskRest == <<task, taskPage, untold>>
clockRest == <<place, foreign, settings, clockPage, overwrote>>
backendVars == <<part, lifecycleVars, focusVars, fenced, linkRest, taskRest, clockRest, backupVars, mergeVars,
                 accountVars, filesVars, graphVars>>

BackendInit ==
    /\ part \in {"platform", "focus", "links", "tasks", "clocks", "backups", "merge", "accounts",
                 "files", "graph"}
    /\ Init /\ FocusInit /\ LinkedInit /\ TaskInit /\ ClockInit /\ BackupInit /\ MergeInit /\ AccountsInit
    /\ FilesInit /\ GraphInit
    /\ part # "links" => app = "notes"
    /\ part # "accounts" => DOMAIN users # {}
    /\ part # "files" => clouds = NoContent
    /\ part # "graph" => head.rows = NoRows /\ \A d \in Devices : joined[d]

\* Only the variables of the part change.
OthersRest ==
    /\ UNCHANGED part
    /\ IF part = "platform" THEN TRUE ELSE UNCHANGED lifecycleVars
    /\ IF part = "focus" THEN TRUE ELSE UNCHANGED focusVars
    /\ IF part \in {"links", "tasks", "clocks"} THEN TRUE ELSE UNCHANGED fenced
    /\ IF part = "links" THEN TRUE ELSE UNCHANGED linkRest
    /\ IF part = "tasks" THEN TRUE ELSE UNCHANGED taskRest
    /\ IF part = "clocks" THEN TRUE ELSE UNCHANGED clockRest
    /\ IF part = "backups" THEN TRUE ELSE UNCHANGED backupVars
    /\ IF part = "merge" THEN TRUE ELSE UNCHANGED mergeVars
    /\ IF part = "accounts" THEN TRUE ELSE UNCHANGED accountVars
    /\ IF part = "files" THEN TRUE ELSE UNCHANGED filesVars
    /\ IF part = "graph" THEN TRUE ELSE UNCHANGED graphVars

Platform == part = "platform" /\ LifecycleNext /\ OthersRest
Focus == part = "focus" /\ FocusNext /\ OthersRest
Links == part = "links" /\ LinkedNext /\ OthersRest
TasksPart == part = "tasks" /\ TaskNext /\ OthersRest
ClocksPart == part = "clocks" /\ ClockNext /\ OthersRest
BackupsPart == part = "backups" /\ BackupNext /\ OthersRest
Merging == part = "merge" /\ MergeNext /\ OthersRest
AccountsPart == part = "accounts" /\ AccountsNext /\ OthersRest
FilesPart == part = "files" /\ FilesNext /\ OthersRest
GraphPart == part = "graph" /\ GraphNext /\ OthersRest

BackendNext == Platform \/ Focus \/ Links \/ TasksPart \/ ClocksPart \/ BackupsPart \/ Merging \/ AccountsPart
               \/ FilesPart \/ GraphPart
BackendSpec == BackendInit /\ [][BackendNext]_backendVars

Interchangeable == Permutations({x1, x2}) \cup Permutations({y1, y2})
=============================================================================
