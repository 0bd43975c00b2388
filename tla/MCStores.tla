------------------------------ MODULE MCStores ------------------------------
(***************************************************************************)
(* State kept in two places that no transaction spans: files beside their  *)
(* rows, a board on the page beside the server's, the files that a start   *)
(* moves, backups of the whole installation, the zone of the running       *)
(* service beside the one that is stored, and counts that are read one     *)
(* after the other.  A behaviour exercises one of them.                    *)
(***************************************************************************)
EXTENDS AssetFiles, GameSaves, StorageMove, RestoreScript, PlatformDay, TodayCounts

VARIABLE part

StoresInit ==
    /\ part \in {"assets", "game", "move", "script", "day", "counts"}
    /\ AssetInit /\ PlatformDayInit
    /\ GameInit /\ (part # "game" => row = NoSave /\ ~fenced)
    /\ MoveInit /\ (part # "move" => old = {})
    /\ RestoreInit /\ (part # "script" => dump = <<>>)
    /\ CountInit /\ \A t \in CountedTasks :
          /\ part # "counts" \/ tasksTable[t].done => tasksTable[t].date = Unset
          /\ part # "counts" => ~tasksTable[t].done

AssetsPart == part = "assets" /\ AssetNext
    /\ UNCHANGED <<part, gameVars, moveVars, restoreVars, platformDayVars, countVars>>
GamePart == part = "game" /\ GameNext
    /\ UNCHANGED <<part, assetVars, moveVars, restoreVars, platformDayVars, countVars>>
MovePart == part = "move" /\ MoveNext
    /\ UNCHANGED <<part, assetVars, gameVars, restoreVars, platformDayVars, countVars>>
ScriptPart == part = "script" /\ RestoreNext
    /\ UNCHANGED <<part, assetVars, gameVars, moveVars, platformDayVars, countVars>>
DayPart == part = "day" /\ PlatformDayNext
    /\ UNCHANGED <<part, assetVars, gameVars, moveVars, restoreVars, countVars>>
CountsPart == part = "counts" /\ CountNext
    /\ UNCHANGED <<part, assetVars, gameVars, moveVars, restoreVars, platformDayVars>>
StoresNext == AssetsPart \/ GamePart \/ MovePart \/ ScriptPart \/ DayPart \/ CountsPart

storesVars == <<part, assetVars, gameVars, moveVars, restoreVars, platformDayVars, countVars>>

\* AssetFairness and GameFairness, each in its part.
StoresSpec ==
    /\ StoresInit /\ [][StoresNext]_storesVars
    /\ WF_assetVars(part = "assets" /\ Sweeper)
    /\ \A p \in Tabs : /\ WF_gameVars(part = "game" /\ Loading(p))
                       /\ WF_gameVars(part = "game" /\ Saving(p))
=============================================================================
