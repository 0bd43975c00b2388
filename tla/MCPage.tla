------------------------------- MODULE MCPage -------------------------------
(***************************************************************************)
(* The page: its sync controller, the record editors, the focus views, the *)
(* board of the game, the dashboard, its session, the nicknames of the apps *)
(* the filtered lists and the alarms.  They share one document and none of *)
(* their state, so a behaviour exercises one part.                         *)
(***************************************************************************)
EXTENDS SyncPage, RecordEditor, Tiles2048, FocusView, DashboardLayout, PageSession,
    AppShelf, FilteredList, AlarmClock

VARIABLE part

MCLinks == {Plain, [q |-> "w1", labels |-> {"l1"}, facet |-> "odd", order |-> "unset"]}
MCTables == {{}, {[text |-> "w1", labels |-> {"l1"}, facet |-> TRUE]}}

\* An alarm of the last minute of a day, and one of the first minute of every other day.
MCSchedules == {<<1, {}>>, <<0, {1}>>}

PageInit ==
    /\ part \in {"sync", "editor", "tiles", "focus", "alerts", "dashboard", "session", "shelf", "list",
                "alarms"}
    /\ SyncPageInit /\ EditorInit /\ FocusViewInit /\ AlertsInit /\ SessionInit /\ ShelfInit /\ ListInit
    /\ part # "sync" => server = [rev |-> 1, auto |-> FALSE, boot |-> FALSE]
    /\ IF part = "tiles" THEN TilesInit ELSE tiles = {}
    /\ IF part = "dashboard" THEN LayoutInit ELSE LayoutAtRest
    /\ part # "alerts" => permission = "default"
    /\ part # "session" => sessions = <<>>
    /\ AlarmInit /\ (part # "alarms" => \A a \in Alarms : alarm[a] = NoAlarm)
    /\ part = "list" => (table = {} <=> listPage # "items")
    /\ part # "list" => listPage = "notes" /\ queued = Opened(Plain) /\ table = {}

SyncPart == part = "sync" /\ SyncPageNext
    /\ UNCHANGED <<part, editorVars, tiles, focusViewVars, alertVars, layoutVars, sessionVars, shelfVars, listVars, alarmVars>>
EditorPart == part = "editor" /\ EditorNext
    /\ UNCHANGED <<part, syncPageVars, tiles, focusViewVars, alertVars, layoutVars, sessionVars, shelfVars, listVars, alarmVars>>
TilesPart == part = "tiles" /\ TilesNext
    /\ UNCHANGED <<part, syncPageVars, editorVars, focusViewVars, alertVars, layoutVars, sessionVars, shelfVars, listVars, alarmVars>>
FocusPart == part = "focus" /\ FocusViewNext
    /\ UNCHANGED <<part, syncPageVars, editorVars, tiles, alertVars, layoutVars, sessionVars, shelfVars, listVars, alarmVars>>
AlertsPart == part = "alerts" /\ AlertsNext
    /\ UNCHANGED <<part, syncPageVars, editorVars, tiles, focusViewVars, layoutVars, sessionVars, shelfVars, listVars, alarmVars>>
DashboardPart == part = "dashboard" /\ LayoutNext
    /\ UNCHANGED <<part, syncPageVars, editorVars, tiles, focusViewVars, alertVars, sessionVars, shelfVars, listVars, alarmVars>>
SessionPart == part = "session" /\ SessionNext
    /\ UNCHANGED <<part, syncPageVars, editorVars, tiles, focusViewVars, alertVars, layoutVars, shelfVars, listVars, alarmVars>>
ShelfPart == part = "shelf" /\ ShelfNext
    /\ UNCHANGED <<part, syncPageVars, editorVars, tiles, focusViewVars, alertVars, layoutVars, sessionVars, listVars, alarmVars>>

ListPart == part = "list" /\ ListNext
    /\ UNCHANGED <<part, syncPageVars, editorVars, tiles, focusViewVars, alertVars, layoutVars, sessionVars, shelfVars, alarmVars>>

AlarmsPart == part = "alarms" /\ AlarmNext
    /\ UNCHANGED <<part, syncPageVars, editorVars, tiles, focusViewVars, alertVars, layoutVars, sessionVars, shelfVars,
                   listVars>>

PageNext ==
    \/ SyncPart \/ EditorPart \/ TilesPart \/ FocusPart \/ AlertsPart \/ DashboardPart \/ SessionPart \/ ShelfPart
    \/ ListPart \/ AlarmsPart
PageSpec ==
    /\ PageInit
    /\ [][PageNext]_<<part, syncPageVars, editorVars, tiles, focusViewVars, alertVars, layoutVars, sessionVars,
                   shelfVars, listVars, alarmVars>>
=============================================================================
