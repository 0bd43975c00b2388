------------------------------ MODULE AppShelf ------------------------------
(***************************************************************************)
(* The nicknames of the apps (shell/App.tsx, shell/AppCenter.tsx).  They   *)
(* are one value of core.settings, read by the shell with every refresh    *)
(* and written whole by the editor of one app, so an edit is as good as    *)
(* the map that the shell showed when it was made.  One page, the only     *)
(* admin's: another page's edits are lost to the last writer by design.    *)
(***************************************************************************)
EXTENDS Integers, FiniteSets

CONSTANTS
    ShelfApps,     \* the apps on the shelf
    Nicknames,     \* what an editor may hold, names and accents alike
    MaxRefreshes,  \* bound: refreshes of the shell after its first load
    MaxPuts,       \* bound: PUTs in flight
    MaxShelfFaults \* bound: requests and answers that fail

Unnamed == "plain" \* no entry: the manifest's own name
NoCard == "none"
ASSUME ShelfAssumption ==
    /\ Unnamed \notin Nicknames /\ NoCard \notin ShelfApps
    /\ MaxRefreshes \in Nat /\ MaxPuts \in Nat /\ MaxShelfFaults \in Nat

VARIABLES
    nicknames, \* the setting apps.presentation
    shelf,     \* the shell: refreshKey, its overrides, its list of apps: asked for, loaded ever, banner
    loads,     \* GETs of that setting: the refresh that sent each, what it read
    editing,   \* the app whose editor is open
    puts,      \* PUTs of the editors: the button that sent each, whether its editor is open, the map
    shelfFaults,
    told       \* history: what the page has been told of its own edits and loads

shelfVars == <<nicknames, shelf, loads, editing, puts, shelfFaults, told>>

Defaults == [a \in ShelfApps |-> Unnamed]
Asked(key) == [key |-> key, read |-> "none", map |-> Defaults]

ShelfInit ==
    /\ nicknames = Defaults
    /\ shelf = [key |-> 0, overrides |-> Defaults, listing |-> TRUE, everLoaded |-> FALSE, banner |-> FALSE]
    /\ loads = {Asked(0)} /\ editing = NoCard /\ puts = {}
    /\ shelfFaults = 0 /\ told = [loaded |-> FALSE, unheard |-> FALSE]

ShelfFault == shelfFaults < MaxShelfFaults /\ shelfFaults' = shelfFaults + 1

(* refreshKey + 1: both effects cancel what they have asked, and ask again. *)
Refreshed ==
    /\ shelf.key < MaxRefreshes
    /\ shelf' = [shelf EXCEPT !.key = @ + 1, !.listing = TRUE]
    /\ loads' = loads \union {Asked(shelf.key + 1)}
    /\ told' = [told EXCEPT !.loaded = FALSE, !.unheard = FALSE]

Retry ==
    /\ shelf.banner /\ Refreshed
    /\ UNCHANGED <<nicknames, editing, puts, shelfFaults>>

(* toggle: an app was switched on or off, and onChanged reads the shelf again. *)
Toggle ==
    /\ shelf.everLoaded /\ Refreshed
    /\ UNCHANGED <<nicknames, editing, puts, shelfFaults>>
-----------------------------------------------------------------------------
(* fetchApps: a list that fails leaves the one on screen, under a banner that offers to retry. *)
AppsArrive ==
    /\ shelf.listing /\ shelf' = [shelf EXCEPT !.listing = FALSE, !.everLoaded = TRUE, !.banner = FALSE]
    /\ UNCHANGED <<nicknames, loads, editing, puts, shelfFaults, told>>
AppsFail ==
    /\ shelf.listing /\ ShelfFault /\ shelf' = [shelf EXCEPT !.listing = FALSE, !.banner = TRUE]
    /\ UNCHANGED <<nicknames, loads, editing, puts, told>>

ServeSetting(l) ==
    /\ l.read = "none" /\ loads' = (loads \ {l}) \union {[l EXCEPT !.read = "ok", !.map = nicknames]}
    /\ UNCHANGED <<nicknames, shelf, editing, puts, shelfFaults, told>>
SettingFails(l) ==
    /\ l.read # "failed" /\ ShelfFault
    /\ loads' = (loads \ {l}) \union {[l EXCEPT !.read = "failed", !.map = Defaults]}
    /\ UNCHANGED <<nicknames, shelf, editing, puts, told>>

NeverCancelled(l) == FALSE
Cancelled(l) == l.key # shelf.key

(* The effect that is mounted takes its answer; a failure gives way to the defaults, and to no banner. *)
SettingArrives(l) ==
    /\ l.read # "none" /\ loads' = loads \ {l}
    /\ IF Cancelled(l) THEN UNCHANGED <<shelf, told>>
       ELSE /\ shelf' = [shelf EXCEPT !.overrides = l.map]
            /\ told' = [told EXCEPT !.loaded = l.read = "ok"]
    /\ UNCHANGED <<nicknames, editing, puts, shelfFaults>>
-----------------------------------------------------------------------------
(* The editor, over the shelf; its two buttons do not wait for each other, nor for an editor that was closed. *)
Busy(b) == \E p \in puts : p.by = b /\ p.open
Leaving(rest) == editing' = NoCard /\ puts' = {[p EXCEPT !.open = FALSE] : p \in rest}

Customize(a) ==
    /\ shelf.everLoaded /\ editing = NoCard /\ editing' = a
    /\ UNCHANGED <<nicknames, shelf, loads, puts, shelfFaults, told>>
CloseCustomizing ==
    /\ editing # NoCard /\ ~Busy("save") /\ Leaving(puts)
    /\ UNCHANGED <<nicknames, shelf, loads, shelfFaults, told>>

(* The whole map goes out, with one entry changed from what the shell shows. *)
putSetting(b, nick) ==
    /\ editing # NoCard /\ ~Busy(b) /\ Cardinality(puts) < MaxPuts
    /\ puts' = puts \union
         {[app |-> editing, by |-> b, open |-> TRUE, map |-> [shelf.overrides EXCEPT ![editing] = nick],
           served |-> FALSE, sound |-> told.loaded /\ ~told.unheard /\ puts = {}]}
    /\ UNCHANGED <<nicknames, shelf, loads, editing, shelfFaults, told>>
save(nick) == putSetting("save", nick)
reset == editing # NoCard /\ shelf.overrides[editing] # Unnamed /\ putSetting("reset", Unnamed)

ServePut(p) ==
    /\ ~p.served /\ nicknames' = p.map
    /\ puts' = {[q EXCEPT !.sound = FALSE] : q \in puts \ {p}} \union {[p EXCEPT !.served = TRUE]}
    /\ UNCHANGED <<shelf, loads, editing, shelfFaults, told>>

(* onSaved closes whichever editor is open by then. *)
Saved(p) ==
    /\ p.served /\ Leaving(puts \ {p}) /\ Refreshed
    /\ UNCHANGED <<nicknames, shelfFaults>>

(* The request or its answer is lost: the editor stays, and nothing is read again. *)
PutFails(p) ==
    /\ ShelfFault /\ puts' = puts \ {p} /\ told' = [told EXCEPT !.unheard = TRUE]
    /\ UNCHANGED <<nicknames, shelf, loads, editing>>

ShelfNext ==
    \/ Retry \/ Toggle \/ AppsArrive \/ AppsFail \/ CloseCustomizing \/ reset
    \/ \E l \in loads : ServeSetting(l) \/ SettingFails(l) \/ SettingArrives(l)
    \/ \E a \in ShelfApps : Customize(a)
    \/ \E nick \in Nicknames \union {Unnamed} : save(nick)
    \/ \E p \in puts : ServePut(p) \/ Saved(p) \/ PutFails(p)

ShelfSpec == ShelfInit /\ [][ShelfNext]_shelfVars
-----------------------------------------------------------------------------
(* The editor changes the nickname of one app (AppCenter.tsx:55): an edit made  *)
(* when every earlier edit had been answered and the refresh it asked for had   *)
(* loaded leaves the nicknames of the other apps as they are, whatever answers  *)
(* of earlier refreshes are still on their way.                                 *)
EditsKeepOthers ==
    [][\A p \in puts :
         p.sound /\ ~p.served /\ [p EXCEPT !.served = TRUE] \in puts' =>
            \A a \in ShelfApps \ {p.app} : nicknames'[a] = nicknames[a]]_shelfVars
=============================================================================
