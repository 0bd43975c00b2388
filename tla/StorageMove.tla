---------------------------- MODULE StorageMove ----------------------------
(***************************************************************************)
(* The move of the files of an installation from before accounts into the  *)
(* owner's storage (core/storage/legacy-move.ts).  It runs at every start, *)
(* before the apps do, until a marker row says that it is over; whatever   *)
(* stops it ends the process, and the next start begins again.             *)
(***************************************************************************)
EXTENDS Integers

CONSTANTS
    MovedApps,    \* directories under storage/apps
    MovedNames,   \* names of files in them
    MaxMoveFaults \* bound: crashes, file system errors and failed queries

VARIABLES
    old,        \* files under storage/apps
    oldRoot,    \* directories under storage/apps, and whether that root exists
    new,        \* each file under the owner's root: "none", "part", "whole", "rewritten"; or it is "absent"
    marker,     \* the row of core.settings
    mover,      \* the step the start stands at
    moving,     \* the apps still to do, the files listed for the first, the one being copied
    moveFaults,
    unread      \* history: files of a directory that could not be listed

moveVars == <<old, oldRoot, new, marker, mover, moving, moveFaults, unread>>

MovedFiles == MovedApps \X MovedNames
NoMove == [apps |-> {}, app |-> {}, files |-> {}, copying |-> {}]

MoveInit ==
    /\ new \in [MovedFiles -> {"absent", "none"}]
    /\ old = {f \in MovedFiles : new[f] = "none"}
    /\ oldRoot = [there |-> old # {}, apps |-> {f[1] : f \in old}]
    /\ marker = FALSE /\ mover = "off" /\ moving = NoMove /\ moveFaults = 0 /\ unread = {}

MoveFault == moveFaults < MaxMoveFaults /\ moveFaults' = moveFaults + 1
At(pc) == mover = pc
Over(pc) == mover' = pc /\ moving' = NoMove

(* A marker that cannot be read counts as absent.  Without a legacy root only the marker is left. *)
BootMove ==
    /\ At("off")
    /\ \/ marker /\ Over("up") /\ UNCHANGED moveFaults
       \/ /\ \/ ~marker /\ UNCHANGED moveFaults
             \/ marker /\ MoveFault
          /\ IF oldRoot.there
               THEN mover' = "list" /\ moving' = [NoMove EXCEPT !.apps = oldRoot.apps]
               ELSE Over("mark")
    /\ UNCHANGED <<old, oldRoot, new, marker, unread>>

(* A directory that cannot be read is listed as empty. *)
FilesOf(apps) == {f \in old : f[1] \in apps}
ListApp(a) ==
    /\ At("list") /\ a \in moving.apps
    /\ \E missed \in SUBSET FilesOf({a}) :
          /\ IF missed = {} THEN UNCHANGED moveFaults ELSE MoveFault
          /\ unread' = unread \union missed
          /\ moving' = [moving EXCEPT !.app = {a}, !.files = FilesOf({a}) \ missed]
    /\ mover' = "move"
    /\ UNCHANGED <<old, oldRoot, new, marker>>

(* rename replaces what a former start left; another device needs a copy, then an unlink. *)
Rename(f) ==
    /\ At("move") /\ f \in moving.files /\ moving.copying = {}
    /\ old' = old \ {f} /\ new' = [new EXCEPT ![f] = "whole"]
    /\ moving' = [moving EXCEPT !.files = @ \ {f}]
    /\ UNCHANGED <<oldRoot, marker, mover, moveFaults, unread>>

Copy(f) ==
    /\ At("move") /\ f \in moving.files /\ moving.copying \in {{}, {f}}
    /\ new' = [new EXCEPT ![f] = IF moving.copying = {} THEN "part" ELSE "whole"]
    /\ moving' = [moving EXCEPT !.copying = {f}]
    /\ UNCHANGED <<old, oldRoot, marker, mover, moveFaults, unread>>

UnlinkOld(f) ==
    /\ At("move") /\ moving.copying = {f} /\ new[f] = "whole"
    /\ old' = old \ {f}
    /\ moving' = [moving EXCEPT !.files = @ \ {f}, !.copying = {}]
    /\ UNCHANGED <<oldRoot, new, marker, mover, moveFaults, unread>>

(* The tree of the app goes with whatever is left in it, and the root after the last one. *)
RemoveTree ==
    /\ At("move") /\ moving.files = {}
    /\ old' = old \ FilesOf(moving.app)
    /\ oldRoot' = [oldRoot EXCEPT !.apps = @ \ moving.app]
    /\ moving' = [NoMove EXCEPT !.apps = moving.apps \ moving.app]
    /\ mover' = "list"
    /\ UNCHANGED <<new, marker, moveFaults, unread>>

RemoveRoot ==
    /\ At("list") /\ moving.apps = {}
    /\ old' = {} /\ oldRoot' = [there |-> FALSE, apps |-> {}] /\ Over("mark")
    /\ UNCHANGED <<new, marker, moveFaults, unread>>

SetMarker ==
    /\ At("mark") /\ marker' = TRUE /\ Over("up")
    /\ UNCHANGED <<old, oldRoot, new, moveFaults, unread>>

(* An error skips the file. *)
FileSkipped ==
    \/ /\ mover = "move" /\ MoveFault /\ moving.files # {}
       /\ \E f \in moving.files : moving' = [moving EXCEPT !.files = @ \ {f}, !.copying = {}]
       /\ UNCHANGED <<old, oldRoot, new, marker, mover, unread>>
    \/ /\ mover \in {"list", "mark"} /\ MoveFault /\ Over("off")
       /\ UNCHANGED <<old, oldRoot, new, marker, unread>>

(* A call that fails is fatal, and so is a crash. *)
MoveFails ==
    /\ mover \in {"list", "move", "mark"} /\ MoveFault /\ Over("off")
    /\ UNCHANGED <<old, oldRoot, new, marker, unread>>

Restart ==
    /\ At("up") /\ MoveFault /\ Over("off")
    /\ UNCHANGED <<old, oldRoot, new, marker, unread>>

(* The apps run: one replaces its file. *)
Rewrite(f) ==
    /\ At("up") /\ new[f] = "whole"
    /\ new' = [new EXCEPT ![f] = "rewritten"]
    /\ UNCHANGED <<old, oldRoot, marker, mover, moving, moveFaults, unread>>

MoveNext ==
    \/ BootMove \/ RemoveTree \/ RemoveRoot \/ SetMarker \/ MoveFails \/ Restart
    \/ \E a \in MovedApps : ListApp(a)
    \/ \E f \in MovedFiles : Rename(f) \/ Copy(f) \/ UnlinkOld(f) \/ Rewrite(f)

MoveSpec == MoveInit /\ [][MoveNext]_moveVars
-----------------------------------------------------------------------------
(* legacy-move.ts:11: no start that stops anywhere loses a file.  Each file   *)
(* is whole in one of the two places, and when the apps start it is in the    *)
(* owner's (a boot sweep that misses a file drops its row), and none is left  *)
(* behind that a later start could move over one the owner has replaced.      *)
(* Files of a directory that could not be listed are the exception: line 29   *)
(* swallows that error and line 107 removes them.                             *)
FilesMoved ==
    \A f \in MovedFiles \ unread :
        \/ new[f] \in {"absent", "whole"}
        \/ new[f] = "rewritten" /\ f \notin old
        \/ f \in old /\ ~At("up")
=============================================================================
