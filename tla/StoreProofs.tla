---------------------------- MODULE StoreProofs -----------------------------
(***************************************************************************)
(* State that no one transaction spans, for any number of files, requests, *)
(* alarms and faults: attachments beside their rows, the files a start     *)
(* moves, alarms beside the page that rings them, counts read one after    *)
(* the other, the day of the zone that is set, a restore of the whole      *)
(* installation.                                                           *)
(***************************************************************************)
EXTENDS StorageMove, AssetFiles, AlarmClock, RestoreScript, TodayCounts, PlatformDay, TLAPS,
        WellFoundedInduction

-----------------------------------------------------------------------------
(***************************************************************************)
(* The move of the files of an old installation.                           *)
(***************************************************************************)
MoveTypeOK ==
    /\ new \in [MovedFiles -> {"absent", "none", "part", "whole", "rewritten"}]
    /\ old \in SUBSET MovedFiles
    /\ oldRoot \in [there : BOOLEAN, apps : SUBSET MovedApps]
    /\ marker \in BOOLEAN
    /\ mover \in {"off", "list", "move", "mark", "up"}
    /\ moving \in [apps : SUBSET MovedApps, app : SUBSET MovedApps, files : SUBSET MovedFiles,
                   copying : SUBSET MovedFiles]

\* What is still in the old place is under a directory that the move still has to do.
OldInSight ==
    /\ \A f \in old : f[1] \in oldRoot.apps
    /\ mover \in {"list", "move"} => \A f \in old : f[1] \in moving.apps
    /\ mover = "move" => /\ moving.files \subseteq old
                         /\ \A f \in old : f[1] \in moving.app => f \in moving.files \cup unread

\* The old place is empty once its root is gone, and so when the marker is left and the apps run.
OldEmptied == ~oldRoot.there \/ marker \/ mover \in {"mark", "up"} => old = {}

\* A file that is not whole in the new place is still in the old one.
NotYetWhole ==
    \A f \in MovedFiles :
        /\ new[f] \in {"none", "part"} => f \in old \cup unread
        /\ new[f] = "rewritten" => f \notin old

MoveInv == MoveTypeOK /\ OldInSight /\ OldEmptied /\ NotYetWhole

\* The move stops, wherever it stands.
LEMMA MoveStops ==
    ASSUME MoveInv, mover' = "off", moving' = NoMove, UNCHANGED <<old, oldRoot, new, marker, unread>>
    PROVE  MoveInv'
BY DEF MoveInv, MoveTypeOK, OldInSight, OldEmptied, NotYetWhole, NoMove

\* A start finds the root, or leaves the marker.
LEMMA BootMoveKeeps == ASSUME MoveInv, BootMove PROVE MoveInv'
BY DEF BootMove, At, Over, MoveInv, MoveTypeOK, OldInSight, OldEmptied, NotYetWhole, NoMove

\* The files of a directory are listed, all but those that are missed.
LEMMA ListAppKeeps == ASSUME MoveInv, NEW a \in MovedApps, ListApp(a) PROVE MoveInv'
<1>1. PICK missed \in SUBSET FilesOf({a}) :
        /\ unread' = unread \cup missed
        /\ moving' = [moving EXCEPT !.app = {a}, !.files = FilesOf({a}) \ missed]
  BY DEF ListApp
<1>2. /\ moving'.apps = moving.apps /\ moving'.app = {a} /\ moving'.copying = moving.copying
      /\ moving'.files = {f \in old : f[1] = a} \ missed /\ missed \subseteq old
  BY <1>1 DEF FilesOf, MoveInv, MoveTypeOK
<1>3. mover = "list" /\ mover' = "move" /\ UNCHANGED <<old, oldRoot, new, marker>>
  BY DEF ListApp, At
<1>4. MoveTypeOK'
  <2>1. FilesOf({a}) \ missed \in SUBSET MovedFiles
    BY DEF FilesOf, MoveInv, MoveTypeOK
  <2>2. moving' \in [apps : SUBSET MovedApps, app : SUBSET MovedApps, files : SUBSET MovedFiles,
                     copying : SUBSET MovedFiles]
    BY <1>1, <2>1 DEF MoveInv, MoveTypeOK
  <2> QED BY <1>3, <2>2 DEF MoveInv, MoveTypeOK
<1>5. OldInSight'
  BY <1>1, <1>2, <1>3 DEF MoveInv, OldInSight
<1> QED BY <1>1, <1>3, <1>4, <1>5 DEF MoveInv, OldEmptied, NotYetWhole

\* A file is renamed, copied or unlinked: it leaves the old place when it is whole in the new one.
LEMMA FileMoveKeeps ==
    ASSUME MoveInv, NEW f \in MovedFiles, Rename(f) \/ Copy(f) \/ UnlinkOld(f)
    PROVE  MoveInv'
<1>1. CASE Rename(f)
  BY <1>1 DEF Rename, At, MoveInv, MoveTypeOK, OldInSight, OldEmptied, NotYetWhole
<1>2. CASE Copy(f)
  BY <1>2 DEF Copy, At, MoveInv, MoveTypeOK, OldInSight, OldEmptied, NotYetWhole
<1>3. CASE UnlinkOld(f)
  BY <1>3 DEF UnlinkOld, At, MoveInv, MoveTypeOK, OldInSight, OldEmptied, NotYetWhole
<1> QED BY <1>1, <1>2, <1>3

\* A tree is removed with the files that were missed, and the root when no tree is left.
LEMMA RemovalKeeps == ASSUME MoveInv, RemoveTree \/ RemoveRoot PROVE MoveInv'
<1>1. CASE RemoveTree
  BY <1>1 DEF RemoveTree, At, FilesOf, NoMove, MoveInv, MoveTypeOK, OldInSight, OldEmptied, NotYetWhole
<1>2. CASE RemoveRoot
  BY <1>2 DEF RemoveRoot, At, Over, NoMove, MoveInv, MoveTypeOK, OldInSight, OldEmptied, NotYetWhole
<1> QED BY <1>1, <1>2

\* Every step of the move, of a start and of the apps keeps the invariant.
LEMMA MoveInvKept == MoveInv /\ [MoveNext]_moveVars => MoveInv'
<1> SUFFICES ASSUME MoveInv, [MoveNext]_moveVars PROVE MoveInv'
  OBVIOUS
<1>1. CASE UNCHANGED moveVars
  BY <1>1 DEF moveVars, MoveInv, MoveTypeOK, OldInSight, OldEmptied, NotYetWhole
<1>2. CASE SetMarker
  BY <1>2 DEF SetMarker, At, Over, NoMove, MoveInv, MoveTypeOK, OldInSight, OldEmptied, NotYetWhole
<1>3. CASE MoveFails \/ Restart
  BY <1>3, MoveStops DEF MoveFails, Restart, Over
<1>4. ASSUME NEW f \in MovedFiles, Rewrite(f) PROVE MoveInv'
  BY <1>4 DEF Rewrite, At, MoveInv, MoveTypeOK, OldInSight, OldEmptied, NotYetWhole
<1> QED BY <1>1, <1>2, <1>3, <1>4, BootMoveKeeps, ListAppKeeps, FileMoveKeeps, RemovalKeeps DEF MoveNext

\* The invariant says what is asked of every file that was listed.
LEMMA MoveInvSays == MoveInv => FilesMoved
BY DEF MoveInv, MoveTypeOK, OldEmptied, NotYetWhole, FilesMoved, At

\* Before the first start every file is in one place, and under the root.
LEMMA MoveInvInit == MoveInit => MoveInv
<1> SUFFICES ASSUME MoveInit PROVE MoveInv
  OBVIOUS
<1>1. \A f \in MovedFiles : f[1] \in MovedApps
  BY DEF MovedFiles
<1>2. old \subseteq MovedFiles /\ \A f \in MovedFiles : f \in old <=> new[f] = "none"
  BY DEF MoveInit
<1>3. /\ oldRoot.there \in BOOLEAN /\ oldRoot.apps \subseteq MovedApps
      /\ oldRoot \in [there : BOOLEAN, apps : SUBSET MovedApps]
      /\ \A f \in old : f[1] \in oldRoot.apps
      /\ ~oldRoot.there => old = {}
  <2>1. {f[1] : f \in old} \subseteq MovedApps
    BY <1>1, <1>2
  <2> QED BY <2>1 DEF MoveInit
<1>4. MoveTypeOK
  BY <1>2, <1>3 DEF MoveInit, NoMove, MoveTypeOK
<1> QED BY <1>2, <1>3, <1>4 DEF MoveInit, MoveInv, OldInSight, OldEmptied, NotYetWhole

(* No start that stops anywhere loses a file, however many apps and files there are:    *)
(* each that was listed is whole in one of the two places, in the owner's when the apps *)
(* start, and none stays behind to be moved over one that was replaced (legacy-move.ts).*)
THEOREM NoFileLost == MoveSpec => []FilesMoved
BY MoveInvInit, MoveInvKept, MoveInvSays, PTL DEF MoveSpec

-----------------------------------------------------------------------------
(***************************************************************************)
(* Attachments: rows and files.                                            *)
(***************************************************************************)
Proofs == {Anything} \cup [item : {"new", "edited", "gone"}, rows : SUBSET Attachments]
AssetRequest == [pc : {"rest", "save", "insert", "enqueue", "unlink"}, seen : Proofs, keys : SUBSET Attachments]

AssetTypeOK ==
    /\ item \in {"new", "edited", "gone"}
    /\ rows \in SUBSET Attachments /\ files \in SUBSET Attachments /\ used \in SUBSET Attachments
    /\ jobs \in [Attachments -> NoJob..Done]
    /\ assetReq \in [AssetRequests -> AssetRequest]
    /\ sweep \in [on : BOOLEAN, todo : SUBSET Attachments, missing : SUBSET Attachments]
    /\ unanswered \in SUBSET Attachments /\ leaked \in SUBSET Attachments

Uploading(r) == assetReq[r].pc \in {"save", "insert"}

\* Ids are drawn once: whatever knows one draws no other.
KeysUsed ==
    /\ rows \cup files \cup sweep.todo \cup sweep.missing \subseteq used
    /\ \A r \in AssetRequests : /\ assetReq[r].keys \subseteq used
                                /\ assetReq[r].pc = "rest" => assetReq[r].keys = {}
    /\ \A k \in Attachments : jobs[k] # NoJob => k \in used

\* The key of an upload is nobody else's; its file is there once it was saved, and not before.
UploadsAlone ==
    \A r \in AssetRequests : Uploading(r) => \A k \in assetReq[r].keys :
        /\ k \notin rows /\ jobs[k] = NoJob /\ k \notin sweep.todo /\ k \notin sweep.missing
        /\ \A q \in AssetRequests : q # r => k \notin assetReq[q].keys
        /\ k \in files <=> assetReq[r].pc = "insert"

\* A row that was answered has its file, and nothing is about to take it.
RowsHeld ==
    \A k \in rows \ unanswered :
        /\ k \in files /\ jobs[k] = NoJob
        /\ \A r \in AssetRequests : k \notin assetReq[r].keys

\* A file without a row is held by a request, named by a job, or forgotten.
OrphansNamed ==
    \A k \in files \ rows : \/ k \in leaked \/ jobs[k] \in Pending \cup {Failed}
                            \/ \E r \in AssetRequests : k \in assetReq[r].keys

AssetInv ==
    /\ AssetTypeOK /\ KeysUsed /\ UploadsAlone /\ RowsHeld /\ OrphansNamed
    /\ sweep.missing \cap files = {}

\* What a request is left with.
LEMMA TurnTakes ==
    ASSUME AssetTypeOK, NEW r \in AssetRequests, NEW pc \in {"rest", "save", "insert", "enqueue", "unlink"},
           NEW keys \in SUBSET Attachments, Turn(r, pc, keys)
    PROVE  \E moved \in AssetRequest :
              /\ assetReq' = [assetReq EXCEPT ![r] = moved] /\ moved.keys = keys
              /\ moved.pc = IF keys = {} THEN "rest" ELSE pc
<1>1. CASE keys = {}
  <2>1. AtRest \in AssetRequest /\ AtRest.keys = {} /\ AtRest.pc = "rest"
    BY DEF AtRest, AssetRequest, Proofs
  <2>2. assetReq' = [assetReq EXCEPT ![r] = AtRest]
    BY <1>1 DEF Turn
  <2> QED BY <1>1, <2>1, <2>2
<1>2. CASE keys # {}
  <2> DEFINE m1 == [assetReq[r] EXCEPT !.pc = pc]
             m2 == [m1 EXCEPT !.keys = keys]
  <2>1. m1 \in AssetRequest /\ m1.pc = pc
    BY DEF AssetTypeOK, AssetRequest
  <2>2. assetReq' = [assetReq EXCEPT ![r] = m2]
    BY <1>2 DEF Turn
  <2> HIDE DEF m1
  <2>3. m2 \in AssetRequest /\ m2.pc = pc /\ m2.keys = keys
    BY <2>1 DEF AssetRequest
  <2> HIDE DEF m2
  <2> QED BY <1>2, <2>2, <2>3
<1> QED BY <1>1, <1>2

(* A request moves on.  What it may leave behind, delete, forget or put in rows and     *)
(* jobs is bounded by the keys it held.                                                 *)
LEMMA RequestGoes ==
    ASSUME AssetInv, NEW r \in AssetRequests, NEW moved \in AssetRequest,
           assetReq' = [assetReq EXCEPT ![r] = moved], moved.pc = "rest" => moved.keys = {},
           item' \in {"new", "edited", "gone"}, sweep' = sweep,
           rows' \in SUBSET Attachments, files' \in SUBSET Attachments, used' \in SUBSET Attachments,
           jobs' \in [Attachments -> NoJob..Done], unanswered' \in SUBSET Attachments, leaked' \in SUBSET Attachments,
           used \subseteq used', unanswered \subseteq unanswered', leaked \subseteq leaked',
           rows' \cup files' \cup moved.keys \subseteq used',
           \A k \in Attachments : jobs'[k] # jobs[k] => k \in assetReq[r].keys /\ ~Uploading(r) /\ jobs'[k] = 0,
           \A k \in rows' : k \in rows \/ k \in assetReq[r].keys,
           \A k \in Attachments : (k \in files' <=> k \in files) \/ k \in assetReq[r].keys,
           \* the new keys
           moved.pc \in {"save", "insert"} => \A k \in moved.keys :
              /\ k \notin rows' /\ jobs'[k] = NoJob /\ k \notin sweep.todo /\ k \notin sweep.missing
              /\ \A q \in AssetRequests : q # r => k \notin assetReq[q].keys
              /\ k \in files' <=> moved.pc = "insert",
           \A k \in moved.keys : k \in assetReq[r].keys \/ k \in rows \/ k \notin used,
           \* the rows that count
           \A k \in rows' \ unanswered' : k \in files' /\ jobs'[k] = NoJob /\ k \notin moved.keys,
           \A k \in rows' \ (rows \cup unanswered') : \A q \in AssetRequests : q # r => k \notin assetReq[q].keys,
           sweep.missing \cap files' = {},
           \A k \in files' \ rows' : k \in assetReq[r].keys \/ k \in rows \/ k \notin files =>
              k \in leaked' \/ k \in moved.keys \/ jobs'[k] \in Pending \cup {Failed}
    PROVE  AssetInv'
<1>1. \A q \in AssetRequests : assetReq'[q] = IF q = r THEN moved ELSE assetReq[q]
  BY DEF AssetInv, AssetTypeOK
<1>2. AssetTypeOK'
  BY <1>1 DEF AssetInv, AssetTypeOK
<1>3. KeysUsed'
  BY <1>1 DEF AssetInv, KeysUsed
<1>4. UploadsAlone'
  <2> SUFFICES ASSUME NEW q \in AssetRequests, Uploading(q)', NEW k \in assetReq'[q].keys
               PROVE  /\ k \notin rows' /\ jobs'[k] = NoJob /\ k \notin sweep.todo /\ k \notin sweep.missing
                      /\ \A p \in AssetRequests : p # q => k \notin assetReq'[p].keys
                      /\ k \in files' <=> assetReq'[q].pc = "insert"
    BY DEF UploadsAlone
  <2>1. CASE q = r
    BY <1>1, <2>1 DEF Uploading, AssetRequest, AssetInv, AssetTypeOK
  <2>2. CASE q # r
    <3>1. Uploading(q) /\ k \in assetReq[q].keys /\ assetReq'[q] = assetReq[q] /\ k \in Attachments
      BY <1>1, <2>2 DEF Uploading, AssetRequest, AssetInv, AssetTypeOK
    <3>2. /\ k \notin rows /\ jobs[k] = NoJob /\ k \notin sweep.todo /\ k \notin sweep.missing
          /\ \A p \in AssetRequests : p # q => k \notin assetReq[p].keys
          /\ k \in files <=> assetReq[q].pc = "insert"
      BY <3>1 DEF AssetInv, UploadsAlone
    <3>3. k \in used /\ k \notin assetReq[r].keys
      BY <2>2, <3>1, <3>2 DEF AssetInv, KeysUsed
    <3>4. k \notin moved.keys /\ k \notin rows' /\ jobs'[k] = NoJob /\ (k \in files' <=> k \in files)
      BY <3>1, <3>2, <3>3
    <3> QED BY <1>1, <3>1, <3>2, <3>4
  <2> QED BY <2>1, <2>2
<1>5. RowsHeld'
  BY <1>1 DEF AssetInv, RowsHeld
<1>6. OrphansNamed'
  <2> SUFFICES ASSUME NEW k \in files' \ rows'
               PROVE  \/ k \in leaked' \/ jobs'[k] \in Pending \cup {Failed}
                      \/ \E q \in AssetRequests : k \in assetReq'[q].keys
    BY DEF OrphansNamed
  <2>1. CASE k \in assetReq[r].keys \/ k \in rows \/ k \notin files
    BY <1>1, <2>1
  <2>2. CASE k \in files \ rows /\ k \notin assetReq[r].keys
    <3>1. k \in leaked \/ jobs[k] \in Pending \cup {Failed} \/ \E q \in AssetRequests : k \in assetReq[q].keys
      BY <2>2 DEF AssetInv, OrphansNamed
    <3>2. jobs'[k] = jobs[k]
      BY <2>2 DEF AssetInv, AssetTypeOK
    <3> QED BY <1>1, <2>2, <3>1, <3>2
  <2> QED BY <2>1, <2>2
<1> QED BY <1>2, <1>3, <1>4, <1>5, <1>6 DEF AssetInv

\* An id is drawn, and its upload begins.
LEMMA CheckKeeps == ASSUME AssetInv, NEW r \in AssetRequests, NEW k \in Attachments, UploadCheck(r, k) PROVE AssetInv'
<1>1. PICK seen \in {Anything, Proof} : assetReq' = [assetReq EXCEPT ![r] = [pc |-> "save", seen |-> seen, keys |-> {k}]]
  BY DEF UploadCheck
<1>2. seen \in Proofs
  BY DEF Proof, Proofs, AssetInv, AssetTypeOK
<1>3. [pc |-> "save", seen |-> seen, keys |-> {k}] \in AssetRequest
  BY <1>2 DEF AssetRequest
<1>4. PICK moved \in AssetRequest : /\ assetReq' = [assetReq EXCEPT ![r] = moved]
                                   /\ moved.pc = "save" /\ moved.keys = {k}
  BY <1>1, <1>3
<1>5. /\ used' = used \cup {k} /\ k \notin used /\ assetReq[r].pc = "rest"
      /\ UNCHANGED <<item, rows, files, jobs, sweep, unanswered, leaked>>
  BY DEF UploadCheck, InPc
<1>6. /\ AssetTypeOK /\ KeysUsed /\ RowsHeld /\ OrphansNamed /\ sweep.missing \cap files = {} /\ assetReq[r].keys = {}
  BY <1>5 DEF AssetInv, KeysUsed
<1>7. /\ k \notin rows /\ k \notin files /\ jobs[k] = NoJob /\ k \notin sweep.todo /\ k \notin sweep.missing
      /\ \A q \in AssetRequests : k \notin assetReq[q].keys
  BY <1>5, <1>6 DEF KeysUsed
<1>8. /\ rows' \cup files' \cup moved.keys \subseteq used' /\ used' \in SUBSET Attachments
      /\ \A j \in rows' \ unanswered' : j \in files' /\ jobs'[j] = NoJob /\ j \notin moved.keys
  BY <1>4, <1>5, <1>6, <1>7 DEF KeysUsed, RowsHeld, AssetTypeOK
<1>9. /\ \A j \in moved.keys :
            /\ j \notin rows' /\ jobs'[j] = NoJob /\ j \notin sweep.todo /\ j \notin sweep.missing
            /\ \A q \in AssetRequests : q # r => j \notin assetReq[q].keys
            /\ j \in files' <=> moved.pc = "insert"
      /\ \A j \in moved.keys : j \notin used
      /\ \A j \in Attachments : (j \in files' <=> j \in files) /\ jobs'[j] = jobs[j]
  BY <1>4, <1>5, <1>7
<1>10. /\ rows' = rows /\ used \subseteq used' /\ moved.pc # "rest" /\ sweep.missing \cap files' = {}
       /\ rows' \in SUBSET Attachments /\ files' \in SUBSET Attachments /\ files' = files
       /\ jobs' \in [Attachments -> NoJob..Done] /\ item' \in {"new", "edited", "gone"} /\ assetReq[r].keys = {}
       /\ unanswered' \in SUBSET Attachments /\ leaked' \in SUBSET Attachments /\ leaked' = leaked
       /\ unanswered' = unanswered /\ sweep' = sweep /\ assetReq' = [assetReq EXCEPT ![r] = moved]
  BY <1>4, <1>5, <1>6 DEF AssetTypeOK
<1> QED BY <1>8, <1>9, <1>10, RequestGoes

\* The file of an upload is saved, or could not be.
LEMMA SaveKeeps == ASSUME AssetInv, NEW r \in AssetRequests, UploadSave(r) \/ UploadSaveFails(r) PROVE AssetInv'
<1>1. /\ UNCHANGED <<item, rows, jobs, sweep, unanswered, leaked, used>> /\ assetReq[r].pc = "save"
  BY DEF UploadSave, UploadSaveFails, InPc
<1>2. /\ AssetTypeOK /\ KeysUsed /\ RowsHeld /\ sweep.missing \cap files = {} /\ assetReq[r].keys \in SUBSET Attachments
      /\ \A k \in assetReq[r].keys :
            /\ k \in used /\ k \notin rows /\ jobs[k] = NoJob /\ k \notin sweep.todo /\ k \notin sweep.missing /\ k \notin files
            /\ \A q \in AssetRequests : q # r => k \notin assetReq[q].keys
  BY <1>1 DEF AssetInv, AssetTypeOK, AssetRequest, KeysUsed, UploadsAlone, Uploading
<1>3. CASE UploadSave(r)
  <2>1. files' = files \cup assetReq[r].keys /\ Turn(r, "insert", assetReq[r].keys)
    BY <1>3 DEF UploadSave
  <2>2. PICK moved \in AssetRequest : /\ assetReq' = [assetReq EXCEPT ![r] = moved] /\ moved.keys = assetReq[r].keys
                                     /\ moved.pc = IF moved.keys = {} THEN "rest" ELSE "insert"
    BY <1>2, <2>1, TurnTakes
  <2>3. /\ rows' \cup files' \cup moved.keys \subseteq used' /\ files' \in SUBSET Attachments
        /\ \A j \in rows' \ unanswered' : j \in files' /\ jobs'[j] = NoJob /\ j \notin moved.keys
        /\ sweep.missing \cap files' = {}
    BY <1>1, <1>2, <2>1, <2>2 DEF KeysUsed, RowsHeld, AssetTypeOK
  <2> QED BY <1>1, <1>2, <2>1, <2>2, <2>3, RequestGoes DEF AssetTypeOK
<1>4. CASE UploadSaveFails(r)
  <2>1. files' = files /\ Turn(r, "rest", {})
    BY <1>4 DEF UploadSaveFails
  <2>2. PICK moved \in AssetRequest : assetReq' = [assetReq EXCEPT ![r] = moved] /\ moved.keys = {} /\ moved.pc = "rest"
    BY <1>2, <2>1, TurnTakes
  <2>3. /\ rows' \cup files' \cup moved.keys \subseteq used'
        /\ \A j \in rows' \ unanswered' : j \in files' /\ jobs'[j] = NoJob /\ j \notin moved.keys
    BY <1>1, <1>2, <2>1, <2>2 DEF KeysUsed, RowsHeld, AssetTypeOK
  <2> QED BY <1>1, <1>2, <2>1, <2>2, <2>3, RequestGoes DEF AssetTypeOK
<1> QED BY <1>3, <1>4

(* The second transaction of an upload: the row is there, with or without an answer, or *)
(* the request turns to what it saved.                                                  *)
LEMMA InsertKeeps ==
    ASSUME AssetInv, NEW r \in AssetRequests, UploadInsert(r) \/ UploadAnswerLost(r) \/ UploadRefused(r)
    PROVE  AssetInv'
<1>1. UNCHANGED <<item, files, jobs, sweep, leaked, used>> /\ assetReq[r].pc = "insert"
  BY DEF UploadInsert, UploadAnswerLost, UploadRefused, InPc
<1>2. /\ AssetTypeOK /\ KeysUsed /\ RowsHeld /\ sweep.missing \cap files = {} /\ assetReq[r].keys \in SUBSET Attachments
      /\ \A k \in assetReq[r].keys :
            /\ k \in used /\ k \notin rows /\ jobs[k] = NoJob /\ k \notin sweep.todo /\ k \notin sweep.missing /\ k \in files
            /\ \A q \in AssetRequests : q # r => k \notin assetReq[q].keys
  BY <1>1 DEF AssetInv, AssetTypeOK, AssetRequest, KeysUsed, UploadsAlone, Uploading
<1>3. CASE UploadInsert(r)
  <2>1. rows' = rows \cup assetReq[r].keys /\ Turn(r, "rest", {}) /\ unanswered' = unanswered
    BY <1>3 DEF UploadInsert
  <2>2. PICK moved \in AssetRequest : assetReq' = [assetReq EXCEPT ![r] = moved] /\ moved.keys = {} /\ moved.pc = "rest"
    BY <1>2, <2>1, TurnTakes
  <2>3. /\ rows' \cup files' \cup moved.keys \subseteq used' /\ rows' \in SUBSET Attachments
        /\ \A j \in rows' \ unanswered' : j \in files' /\ jobs'[j] = NoJob /\ j \notin moved.keys
    BY <1>1, <1>2, <2>1, <2>2 DEF KeysUsed, RowsHeld, AssetTypeOK
  <2> QED BY <1>1, <1>2, <2>1, <2>2, <2>3, RequestGoes DEF AssetTypeOK
<1>4. CASE UploadAnswerLost(r)
  <2>1. /\ rows' = rows \cup assetReq[r].keys /\ Turn(r, "enqueue", assetReq[r].keys)
        /\ unanswered' = unanswered \cup assetReq[r].keys
    BY <1>4 DEF UploadAnswerLost
  <2>2. PICK moved \in AssetRequest : /\ assetReq' = [assetReq EXCEPT ![r] = moved] /\ moved.keys = assetReq[r].keys
                                     /\ moved.pc = IF moved.keys = {} THEN "rest" ELSE "enqueue"
    BY <1>2, <2>1, TurnTakes
  <2>3. /\ rows' \cup files' \cup moved.keys \subseteq used' /\ rows' \in SUBSET Attachments
        /\ unanswered' \in SUBSET Attachments
        /\ \A j \in rows' \ unanswered' : j \in files' /\ jobs'[j] = NoJob /\ j \notin moved.keys
    BY <1>1, <1>2, <2>1, <2>2 DEF KeysUsed, RowsHeld, AssetTypeOK
  <2> QED BY <1>1, <1>2, <2>1, <2>2, <2>3, RequestGoes DEF AssetTypeOK
<1>5. CASE UploadRefused(r)
  <2>1. rows' = rows /\ Turn(r, "enqueue", assetReq[r].keys) /\ unanswered' = unanswered
    BY <1>5 DEF UploadRefused
  <2>2. PICK moved \in AssetRequest : /\ assetReq' = [assetReq EXCEPT ![r] = moved] /\ moved.keys = assetReq[r].keys
                                     /\ moved.pc = IF moved.keys = {} THEN "rest" ELSE "enqueue"
    BY <1>2, <2>1, TurnTakes
  <2>3. /\ rows' \cup files' \cup moved.keys \subseteq used'
        /\ \A j \in rows' \ unanswered' : j \in files' /\ jobs'[j] = NoJob /\ j \notin moved.keys
    BY <1>1, <1>2, <2>1, <2>2 DEF KeysUsed, RowsHeld, AssetTypeOK
  <2> QED BY <1>1, <1>2, <2>1, <2>2, <2>3, RequestGoes DEF AssetTypeOK
<1> QED BY <1>3, <1>4, <1>5

\* Rows are removed: the request now holds their files.
LEMMA RemoveKeeps ==
    ASSUME AssetInv, NEW r \in AssetRequests, NEW gone \in SUBSET rows, NEW left \in {"new", "edited", "gone"},
           RemoveRows(r, gone, left)
    PROVE  AssetInv'
<1>1. /\ assetReq[r].pc = "rest" /\ rows' = rows \ gone /\ item' = left /\ Turn(r, "unlink", gone)
      /\ UNCHANGED <<files, jobs, sweep, unanswered, leaked, used>>
  BY DEF RemoveRows, InPc
<1>2. /\ AssetTypeOK /\ KeysUsed /\ RowsHeld /\ sweep.missing \cap files = {} /\ assetReq[r].keys = {}
      /\ gone \in SUBSET Attachments
  BY <1>1 DEF AssetInv, AssetTypeOK, KeysUsed
<1>3. PICK moved \in AssetRequest : /\ assetReq' = [assetReq EXCEPT ![r] = moved] /\ moved.keys = gone
                                   /\ moved.pc = IF moved.keys = {} THEN "rest" ELSE "unlink"
  BY <1>1, <1>2, TurnTakes
<1>4. /\ rows' \cup files' \cup moved.keys \subseteq used' /\ rows' \in SUBSET Attachments
      /\ \A j \in rows' \ unanswered' : j \in files' /\ jobs'[j] = NoJob /\ j \notin moved.keys
  BY <1>1, <1>2, <1>3 DEF KeysUsed, RowsHeld, AssetTypeOK
<1> QED BY <1>1, <1>2, <1>3, <1>4, RequestGoes DEF AssetTypeOK

\* A file is deleted, or its deletion is queued or forgotten.
LEMMA FileGoesKeeps ==
    ASSUME AssetInv, NEW r \in AssetRequests, Unlink(r) \/ UnlinkFails(r) \/ Enqueue(r) \/ EnqueueFails(r)
    PROVE  AssetInv'
<1>1. /\ UNCHANGED <<item, rows, sweep, unanswered, used>> /\ assetReq[r].pc \in {"unlink", "enqueue"}
  BY DEF Unlink, UnlinkFails, Enqueue, EnqueueFails, InPc
<1>2. /\ AssetTypeOK /\ KeysUsed /\ RowsHeld /\ sweep.missing \cap files = {} /\ assetReq[r].keys \in SUBSET Attachments
      /\ assetReq[r].keys \subseteq used /\ ~Uploading(r) /\ \A k \in assetReq[r].keys : k \notin rows \ unanswered
  BY <1>1 DEF AssetInv, AssetTypeOK, AssetRequest, KeysUsed, RowsHeld, Uploading
<1>3. 0 \in NoJob..Done /\ 0 \in Pending /\ NoJob # 0
  BY AssetAssumption DEF NoJob, Done, Pending
<1>4. ASSUME NEW k \in assetReq[r].keys, Turn(r, "unlink", assetReq[r].keys \ {k}), leaked' = leaked,
             \/ files' = files \ {k} /\ jobs' = jobs
             \/ jobs' = [jobs EXCEPT ![k] = 0] /\ files' = files
      PROVE  AssetInv'
  <2>1. PICK moved \in AssetRequest : /\ assetReq' = [assetReq EXCEPT ![r] = moved] /\ moved.keys = assetReq[r].keys \ {k}
                                     /\ moved.pc = IF moved.keys = {} THEN "rest" ELSE "unlink"
    BY <1>2, <1>4, TurnTakes
  <2>2. /\ rows' \cup files' \cup moved.keys \subseteq used' /\ files' \in SUBSET Attachments
        /\ jobs' \in [Attachments -> NoJob..Done]
        /\ \A j \in Attachments : jobs'[j] = IF j = k /\ jobs' # jobs THEN 0 ELSE jobs[j]
    BY <1>1, <1>2, <1>3, <1>4, <2>1 DEF KeysUsed, AssetTypeOK
  <2>3. /\ \A j \in rows' \ unanswered' : j \in files' /\ jobs'[j] = NoJob /\ j \notin moved.keys
        /\ sweep.missing \cap files' = {}
    BY <1>1, <1>2, <1>4, <2>1, <2>2 DEF RowsHeld
  <2>4. \A j \in files' \ rows' : j \in assetReq[r].keys =>
             j \in leaked' \/ j \in moved.keys \/ jobs'[j] \in Pending \cup {Failed}
    BY <1>1, <1>2, <1>3, <1>4, <2>1 DEF AssetTypeOK
  <2>5. /\ \A j \in Attachments : jobs'[j] # jobs[j] => j \in assetReq[r].keys /\ ~Uploading(r) /\ jobs'[j] = 0
        /\ \A j \in Attachments : (j \in files' <=> j \in files) \/ j \in assetReq[r].keys
        /\ moved.pc \in {"rest", "unlink"} /\ (moved.pc = "rest" => moved.keys = {})
        /\ \A j \in moved.keys : j \in assetReq[r].keys
    BY <1>2, <1>4, <2>1, <2>2
  <2>6. /\ \A j \in rows' : j \in rows
        /\ \A j \in files' \ rows' : j \in files /\ j \notin rows
    BY <1>1, <1>4
  <2>7. /\ item' \in {"new", "edited", "gone"} /\ rows' \in SUBSET Attachments /\ used' \in SUBSET Attachments
        /\ unanswered' \in SUBSET Attachments /\ leaked' \in SUBSET Attachments
    BY <1>1, <1>2, <1>4 DEF AssetTypeOK
  <2> QED BY <1>1, <1>4, <2>1, <2>2, <2>3, <2>4, <2>5, <2>6, <2>7, RequestGoes
<1>5. ASSUME Turn(r, "rest", {}), files' = files,
             \/ jobs' = jobs /\ leaked' = leaked \cup assetReq[r].keys
             \/ leaked' = leaked /\ jobs' = [k \in Attachments |-> IF k \in assetReq[r].keys THEN 0 ELSE jobs[k]]
      PROVE  AssetInv'
  <2>1. PICK moved \in AssetRequest : assetReq' = [assetReq EXCEPT ![r] = moved] /\ moved.keys = {} /\ moved.pc = "rest"
    BY <1>2, <1>5, TurnTakes
  <2>2. /\ rows' \cup files' \cup moved.keys \subseteq used' /\ leaked' \in SUBSET Attachments
        /\ jobs' \in [Attachments -> NoJob..Done]
        /\ \A j \in Attachments : jobs'[j] # jobs[j] => j \in assetReq[r].keys /\ jobs'[j] = 0
    BY <1>1, <1>2, <1>3, <1>5, <2>1 DEF KeysUsed, AssetTypeOK
  <2>3. \A j \in rows' \ unanswered' : j \in files' /\ jobs'[j] = NoJob /\ j \notin moved.keys
    BY <1>1, <1>2, <1>5, <2>1, <2>2 DEF RowsHeld, AssetTypeOK
  <2>4. \A j \in files' \ rows' : j \in assetReq[r].keys => j \in leaked' \/ jobs'[j] \in Pending \cup {Failed}
    BY <1>2, <1>3, <1>5
  <2> QED BY <1>1, <1>2, <1>5, <2>1, <2>2, <2>3, <2>4, RequestGoes DEF AssetTypeOK
<1>6. CASE Unlink(r) \/ UnlinkFails(r)
  BY <1>4, <1>6 DEF Unlink, UnlinkFails
<1>7. CASE Enqueue(r) \/ EnqueueFails(r)
  BY <1>5, <1>7 DEF Enqueue, EnqueueFails
<1> QED BY <1>6, <1>7

\* The queue is worked: a file that a job names belongs to no row that counts.
LEMMA DrainKeeps == ASSUME AssetInv, NEW k \in Attachments, DrainJob(k) \/ DrainFails(k) PROVE AssetInv'
<1>1. /\ UNCHANGED <<item, rows, assetReq, sweep, unanswered, leaked, used>> /\ jobs[k] \in Pending
      /\ \/ files' = files \ {k} /\ jobs' = [jobs EXCEPT ![k] = Done]
         \/ files' = files /\ jobs' = [jobs EXCEPT ![k] = jobs[k] + 1]
  BY DEF DrainJob, DrainFails
<1>2. /\ jobs[k] # NoJob /\ Done \in NoJob..Done /\ jobs[k] + 1 \in NoJob..Done /\ jobs[k] + 1 \in Pending \cup {Failed}
      /\ jobs[k] + 1 # NoJob /\ Done # NoJob
  BY <1>1, AssetAssumption DEF Pending, Failed, Done, NoJob
<1>3. AssetTypeOK'
  BY <1>1, <1>2 DEF AssetInv, AssetTypeOK
<1>4. k \in used /\ \A j \in Attachments : (jobs'[j] = NoJob <=> jobs[j] = NoJob) /\ (j # k => jobs'[j] = jobs[j])
  BY <1>1, <1>2 DEF AssetInv, AssetTypeOK, KeysUsed
<1>5. KeysUsed'
  BY <1>1, <1>4 DEF AssetInv, AssetTypeOK, KeysUsed
<1>6. UploadsAlone'
  <2>1. \A r \in AssetRequests : Uploading(r) => k \notin assetReq[r].keys
    BY <1>2 DEF AssetInv, UploadsAlone
  <2>2. \A r \in AssetRequests : assetReq[r].keys \subseteq Attachments
    BY DEF AssetInv, AssetTypeOK, AssetRequest
  <2> QED BY <1>1, <1>4, <2>1, <2>2 DEF AssetInv, UploadsAlone, Uploading
<1>7. RowsHeld'
  BY <1>1, <1>2, <1>4 DEF AssetInv, AssetTypeOK, RowsHeld
<1>8. OrphansNamed'
  BY <1>1, <1>2, <1>4 DEF AssetInv, AssetTypeOK, OrphansNamed
<1> QED BY <1>1, <1>3, <1>5, <1>6, <1>7, <1>8 DEF AssetInv

\* The sweep: it drops rows of which it saw that they miss their file, and no file comes back.
LEMMA SweepKeeps ==
    ASSUME AssetInv, SweepList \/ SweepDrop \/ (\E k \in Attachments : SweepProbe(k) \/ SweepProbeFails(k))
    PROVE  AssetInv'
<1>1. UNCHANGED <<item, files, jobs, assetReq, unanswered, leaked, used>>
  BY DEF SweepList, SweepDrop, SweepProbe, SweepProbeFails
<1>2. ASSUME sweep' \in [on : BOOLEAN, todo : SUBSET Attachments, missing : SUBSET Attachments],
             sweep'.todo \subseteq sweep.todo \cup rows, sweep'.missing \subseteq sweep.missing \cup sweep.todo,
             sweep'.missing \cap files = {}, rows' = rows \/ rows' = rows \ sweep.missing
      PROVE  AssetInv'
  <2>1. AssetTypeOK' /\ KeysUsed' /\ RowsHeld'
    BY <1>1, <1>2 DEF AssetInv, AssetTypeOK, KeysUsed, RowsHeld
  <2>2. UploadsAlone'
    BY <1>1, <1>2 DEF AssetInv, UploadsAlone, Uploading
  <2>3. OrphansNamed'
    BY <1>1, <1>2 DEF AssetInv, OrphansNamed
  <2> QED BY <1>1, <1>2, <2>1, <2>2, <2>3 DEF AssetInv
<1>3. sweep \in [on : BOOLEAN, todo : SUBSET Attachments, missing : SUBSET Attachments] /\ rows \in SUBSET Attachments
      /\ sweep.missing \cap files = {}
  BY DEF AssetInv, AssetTypeOK
<1>4. CASE SweepList
  BY <1>2, <1>3, <1>4 DEF SweepList
<1>5. CASE SweepDrop
  <2>1. PICK on \in BOOLEAN : on <=> sweep.todo # {}
    OBVIOUS
  <2>2. sweep' = [sweep EXCEPT !.missing = {}, !.on = on] /\ rows' = rows \ sweep.missing
    BY <1>5, <2>1 DEF SweepDrop
  <2>3. sweep' \in [on : BOOLEAN, todo : SUBSET Attachments, missing : SUBSET Attachments]
        /\ sweep'.todo = sweep.todo /\ sweep'.missing = {}
    BY <1>3, <2>2
  <2> QED BY <1>2, <2>2, <2>3
<1>6. ASSUME NEW k \in Attachments, SweepProbe(k) PROVE AssetInv'
  BY <1>2, <1>3, <1>6 DEF SweepProbe
<1>7. ASSUME NEW k \in Attachments, SweepProbeFails(k) PROVE AssetInv'
  <2>1. PICK on \in BOOLEAN : on <=> sweep.todo # {k}
    OBVIOUS
  <2>2. sweep' = [sweep EXCEPT !.todo = sweep.todo \ {k}, !.on = on] /\ rows' = rows
    BY <1>7, <2>1 DEF SweepProbeFails
  <2>3. sweep' \in [on : BOOLEAN, todo : SUBSET Attachments, missing : SUBSET Attachments]
        /\ sweep'.todo = sweep.todo \ {k} /\ sweep'.missing = sweep.missing
    BY <1>3, <2>2
  <2> QED BY <1>2, <1>3, <2>2, <2>3
<1> QED BY <1>4, <1>5, <1>6, <1>7

\* The process stops, and what the requests held is forgotten.
LEMMA CrashKeeps == ASSUME AssetInv, AssetCrash PROVE AssetInv'
<1>1. /\ UNCHANGED <<item, rows, files, jobs, unanswered, used>> /\ sweep' = NoSweep
      /\ assetReq' = [r \in AssetRequests |-> AtRest]
  BY DEF AssetCrash
<1>2. leaked' \in SUBSET Attachments /\ leaked \subseteq leaked'
      /\ \A r \in AssetRequests : \A k \in files : k \in assetReq[r].keys => k \in leaked'
  BY DEF AssetCrash, AssetInv, AssetTypeOK
<1>3. AtRest \in AssetRequest /\ AtRest.keys = {} /\ AtRest.pc = "rest"
  BY DEF AtRest, AssetRequest, Proofs
<1>4. NoSweep \in [on : BOOLEAN, todo : SUBSET Attachments, missing : SUBSET Attachments]
      /\ NoSweep.todo = {} /\ NoSweep.missing = {}
  BY DEF NoSweep
<1>5. AssetTypeOK'
  BY <1>1, <1>2, <1>3, <1>4 DEF AssetInv, AssetTypeOK
<1>6. KeysUsed' /\ UploadsAlone' /\ RowsHeld'
  BY <1>1, <1>3, <1>4 DEF AssetInv, KeysUsed, UploadsAlone, Uploading, RowsHeld
<1>7. OrphansNamed'
  BY <1>1, <1>2 DEF AssetInv, OrphansNamed
<1> QED BY <1>1, <1>4, <1>5, <1>6, <1>7 DEF AssetInv

\* Every step keeps the invariant.
LEMMA AssetInvKept == AssetInv /\ [AssetNext]_assetVars => AssetInv'
<1> SUFFICES ASSUME AssetInv, [AssetNext]_assetVars PROVE AssetInv'
  OBVIOUS
<1>1. CASE UNCHANGED assetVars
  BY <1>1 DEF assetVars, AssetInv, AssetTypeOK, KeysUsed, UploadsAlone, Uploading, RowsHeld, OrphansNamed
<1>2. ASSUME NEW r \in AssetRequests, AssetStep(r) PROVE AssetInv'
  <2>1. CASE EditItem(r)
    BY <2>1 DEF EditItem, AssetInv, AssetTypeOK, KeysUsed, UploadsAlone, Uploading, RowsHeld, OrphansNamed
  <2>2. CASE DeleteAttachment(r) \/ DeleteItem(r)
    <3>1. item \in {"new", "edited", "gone"}
      BY DEF AssetInv, AssetTypeOK
    <3> QED BY <2>2, <3>1, RemoveKeeps DEF DeleteAttachment, DeleteItem
  <2> QED BY <1>2, <2>1, <2>2, CheckKeeps, SaveKeeps, InsertKeeps, FileGoesKeeps DEF AssetStep
<1> QED BY <1>1, <1>2, DrainKeeps, SweepKeeps, CrashKeeps DEF AssetNext, Sweeper

\* The invariant accounts for every file and every row.
LEMMA AssetInvSays == AssetInv => FilesAccounted
<1> SUFFICES ASSUME AssetInv PROVE FilesAccounted
  OBVIOUS
<1>1. RowsKeepFiles
  BY DEF AssetInv, RowsHeld, RowsKeepFiles
<1> DEFINE held == UNION {assetReq[r].keys : r \in AssetRequests}
           named == {k \in Attachments : jobs[k] \in Pending \union {Failed}}
<1>2. ASSUME NEW k \in files \ rows PROVE k \in leaked \/ k \in held \/ k \in named
  <2>1. k \in Attachments
    BY DEF AssetInv, AssetTypeOK
  <2>2. ASSUME NEW r \in AssetRequests, k \in assetReq[r].keys PROVE k \in held
    BY <2>2
  <2>3. jobs[k] \in Pending \union {Failed} => k \in named
    BY <2>1
  <2>4. k \in leaked \/ jobs[k] \in Pending \cup {Failed} \/ \E r \in AssetRequests : k \in assetReq[r].keys
    BY DEF AssetInv, OrphansNamed
  <2> HIDE DEF held, named
  <2> QED BY <2>2, <2>3, <2>4
<1>3. OrphansAccounted
  <2>1. OrphansAccounted <=> files \ rows \subseteq leaked \union held \union named
    BY Zenon DEF OrphansAccounted
  <2> HIDE DEF held, named
  <2> QED BY <1>2, <2>1
<1> QED BY <1>1, <1>3 DEF FilesAccounted

\* At first there is nothing.
LEMMA AssetInvInit == AssetInit => AssetInv
<1> SUFFICES ASSUME AssetInit PROVE AssetInv
  OBVIOUS
<1>1. AtRest \in AssetRequest /\ AtRest.keys = {} /\ AtRest.pc = "rest"
  BY DEF AtRest, AssetRequest, Proofs
<1>2. NoSweep \in [on : BOOLEAN, todo : SUBSET Attachments, missing : SUBSET Attachments]
      /\ NoSweep.todo = {} /\ NoSweep.missing = {}
  BY DEF NoSweep
<1>3. NoJob \in NoJob..Done
  BY AssetAssumption DEF NoJob, Done
<1>4. AssetTypeOK
  BY <1>1, <1>2, <1>3 DEF AssetInit, AssetTypeOK
<1>5. KeysUsed /\ UploadsAlone /\ RowsHeld /\ OrphansNamed
  BY <1>1, <1>2 DEF AssetInit, KeysUsed, UploadsAlone, Uploading, RowsHeld, OrphansNamed
<1> QED BY <1>2, <1>4, <1>5 DEF AssetInit, AssetInv

(* For any number of attachments, requests and faults: a row misses its file only if    *)
(* its upload was answered with an error, and a file without a row is on its way, named *)
(* by a job, or was forgotten by a crash or a failed queue write (POST and DELETE       *)
(* attachments, compensate, processCleanupQueue, reconcileStorage).                     *)
THEOREM AttachmentsAccounted == AssetSpec => []FilesAccounted
BY AssetInvInit, AssetInvKept, AssetInvSays, PTL DEF AssetSpec

-----------------------------------------------------------------------------
(***************************************************************************)
(* Alarms.                                                                 *)
(***************************************************************************)
\* The schedules that a request may carry, that of one without a schedule included.
Sent == Schedules \cup {NoSchedule}
MinutesOf == {s[1] : s \in Sent}
DaysOf == {s[2] : s \in Sent}
AlarmRows == [is : {"row"}, minute : MinutesOf, repeat : DaysOf, on : BOOLEAN, hash : Nat]
AlarmView == {NoAlarm, Deleted} \cup AlarmRows
AlarmRequest == [is : {"spend", "toggle", "edit", "add", "remove"}, mount : Nat, id : Alarms, hash : Nat,
                 minute : MinutesOf, repeat : DaysOf, on : BOOLEAN, pc : {"asked", "done", "refused"}]
PageFields == {"open", "mount", "list", "now", "fetch", "got", "seen", "fired"}

\* The newest version of an alarm that anybody can know: that of its row, or the last one
\* that was given to any row.
Newest == [a \in Alarms |-> IF Exists(alarm[a]) THEN alarm[a].hash ELSE nextHash - 1]

\* Rows of the past: none is of a version after the newest.
RowsBelow(list, newest) ==
    /\ list \in [Alarms -> AlarmView]
    /\ \A a \in Alarms : Exists(list[a]) => list[a].hash <= newest[a]

\* What a page holds: rows listed, rows on their way, versions that were listed.
PageBelow(v, newest) ==
    /\ DOMAIN v = PageFields /\ v.mount \in Nat
    /\ RowsBelow(v.list, newest) /\ RowsBelow(v.got, newest) /\ v.seen \in SUBSET (Alarms \X Nat)

AlarmTypeOK ==
    /\ nextHash \in Nat \ {0} /\ alarm \in [Alarms -> AlarmView] /\ setAs \in [Alarms -> Nat]
    /\ \A a \in Alarms : Exists(alarm[a]) => alarm[a].hash < nextHash
    /\ PageBelow(alarmPage, Newest)
    /\ \A c \in alarmCalls : c \in AlarmRequest /\ (c.is = "spend" => ~c.on)
    /\ rang \in SUBSET (Alarms \X Nat) /\ \A r \in rang : r[2] <= Newest[r[1]]

\* Whoever switches an alarm on sets it: a row that is on is one that was set.
OnAsSet == \A a \in Alarms : Exists(alarm[a]) /\ alarm[a].on => setAs[a] = alarm[a].hash

AlarmInv == AlarmTypeOK /\ OnAsSet /\ SpentAsRung

\* The parts of a schedule that may be sent.
LEMMA SchedulePieces ==
    /\ 0 \in MinutesOf /\ {} \in DaysOf
    /\ \A s \in Sent : s[1] \in MinutesOf /\ s[2] \in DaysOf
<1>1. NoSchedule \in Sent /\ NoSchedule[1] = 0 /\ NoSchedule[2] = {}
  BY DEF Sent, NoSchedule
<1> QED BY <1>1 DEF MinutesOf, DaysOf

\* The row that a schedule makes.
LEMMA RowOfSchedule ==
    ASSUME NEW s \in Sent, NEW on \in BOOLEAN, NEW hash \in Nat
    PROVE  /\ AlarmRow(s[1], s[2], on, hash) \in AlarmRows /\ AlarmRow(s[1], s[2], on, hash).hash = hash
           /\ Exists(AlarmRow(s[1], s[2], on, hash)) /\ AlarmRow(s[1], s[2], on, hash).on = on
BY SchedulePieces DEF AlarmRow, AlarmRows, Exists

\* The newest versions are versions of the past, and each row is of its newest one.
LEMMA NewestPast ==
    ASSUME nextHash \in Nat \ {0}, alarm \in [Alarms -> AlarmView],
           \A a \in Alarms : Exists(alarm[a]) => alarm[a].hash < nextHash
    PROVE  /\ \A a \in Alarms : Newest[a] \in Nat /\ Newest[a] < nextHash
           /\ \A a \in Alarms : Exists(alarm[a]) => alarm[a] \in AlarmRows /\ alarm[a].hash \in Nat
                                                    /\ Newest[a] = alarm[a].hash
           /\ RowsBelow(alarm, Newest)
<1>1. ASSUME NEW a \in Alarms, Exists(alarm[a]) PROVE alarm[a] \in AlarmRows /\ alarm[a].hash \in Nat
  <2>1. alarm[a] \in AlarmRows
    BY <1>1 DEF AlarmView, NoAlarm, Deleted, Exists
  <2> QED BY <2>1 DEF AlarmRows
<1>2. \A a \in Alarms : Newest[a] = IF Exists(alarm[a]) THEN alarm[a].hash ELSE nextHash - 1
  BY DEF Newest
<1>3. \A a \in Alarms : Exists(alarm[a]) => alarm[a].hash <= Newest[a]
  BY <1>1, <1>2
<1> QED BY <1>1, <1>2, <1>3 DEF RowsBelow

\* A row of a list, and its hash.
LEMMA RowBelow ==
    ASSUME NEW list, NEW newest, RowsBelow(list, newest), NEW a \in Alarms, Exists(list[a])
    PROVE  list[a] \in AlarmRows /\ list[a].hash \in Nat /\ list[a].hash <= newest[a]
<1>1. list[a] \in AlarmRows
  BY DEF RowsBelow, AlarmView, NoAlarm, Deleted, Exists
<1> QED BY <1>1 DEF RowsBelow, AlarmRows

\* A list without rows, and a page that has been left.
LEMMA ClosedBelow ==
    ASSUME NEW mount \in Nat, NEW newest
    PROVE  RowsBelow(NoRows, newest) /\ PageBelow(Closed(mount), newest)
<1>1. RowsBelow(NoRows, newest)
  BY DEF RowsBelow, NoRows, AlarmView, NoAlarm, Exists
<1> QED BY <1>1 DEF PageBelow, Closed, PageFields

\* A run of useAsync begins.
LEMMA ReadingBelow ==
    ASSUME NEW v, NEW newest, PageBelow(v, newest)
    PROVE  /\ PageBelow(Reading(v), newest)
           /\ Reading(v).list = v.list /\ Reading(v).now = v.now /\ Reading(v).fired = v.fired
<1>1. RowsBelow(NoRows, newest)
  BY ClosedBelow
<1>2. /\ DOMAIN Reading(v) = DOMAIN v /\ Reading(v).list = v.list /\ Reading(v).now = v.now
      /\ Reading(v).fired = v.fired /\ Reading(v).mount = v.mount /\ Reading(v).seen = v.seen
      /\ Reading(v).got = NoRows
  BY DEF Reading, PageBelow, PageFields
<1> QED BY <1>1, <1>2 DEF PageBelow

\* Versions grow: what was known stays of the past.
LEMMA StaysBelow ==
    ASSUME NEW newest, NEW later,
           \A a \in Alarms : newest[a] \in Nat /\ later[a] \in Nat /\ newest[a] <= later[a]
    PROVE  /\ \A list : RowsBelow(list, newest) => RowsBelow(list, later)
           /\ \A v : PageBelow(v, newest) => PageBelow(v, later)
<1>1. ASSUME NEW list, RowsBelow(list, newest) PROVE RowsBelow(list, later)
  <2>1. ASSUME NEW a \in Alarms, Exists(list[a]) PROVE list[a].hash <= later[a]
    <3>1. list[a].hash \in Nat /\ list[a].hash <= newest[a]
      BY <1>1, <2>1, RowBelow
    <3> QED BY <3>1
  <2> QED BY <1>1, <2>1 DEF RowsBelow
<1> QED BY <1>1 DEF PageBelow

\* What an alarm that rang is left as, or its request that is on its way.
Spent(r) == ~Exists(alarm[r[1]]) \/ ~alarm[r[1]].on \/ SetSince(r)
Spending(r) == \E c \in alarmCalls : c.is = "spend" /\ c.pc = "asked" /\ <<c.id, c.hash>> = r

(* The page rings: what it spends it asks for in the same step.                         *)
LEMMA FireKeeps ==
    ASSUME AlarmInv, NEW v, PageBelow(v, Newest), Fire(v),
           UNCHANGED <<alarm, nextHash, setAs>>
    PROVE  AlarmInv'
<1> DEFINE once == {a \in Due(v) : v.list[a].repeat = {}}
<1> DEFINE spend(a) == Call("spend", v.mount, a, v.list[a].hash, 0, {}, FALSE)
<1>1. /\ DOMAIN alarmPage' = DOMAIN v /\ alarmPage'.list = v.list /\ alarmPage'.mount = v.mount
      /\ alarmPage'.got = v.got /\ alarmPage'.seen = v.seen
      /\ alarmCalls' = alarmCalls \cup {spend(a) : a \in once}
      /\ rang' = rang \cup {<<a, v.list[a].hash>> : a \in once}
      /\ unspent' = unspent \ {<<a, v.list[a].hash>> : a \in once}
  BY DEF Fire, PageBelow, PageFields
<1>2. ASSUME NEW a \in once
      PROVE  /\ a \in Alarms /\ v.list[a].hash \in Nat /\ v.list[a].hash <= Newest[a]
             /\ spend(a) \in AlarmRequest /\ spend(a) \in alarmCalls'
             /\ spend(a).is = "spend" /\ ~spend(a).on /\ spend(a).pc = "asked"
             /\ spend(a).id = a /\ spend(a).hash = v.list[a].hash
  <2>1. a \in Alarms /\ Exists(v.list[a])
    BY DEF Due
  <2>2. v.list[a].hash \in Nat /\ v.list[a].hash <= Newest[a]
    BY <2>1, RowBelow DEF PageBelow
  <2>3. spend(a) \in AlarmRequest
    BY <2>1, <2>2, SchedulePieces DEF Call, AlarmRequest, PageBelow
  <2>4. /\ spend(a).is = "spend" /\ ~spend(a).on /\ spend(a).pc = "asked"
        /\ spend(a).id = a /\ spend(a).hash = v.list[a].hash
    BY DEF Call
  <2> QED BY <1>1, <2>1, <2>2, <2>3, <2>4
<1> HIDE DEF once, spend
<1>3. ASSUME NEW c \in alarmCalls' PROVE c \in AlarmRequest /\ (c.is = "spend" => ~c.on)
  <2>1. CASE c \in alarmCalls
    BY <2>1 DEF AlarmInv, AlarmTypeOK
  <2>2. CASE c \notin alarmCalls
    <3>1. PICK a \in once : c = spend(a)
      BY <1>1, <2>2
    <3> QED BY <1>2, <3>1
  <2> QED BY <2>1, <2>2
<1>4. ASSUME NEW r \in rang'
      PROVE  /\ r \in Alarms \X Nat /\ r[2] <= Newest[r[1]]
             /\ (r \in rang /\ (r \in unspent => r \in unspent')) \/ Spending(r)'
  <2>1. CASE \E a \in once : r = <<a, v.list[a].hash>>
    <3>1. PICK a \in once : r = <<a, v.list[a].hash>>
      BY <2>1
    <3>2. r[1] = a /\ r[2] = v.list[a].hash
      BY <3>1
    <3> QED BY <1>2, <3>1, <3>2 DEF Spending
  <2>2. CASE ~(\E a \in once : r = <<a, v.list[a].hash>>)
    BY <1>1, <2>2 DEF AlarmInv, AlarmTypeOK
  <2> QED BY <2>1, <2>2
<1>5. AlarmTypeOK' /\ OnAsSet'
  <2>1. Newest' = Newest
    BY DEF Newest
  <2>2. PageBelow(alarmPage', Newest)
    BY <1>1 DEF PageBelow
  <2> QED BY <1>3, <1>4, <2>1, <2>2 DEF AlarmInv, AlarmTypeOK, OnAsSet
<1>6. SpentAsRung'
  <2> SUFFICES ASSUME NEW r \in rang' \ unspent' PROVE Spent(r)' \/ Spending(r)'
    BY DEF AlarmInv, SpentAsRung, Spent, Spending
  <2>1. CASE Spending(r)'
    BY <2>1
  <2>2. CASE ~Spending(r)'
    <3>1. r \in rang \ unspent
      BY <1>4, <2>2
    <3>2. Spent(r) \/ Spending(r)
      BY <3>1 DEF AlarmInv, SpentAsRung, Spent, Spending
    <3>3. alarmCalls \subseteq alarmCalls'
      BY <1>1
    <3> QED BY <3>2, <3>3 DEF Spent, Spending, SetSince
  <2> QED BY <2>1, <2>2
<1> QED BY <1>5, <1>6 DEF AlarmInv

(* The requests or the page change, and no row: a spending request that is no longer    *)
(* waiting for the server was lost, or had nothing left to switch off.                  *)
LEMMA RowsStay ==
    ASSUME AlarmInv, UNCHANGED <<alarm, nextHash, rang, setAs>>,
           PageBelow(alarmPage', Newest), unspent \subseteq unspent',
           \A c \in alarmCalls' : c \in AlarmRequest /\ (c.is = "spend" => ~c.on),
           \A c \in alarmCalls : c.is = "spend" /\ c.pc = "asked" =>
              \/ c \in alarmCalls' \/ <<c.id, c.hash>> \in unspent'
              \/ <<c.id, c.hash>> \in rang => Spent(<<c.id, c.hash>>)
    PROVE  AlarmInv'
<1>1. AlarmTypeOK' /\ OnAsSet'
  <2>1. Newest' = Newest
    BY DEF Newest
  <2> QED BY <2>1 DEF AlarmInv, AlarmTypeOK, OnAsSet
<1>2. SpentAsRung'
  <2> SUFFICES ASSUME NEW r \in rang \ unspent' PROVE Spent(r)' \/ Spending(r)'
    BY DEF AlarmInv, SpentAsRung, Spent, Spending
  <2>1. Spent(r) \/ Spending(r)
    BY DEF AlarmInv, SpentAsRung, Spent, Spending
  <2>2. Spent(r) => Spent(r)'
    BY DEF Spent, SetSince
  <2>3. CASE Spending(r)
    <3>1. PICK c \in alarmCalls : c.is = "spend" /\ c.pc = "asked" /\ <<c.id, c.hash>> = r
      BY <2>3 DEF Spending
    <3>2. c \in alarmCalls' \/ Spent(r)
      BY <3>1
    <3> QED BY <2>2, <3>1, <3>2 DEF Spending
  <2> QED BY <2>1, <2>2, <2>3
<1> QED BY <1>1, <1>2 DEF AlarmInv

(* A version that is still to come replaces a row, or the row goes.  Who sets the alarm *)
(* does so after everything that rang; who only switches it off leaves it off.          *)
LEMMA RowReplaced ==
    ASSUME AlarmInv, NEW a \in Alarms, NEW row2 \in AlarmView, alarm' = [alarm EXCEPT ![a] = row2],
           Exists(row2) => row2.hash = nextHash, nextHash' = nextHash + 1,
           UNCHANGED <<alarmPage, rang, unspent>>,
           \/ setAs' = [setAs EXCEPT ![a] = nextHash]
           \/ setAs' = setAs /\ (Exists(row2) => ~row2.on),
           \A c \in alarmCalls' : c \in AlarmRequest /\ (c.is = "spend" => ~c.on),
           \A c \in alarmCalls : c.is = "spend" /\ c.pc = "asked" => c \in alarmCalls' \/ c.id = a
    PROVE  AlarmInv'
<1>1. alarm' \in [Alarms -> AlarmView] /\ \A b \in Alarms : alarm'[b] = IF b = a THEN row2 ELSE alarm[b]
  BY DEF AlarmInv, AlarmTypeOK
<1>2. nextHash \in Nat \ {0} /\ nextHash' \in Nat \ {0} /\ nextHash < nextHash'
  BY DEF AlarmInv, AlarmTypeOK
<1>3. \A b \in Alarms : Exists(alarm'[b]) => alarm'[b].hash < nextHash'
  <2>1. \A b \in Alarms : Exists(alarm[b]) => alarm[b].hash \in Nat /\ alarm[b].hash < nextHash
    BY NewestPast DEF AlarmInv, AlarmTypeOK
  <2> QED BY <1>1, <1>2, <2>1
<1>4. \A b \in Alarms : Newest[b] \in Nat /\ Newest'[b] \in Nat /\ Newest[b] <= Newest'[b]
  <2>1. \A b \in Alarms : /\ Newest[b] \in Nat /\ Newest[b] < nextHash
                          /\ Exists(alarm[b]) => Newest[b] = alarm[b].hash
    BY NewestPast DEF AlarmInv, AlarmTypeOK
  <2>2. \A b \in Alarms : Newest'[b] = IF Exists(alarm'[b]) THEN alarm'[b].hash ELSE nextHash' - 1
    BY DEF Newest, Exists
  <2> QED BY <1>1, <1>2, <2>1, <2>2
<1>5. setAs' \in [Alarms -> Nat] /\ \A b \in Alarms : b # a => setAs'[b] = setAs[b]
  BY <1>2 DEF AlarmInv, AlarmTypeOK
<1>6. setAs'[a] = nextHash \/ (Exists(row2) => ~row2.on)
  BY DEF AlarmInv, AlarmTypeOK
<1>7. AlarmTypeOK'
  <2>1. PageBelow(alarmPage, Newest')
    BY <1>4, StaysBelow DEF AlarmInv, AlarmTypeOK
  <2>2. \A r \in rang : r \in Alarms \X Nat /\ r[2] <= Newest'[r[1]]
    <3>1. \A r \in rang : r[1] \in Alarms /\ r[2] \in Nat /\ r[2] <= Newest[r[1]]
      BY DEF AlarmInv, AlarmTypeOK
    <3> QED BY <1>4, <3>1 DEF AlarmInv, AlarmTypeOK
  <2> QED BY <1>1, <1>2, <1>3, <1>5, <2>1, <2>2 DEF AlarmInv, AlarmTypeOK
<1>8. OnAsSet'
  <2> SUFFICES ASSUME NEW b \in Alarms, Exists(alarm'[b]), alarm'[b].on PROVE setAs'[b] = alarm'[b].hash
    BY DEF OnAsSet, Exists
  <2> QED BY <1>1, <1>5, <1>6 DEF AlarmInv, OnAsSet
<1>9. SpentAsRung'
  <2> SUFFICES ASSUME NEW r \in rang \ unspent PROVE Spent(r)' \/ Spending(r)'
    BY DEF AlarmInv, SpentAsRung, Spent, Spending
  <2>1. r[1] \in Alarms /\ r[2] \in Nat /\ r[2] < nextHash
    <3>1. r[1] \in Alarms /\ r[2] \in Nat /\ r[2] <= Newest[r[1]]
      BY DEF AlarmInv, AlarmTypeOK
    <3>2. Newest[r[1]] \in Nat /\ Newest[r[1]] < nextHash
      BY <3>1, NewestPast DEF AlarmInv, AlarmTypeOK
    <3> QED BY <1>2, <3>1, <3>2
  <2>2. CASE r[1] = a
    BY <1>1, <1>2, <1>6, <2>1, <2>2 DEF Spent, SetSince, Exists
  <2>3. CASE r[1] # a
    <3>1. Spent(r) \/ Spending(r)
      BY DEF AlarmInv, SpentAsRung, Spent, Spending
    <3>2. CASE Spent(r)
      BY <1>1, <1>5, <2>1, <2>3, <3>2 DEF Spent, SetSince, Exists
    <3>3. CASE Spending(r)
      <4>1. PICK c \in alarmCalls : c.is = "spend" /\ c.pc = "asked" /\ <<c.id, c.hash>> = r
        BY <3>3 DEF Spending
      <4>2. c \in alarmCalls'
        BY <2>3, <4>1
      <4> QED BY <4>1, <4>2 DEF Spending
    <3> QED BY <3>1, <3>2, <3>3
  <2> QED BY <2>2, <2>3
<1> QED BY <1>7, <1>8, <1>9 DEF AlarmInv

\* A request of the user is added: none of them spends an alarm.
LEMMA AskKeeps ==
    ASSUME AlarmInv, NEW is \in {"toggle", "edit", "remove", "add"}, NEW a \in Alarms, NEW hash \in Nat,
           NEW s \in Sent, NEW on \in BOOLEAN, Ask(is, a, hash, s, on)
    PROVE  AlarmInv'
<1> DEFINE call == Call(is, alarmPage.mount, a, hash, s[1], s[2], on)
<1>1. /\ alarmCalls' = alarmCalls \cup {call}
      /\ UNCHANGED <<alarm, alarmPage, nextHash, rang, unspent, setAs>>
  BY DEF Ask
<1>2. call \in AlarmRequest /\ call.is # "spend"
  BY SchedulePieces DEF Call, AlarmRequest, AlarmInv, AlarmTypeOK, PageBelow
<1> HIDE DEF call
<1>3. \A c \in alarmCalls' : c \in AlarmRequest /\ (c.is = "spend" => ~c.on)
  BY <1>1, <1>2 DEF AlarmInv, AlarmTypeOK
<1>4. PageBelow(alarmPage', Newest)
  BY <1>1 DEF AlarmInv, AlarmTypeOK
<1> QED BY <1>1, <1>3, <1>4, RowsStay

\* The toggle and the form of a new alarm.
LEMMA UserAsks ==
    ASSUME AlarmInv, NEW a \in Alarms, toggle(a) \/ (\E s \in Schedules : SaveNew(a, s))
    PROVE  AlarmInv'
<1>1. CASE toggle(a)
  <2>1. Exists(alarmPage.list[a])
    BY <1>1 DEF toggle
  <2>2. alarmPage.list[a].hash \in Nat
    BY <2>1, RowBelow DEF AlarmInv, AlarmTypeOK, PageBelow
  <2>3. NoSchedule \in Sent /\ (~alarmPage.list[a].on) \in BOOLEAN
    BY DEF Sent
  <2>4. Ask("toggle", a, alarmPage.list[a].hash, NoSchedule, ~alarmPage.list[a].on)
    BY <1>1 DEF toggle
  <2> QED BY <2>2, <2>3, <2>4, AskKeeps
<1>2. ASSUME NEW s \in Schedules, SaveNew(a, s) PROVE AlarmInv'
  <2>1. s \in Sent /\ Ask("add", a, 0, s, TRUE)
    BY <1>2 DEF SaveNew, Sent
  <2> QED BY <2>1, AskKeeps
<1> QED BY <1>1, <1>2

\* The editor and the delete dialog, with a version that was listed.
LEMMA DialogAsks ==
    ASSUME AlarmInv, NEW k \in alarmPage.seen,
           RemoveAlarm(k[1], k[2]) \/ (\E s \in Schedules : SaveEdit(k[1], k[2], s))
    PROVE  AlarmInv'
<1>1. k[1] \in Alarms /\ k[2] \in Nat
  BY DEF AlarmInv, AlarmTypeOK, PageBelow
<1>2. CASE RemoveAlarm(k[1], k[2])
  <2>1. NoSchedule \in Sent
    BY DEF Sent
  <2>2. Ask("remove", k[1], k[2], NoSchedule, FALSE)
    BY <1>2 DEF RemoveAlarm
  <2> QED BY <1>1, <2>1, <2>2, AskKeeps
<1>3. ASSUME NEW s \in Schedules, SaveEdit(k[1], k[2], s) PROVE AlarmInv'
  <2>1. s \in Sent /\ Ask("edit", k[1], k[2], s, FALSE)
    BY <1>3 DEF SaveEdit, Sent
  <2> QED BY <1>1, <2>1, AskKeeps
<1> QED BY <1>2, <1>3

\* A request is answered: it is no longer one that waits.
LEMMA AnsweredCall ==
    ASSUME AlarmInv, NEW c \in alarmCalls, c.pc = "asked", NEW pc \in {"done", "refused"},
           alarmCalls' = (alarmCalls \ {c}) \union {[c EXCEPT !.pc = pc]}
    PROVE  /\ \A d \in alarmCalls' : d \in AlarmRequest /\ (d.is = "spend" => ~d.on)
           /\ \A d \in alarmCalls : d # c => d \in alarmCalls'
<1>1. c \in AlarmRequest /\ (c.is = "spend" => ~c.on)
  BY DEF AlarmInv, AlarmTypeOK
<1>2. PICK e : e = [c EXCEPT !.pc = pc]
  OBVIOUS
<1>3. e \in AlarmRequest /\ e.is = c.is /\ e.on = c.on
  BY <1>1, <1>2 DEF AlarmRequest
<1> QED BY <1>1, <1>2, <1>3 DEF AlarmInv, AlarmTypeOK

\* What a page is left with when an answer, or none, comes.
LEMMA AnsweredLeaves ==
    ASSUME AlarmTypeOK, NEW c \in alarmCalls, NEW ok \in BOOLEAN, Answered(c, ok)
    PROVE  /\ alarmCalls' = alarmCalls \ {c} /\ PageBelow(alarmPage', Newest)
           /\ alarmPage'.list = alarmPage.list /\ alarmPage'.now = alarmPage.now
           /\ alarmPage'.fired = alarmPage.fired
<1>1. PageBelow(alarmPage, Newest)
  BY DEF AlarmTypeOK
<1>2. alarmPage' = alarmPage \/ alarmPage' = Reading(alarmPage)
  BY DEF Answered
<1>3. alarmCalls' = alarmCalls \ {c}
  BY DEF Answered
<1> QED BY <1>1, <1>2, <1>3, ReadingBelow

\* The answer comes, or the request or its answer is lost.
LEMMA CallEnds ==
    ASSUME AlarmInv, NEW c \in alarmCalls, AnswerComes(c) \/ CallFails(c)
    PROVE  AlarmInv'
<1>1. PICK ok \in BOOLEAN : Answered(c, ok)
  <2>1. (c.pc = "done") \in BOOLEAN
    OBVIOUS
  <2> QED BY <2>1 DEF AnswerComes, CallFails
<1>2. UNCHANGED <<alarm, nextHash, rang, setAs>>
  BY DEF AnswerComes, CallFails
<1>3. unspent \subseteq unspent' /\ (c.is = "spend" /\ c.pc = "asked" => <<c.id, c.hash>> \in unspent')
  <2>1. CASE AnswerComes(c)
    BY <2>1 DEF AnswerComes
  <2>2. CASE CallFails(c)
    BY <2>2 DEF CallFails, Unspent
  <2> QED BY <2>1, <2>2
<1>4. alarmCalls' = alarmCalls \ {c} /\ PageBelow(alarmPage', Newest)
  BY <1>1, AnsweredLeaves DEF AlarmInv
<1>5. \A d \in alarmCalls' : d \in AlarmRequest /\ (d.is = "spend" => ~d.on)
  BY <1>4 DEF AlarmInv, AlarmTypeOK
<1> QED BY <1>2, <1>3, <1>4, <1>5, RowsStay

\* The row that an accepted request leaves.
LEMMA WrittenRow ==
    ASSUME AlarmInv, NEW c \in alarmCalls, Accepted(c)
    PROVE  /\ Written(c) \in AlarmView /\ (Exists(Written(c)) => Written(c).hash = nextHash)
           /\ c.is = "spend" => ~Written(c).on
<1>1. c \in AlarmRequest /\ nextHash \in Nat /\ alarm[c.id] \in AlarmView /\ (c.is = "spend" => ~c.on)
  BY DEF AlarmInv, AlarmTypeOK, AlarmRequest
<1>2. CASE c.is = "add"
  <2>1. Written(c) = [is |-> "row", minute |-> c.minute, repeat |-> c.repeat, on |-> TRUE, hash |-> nextHash]
    BY <1>2 DEF Written, AlarmRow
  <2>2. c.minute \in MinutesOf /\ c.repeat \in DaysOf
    BY <1>1 DEF AlarmRequest
  <2>3. Written(c) \in AlarmRows /\ Written(c).hash = nextHash
    BY <1>1, <2>1, <2>2 DEF AlarmRows
  <2> QED BY <1>2, <2>3 DEF AlarmView
<1>3. CASE c.is = "remove"
  BY <1>3 DEF Written, AlarmView, NoAlarm, Deleted, Exists
<1>4. CASE c.is \in {"edit", "spend", "toggle"}
  <2>1. alarm[c.id] \in AlarmRows
    BY <1>1, <1>4 DEF Accepted, Exists, AlarmView, NoAlarm, Deleted
  <2>2. c.minute \in MinutesOf /\ c.repeat \in DaysOf /\ c.on \in BOOLEAN
    BY <1>1 DEF AlarmRequest
  <2>3. CASE c.is = "edit"
    <3> DEFINE m1 == [alarm[c.id] EXCEPT !.minute = c.minute]
               m2 == [m1 EXCEPT !.repeat = c.repeat]
               m3 == [m2 EXCEPT !.hash = nextHash]
    <3>1. m1 \in AlarmRows
      BY <2>1, <2>2 DEF AlarmRows
    <3>2. Written(c) = m3
      BY <2>3 DEF Written, Changed
    <3> HIDE DEF m1
    <3>3. m2 \in AlarmRows
      BY <2>2, <3>1 DEF AlarmRows
    <3> HIDE DEF m2
    <3>4. m3 \in AlarmRows /\ m3.hash = nextHash
      BY <1>1, <3>3 DEF AlarmRows
    <3> HIDE DEF m3
    <3> QED BY <2>3, <3>2, <3>4 DEF AlarmView
  <2>4. CASE c.is \in {"spend", "toggle"}
    <3> DEFINE m1 == [alarm[c.id] EXCEPT !.on = c.on]
               m2 == [m1 EXCEPT !.hash = nextHash]
    <3>1. m1 \in AlarmRows /\ m1.on = c.on
      BY <2>1, <2>2 DEF AlarmRows
    <3>2. Written(c) = m2
      BY <2>4 DEF Written, Changed
    <3> HIDE DEF m1
    <3>3. m2 \in AlarmRows /\ m2.hash = nextHash /\ m2.on = c.on
      BY <1>1, <3>1 DEF AlarmRows
    <3> HIDE DEF m2
    <3> QED BY <1>1, <3>2, <3>3 DEF AlarmView
  <2> QED BY <1>4, <2>3, <2>4
<1>5. c.is \in {"spend", "toggle", "edit", "add", "remove"}
  BY <1>1 DEF AlarmRequest
<1> QED BY <1>2, <1>3, <1>4, <1>5

\* A request is served, or refused for the hash of a row that changed.
LEMMA ServeKeeps == ASSUME AlarmInv, NEW c \in alarmCalls, ServeAlarm(c) PROVE AlarmInv'
<1>1. c.id \in Alarms /\ c \in AlarmRequest /\ c.pc = "asked" /\ UNCHANGED <<alarmPage, rang, unspent>>
  BY DEF ServeAlarm, AlarmInv, AlarmTypeOK, AlarmRequest
<1>2. CASE /\ ~Accepted(c) /\ alarmCalls' = (alarmCalls \ {c}) \union {[c EXCEPT !.pc = "refused"]}
           /\ UNCHANGED <<alarm, nextHash, setAs>>
  <2>1. /\ \A d \in alarmCalls' : d \in AlarmRequest /\ (d.is = "spend" => ~d.on)
        /\ \A d \in alarmCalls : d # c => d \in alarmCalls'
    BY <1>1, <1>2, AnsweredCall
  <2>2. c.is = "spend" /\ <<c.id, c.hash>> \in rang => Spent(<<c.id, c.hash>>)
    <3> SUFFICES ASSUME c.is = "spend", <<c.id, c.hash>> \in rang, Exists(alarm[c.id]), alarm[c.id].on
                 PROVE  setAs[c.id] > c.hash
      BY DEF Spent, SetSince
    <3>1. c.hash # alarm[c.id].hash
      BY <1>2 DEF Accepted
    <3>2. c.hash \in Nat /\ c.hash <= Newest[c.id]
      BY <1>1 DEF AlarmInv, AlarmTypeOK, AlarmRequest
    <3>3. Newest[c.id] = alarm[c.id].hash /\ alarm[c.id].hash \in Nat
      BY <1>1, NewestPast DEF AlarmInv, AlarmTypeOK
    <3>4. setAs[c.id] = alarm[c.id].hash
      BY <1>1 DEF AlarmInv, OnAsSet
    <3> QED BY <3>1, <3>2, <3>3, <3>4
  <2>3. PageBelow(alarmPage', Newest)
    BY <1>1 DEF AlarmInv, AlarmTypeOK
  <2> QED BY <1>1, <1>2, <2>1, <2>2, <2>3, RowsStay
<1>3. CASE /\ Accepted(c) /\ alarm' = [alarm EXCEPT ![c.id] = Written(c)] /\ nextHash' = nextHash + 1
           /\ setAs' = (IF c.is = "spend" THEN setAs ELSE [setAs EXCEPT ![c.id] = nextHash])
           /\ alarmCalls' = (alarmCalls \ {c}) \union {[c EXCEPT !.pc = "done"]}
  <2>1. /\ \A d \in alarmCalls' : d \in AlarmRequest /\ (d.is = "spend" => ~d.on)
        /\ \A d \in alarmCalls : d # c => d \in alarmCalls'
    BY <1>1, <1>3, AnsweredCall
  <2>2. PICK row2 \in AlarmView : row2 = Written(c)
    BY <1>3, WrittenRow
  <2>3. (Exists(row2) => row2.hash = nextHash) /\ (c.is = "spend" => ~row2.on)
    BY <1>3, <2>2, WrittenRow
  <2>4. \A d \in alarmCalls : d.is = "spend" /\ d.pc = "asked" => d \in alarmCalls' \/ d.id = c.id
    BY <2>1
  <2>5. alarm' = [alarm EXCEPT ![c.id] = row2] /\ nextHash' = nextHash + 1
    BY <1>3, <2>2
  <2>6. setAs' = [setAs EXCEPT ![c.id] = nextHash] \/ (setAs' = setAs /\ (Exists(row2) => ~row2.on))
    BY <1>3, <2>3
  <2> QED BY <1>1, <2>1, <2>3, <2>4, <2>5, <2>6, RowReplaced
<1>4. \/ /\ ~Accepted(c) /\ alarmCalls' = (alarmCalls \ {c}) \union {[c EXCEPT !.pc = "refused"]}
         /\ UNCHANGED <<alarm, nextHash, setAs>>
      \/ /\ Accepted(c) /\ alarm' = [alarm EXCEPT ![c.id] = Written(c)] /\ nextHash' = nextHash + 1
         /\ setAs' = (IF c.is = "spend" THEN setAs ELSE [setAs EXCEPT ![c.id] = nextHash])
         /\ alarmCalls' = (alarmCalls \ {c}) \union {[c EXCEPT !.pc = "done"]}
  BY DEF ServeAlarm
<1> QED BY <1>2, <1>3, <1>4

\* Another device writes the row, or deletes it.
LEMMA ElsewhereKeeps ==
    ASSUME AlarmInv, NEW a \in Alarms, NEW row \in RowsElsewhere, Elsewhere(a, row)
    PROVE  AlarmInv'
<1>1. row \in AlarmView /\ (Exists(row) => row.hash = nextHash)
  <2>1. CASE row = Deleted
    BY <2>1 DEF Deleted, Exists, AlarmView
  <2>2. CASE row # Deleted
    <3>1. PICK s \in Schedules, on \in BOOLEAN : row = AlarmRow(s[1], s[2], on, nextHash)
      BY <2>2 DEF RowsElsewhere
    <3>2. nextHash \in Nat /\ s \in Sent
      BY DEF AlarmInv, AlarmTypeOK, Sent
    <3>3. row \in AlarmRows /\ row.hash = nextHash
      BY <3>1, <3>2, RowOfSchedule
    <3> QED BY <3>3 DEF AlarmView
  <2> QED BY <2>1, <2>2
<1>2. /\ alarm' = [alarm EXCEPT ![a] = row] /\ nextHash' = nextHash + 1
      /\ setAs' = [setAs EXCEPT ![a] = nextHash]
      /\ UNCHANGED <<alarmPage, alarmCalls, rang, unspent>>
  BY DEF Elsewhere
<1>3. \A c \in alarmCalls' : c \in AlarmRequest /\ (c.is = "spend" => ~c.on)
  BY <1>2 DEF AlarmInv, AlarmTypeOK
<1>4. \A c \in alarmCalls : c.is = "spend" /\ c.pc = "asked" => c \in alarmCalls' \/ c.id = a
  BY <1>2
<1> QED BY <1>1, <1>2, <1>3, <1>4, RowReplaced

\* The versions of a list.
LEMMA ListedVersions == ASSUME NEW list, NEW newest, RowsBelow(list, newest) PROVE Listed(list) \subseteq Alarms \X Nat
BY RowBelow DEF Listed

\* The list of the page before the effect runs in AlarmsArrive.
Arrived == [alarmPage EXCEPT !.fetch = "none", !.got = NoRows, !.list = alarmPage.got,
                             !.seen = @ \union Listed(alarmPage.got)]
LEMMA ArrivedBelow ==
    ASSUME AlarmTypeOK
    PROVE  PageBelow(Arrived, Newest) /\ Arrived.list = alarmPage.got /\ Arrived.now = alarmPage.now
<1>1. /\ DOMAIN alarmPage = PageFields /\ RowsBelow(alarmPage.got, Newest) /\ alarmPage.mount \in Nat
      /\ alarmPage.seen \in SUBSET (Alarms \X Nat)
  BY DEF AlarmTypeOK, PageBelow
<1>2. /\ DOMAIN Arrived = PageFields /\ Arrived.mount = alarmPage.mount /\ Arrived.got = NoRows
      /\ Arrived.list = alarmPage.got /\ Arrived.now = alarmPage.now
      /\ Arrived.seen = alarmPage.seen \cup Listed(alarmPage.got)
  BY <1>1 DEF Arrived, PageFields
<1>3. RowsBelow(NoRows, Newest)
  BY ClosedBelow
<1>4. Listed(alarmPage.got) \subseteq Alarms \X Nat
  BY <1>1, ListedVersions
<1> QED BY <1>1, <1>2, <1>3, <1>4 DEF PageBelow

\* The page with its clock moved to the time, before the effect runs.
Looked == [alarmPage EXCEPT !.now = time]
LEMMA LookedBelow ==
    ASSUME AlarmTypeOK
    PROVE  /\ PageBelow(Looked, Newest) /\ Looked.list = alarmPage.list /\ Looked.now = time
           /\ Looked.fired = alarmPage.fired
<1>1. DOMAIN alarmPage = PageFields /\ PageBelow(alarmPage, Newest)
  BY DEF AlarmTypeOK, PageBelow
<1>2. /\ DOMAIN Looked = PageFields /\ Looked.list = alarmPage.list /\ Looked.now = time
      /\ Looked.fired = alarmPage.fired /\ Looked.got = alarmPage.got /\ Looked.seen = alarmPage.seen
      /\ Looked.mount = alarmPage.mount
  BY <1>1 DEF Looked, PageFields
<1> QED BY <1>1, <1>2 DEF PageBelow

(* The page is opened, left, or reads its list anew: it knows no row of the future.     *)
LEMMA PageReads ==
    ASSUME AlarmTypeOK, OpenClock \/ CloseClock \/ RefreshAlarms \/ ServeAlarms \/ AlarmsFail
    PROVE  PageBelow(alarmPage', Newest)
<1>1. PageBelow(alarmPage, Newest) /\ DOMAIN alarmPage = PageFields /\ alarmPage.mount \in Nat
  BY DEF AlarmTypeOK, PageBelow
<1>2. CASE OpenClock
  <2> DEFINE v == [Closed(alarmPage.mount + 1) EXCEPT !.open = TRUE, !.now = time]
  <2>1. PageBelow(Closed(alarmPage.mount + 1), Newest)
    BY <1>1, ClosedBelow
  <2>2. PageBelow(v, Newest)
    BY <2>1 DEF PageBelow, PageFields
  <2>3. alarmPage' = Reading(v)
    BY <1>2 DEF OpenClock
  <2> HIDE DEF v
  <2> QED BY <2>2, <2>3, ReadingBelow
<1>3. CASE CloseClock
  BY <1>1, <1>3, ClosedBelow DEF CloseClock
<1>4. CASE RefreshAlarms
  BY <1>1, <1>4, ReadingBelow DEF RefreshAlarms
<1>5. CASE ServeAlarms \/ AlarmsFail
  <2>1. RowsBelow(NoRows, Newest) /\ RowsBelow(alarm, Newest)
    BY ClosedBelow, NewestPast DEF AlarmTypeOK
  <2>2. PICK got \in {NoRows, alarm}, fetch \in {"served", "none"} :
          alarmPage' = [alarmPage EXCEPT !.fetch = fetch, !.got = got]
    BY <1>5 DEF ServeAlarms, AlarmsFail
  <2>3. /\ DOMAIN alarmPage' = PageFields /\ alarmPage'.got = got /\ alarmPage'.list = alarmPage.list
        /\ alarmPage'.mount = alarmPage.mount /\ alarmPage'.seen = alarmPage.seen
    BY <1>1, <2>2 DEF PageFields
  <2> QED BY <1>1, <2>1, <2>2, <2>3 DEF PageBelow
<1> QED BY <1>2, <1>3, <1>4, <1>5

\* Every step of the clock keeps the invariant.
LEMMA AlarmInvKept == AlarmInv /\ [AlarmNext]_alarmVars => AlarmInv'
<1> SUFFICES ASSUME AlarmInv, [AlarmNext]_alarmVars PROVE AlarmInv'
  OBVIOUS
<1>0. AlarmTypeOK /\ PageBelow(alarmPage, Newest)
  BY DEF AlarmInv, AlarmTypeOK
<1>1. ASSUME PageBelow(alarmPage', Newest),
             UNCHANGED <<alarm, alarmCalls, nextHash, rang, unspent, setAs>>
      PROVE  AlarmInv'
  <2>1. \A c \in alarmCalls' : c \in AlarmRequest /\ (c.is = "spend" => ~c.on)
    BY <1>1 DEF AlarmInv, AlarmTypeOK
  <2> QED BY <1>1, <2>1, RowsStay
<1>2. CASE UNCHANGED alarmVars \/ Pass
  BY <1>0, <1>1, <1>2 DEF alarmVars, Pass
<1>3. CASE OpenClock \/ CloseClock \/ RefreshAlarms \/ ServeAlarms \/ AlarmsFail
  <2>1. UNCHANGED <<alarm, alarmCalls, nextHash, rang, unspent, setAs>>
    BY <1>3 DEF OpenClock, CloseClock, RefreshAlarms, ServeAlarms, AlarmsFail
  <2> QED BY <1>0, <1>1, <1>3, <2>1, PageReads
<1>4. CASE Tick
  <2>1. Fire(Looked) /\ UNCHANGED <<alarm, nextHash, setAs>>
    BY <1>4 DEF Tick, Looked
  <2> QED BY <1>0, <2>1, LookedBelow, FireKeeps
<1>5. CASE AlarmsArrive
  <2>1. Fire(Arrived) /\ UNCHANGED <<alarm, nextHash, setAs>>
    BY <1>5 DEF AlarmsArrive, Arrived
  <2> QED BY <1>0, <2>1, ArrivedBelow, FireKeeps
<1> QED BY <1>2, <1>3, <1>4, <1>5, UserAsks, DialogAsks, ElsewhereKeeps, ServeKeeps, CallEnds DEF AlarmNext

\* At first no alarm has rung.
LEMMA AlarmInvInit == AlarmInit => AlarmInv
<1> SUFFICES ASSUME AlarmInit PROVE AlarmInv
  OBVIOUS
<1>1. ASSUME NEW a \in Alarms PROVE alarm[a] \in AlarmView /\ (Exists(alarm[a]) => alarm[a].hash = 0)
  <2>1. alarm[a] = NoAlarm \/ \E s \in Schedules : alarm[a] = AlarmRow(s[1], s[2], TRUE, 0)
    BY DEF AlarmInit
  <2>2. CASE alarm[a] = NoAlarm
    BY <2>2 DEF AlarmView, NoAlarm, Exists
  <2>3. CASE alarm[a] # NoAlarm
    <3>1. PICK s \in Schedules, on \in {TRUE} : alarm[a] = AlarmRow(s[1], s[2], on, 0)
      BY <2>1, <2>3
    <3>2. AlarmRow(s[1], s[2], on, 0) \in AlarmRows /\ AlarmRow(s[1], s[2], on, 0).hash = 0
      <4>1. s \in Sent /\ on \in BOOLEAN /\ 0 \in Nat
        BY DEF Sent
      <4> QED BY <4>1, RowOfSchedule
    <3>3. alarm[a] \in AlarmRows /\ alarm[a].hash = 0
      BY <3>1, <3>2
    <3> QED BY <3>3 DEF AlarmView
  <2> QED BY <2>2, <2>3
<1>2. alarm \in [Alarms -> AlarmView]
  <2>1. alarm = [a \in Alarms |-> alarm[a]]
    BY DEF AlarmInit
  <2> QED BY <1>1, <2>1
<1>3. PageBelow(alarmPage, Newest)
  BY ClosedBelow DEF AlarmInit
<1>4. nextHash = 1 /\ alarmCalls = {} /\ rang = {} /\ setAs = [a \in Alarms |-> 0]
  BY DEF AlarmInit
<1>5. AlarmTypeOK
  BY <1>1, <1>2, <1>3, <1>4 DEF AlarmTypeOK
<1>6. OnAsSet
  BY <1>1, <1>4 DEF OnAsSet
<1> QED BY <1>4, <1>5, <1>6 DEF AlarmInv, SpentAsRung

(* For any alarms, pages opened again, lists that come late and requests lost, refused  *)
(* or overtaken: of a version of a one-shot alarm that rang, the alarm is off, gone or  *)
(* was set since that version, or its request is still on its way, or was lost and it   *)
(* has not rung again.  So whenever PATCH alarms/:id refuses such a request for its     *)
(* hash (clock/index.ts:299), whoever changed the row had set the alarm anew or had     *)
(* switched it off (AlarmSection.tsx:51 and its effect).                                *)
THEOREM RungIsSpent == AlarmSpec => []SpentAsRung
<1>1. AlarmInv => SpentAsRung
  BY DEF AlarmInv
<1> QED BY <1>1, AlarmInvInit, AlarmInvKept, PTL DEF AlarmSpec

-----------------------------------------------------------------------------
\* A window of a minute lies within its day.
LEMMA DayOfWindow ==
    ASSUME NEW now \in Nat, NEW d \in Int, NEW m \in 0..(DayMinutes - 1),
           d * Day + m * Minute <= now, now < d * Day + m * Minute + Minute
    PROVE  now \div Day = d
<1>1. Minute \in Nat /\ Minute > 0 /\ DayMinutes \in Nat /\ DayMinutes > 0
  BY AlarmAssumption
<1>2. PICK x \in Nat : x = m * Minute
  BY <1>1
<1>3. x + Minute <= Minute * DayMinutes
  <2>1. PICK left \in Nat : DayMinutes = m + 1 + left
    <3>1. DayMinutes - (m + 1) \in Nat /\ DayMinutes = m + 1 + (DayMinutes - (m + 1))
      BY <1>1
    <3> QED BY <3>1
  <2>2. Minute * DayMinutes = m * Minute + Minute + Minute * left /\ Minute * left >= 0
    BY <1>1, <2>1
  <2> QED BY <1>1, <1>2, <2>1, <2>2
<1>4. PICK D \in Nat : D = Day /\ D > 0 /\ x + Minute <= D
  BY <1>1, <1>2, <1>3 DEF Day
<1>5. d * D <= now /\ now < d * D + D
  BY <1>1, <1>2, <1>4
<1>6. now \div D = d
  BY <1>4, <1>5
<1> QED BY <1>4, <1>6

\* Days that come later have later occurrences.
LEMMA LaterDay ==
    ASSUME NEW d \in Int, NEW e \in Int, NEW x \in Int, d * Day + x > e * Day + x - 1
    PROVE  e <= d
<1>1. PICK D \in Nat : D = Day /\ D > 0
  BY AlarmAssumption DEF Day
<1>2. d * D > e * D - 1
  BY <1>1
<1>3. d < e => FALSE
  <2> SUFFICES ASSUME d < e PROVE FALSE
    OBVIOUS
  <2>1. PICK g \in Nat : e = d + 1 + g
    <3>1. e - d - 1 \in Nat /\ e = d + 1 + (e - d - 1)
      OBVIOUS
    <3> QED BY <3>1
  <2>2. e * D = d * D + D + g * D /\ g * D >= 0
    BY <1>1, <2>1
  <2> QED BY <1>1, <1>2, <2>2
<1> QED BY <1>3

\* The least of some days.
LEMMA LeastDay ==
    ASSUME NEW S \in SUBSET Nat, S # {}
    PROVE  Min(S) \in S /\ \A d \in S : Min(S) <= d
<1> DEFINE Below == {pair \in Nat \X Nat : pair[1] < pair[2]}
<1>1. IsWellFoundedOn(Below, Nat)
  BY NatLessThanWellFounded DEF OpToRel
<1> HIDE DEF Below
<1>2. PICK x \in S : \A y \in S : ~(<<y, x>> \in Below)
  BY <1>1, WFMin
<1>3. ASSUME NEW y \in S PROVE x <= y
  <2>1. ~(y < x)
    BY <1>2 DEF Below
  <2> QED BY <2>1
<1> QED BY <1>3 DEF Min

\* The minutes of a schedule are minutes of a day.
LEMMA ScheduledMinutes == \A m \in MinutesOf : m \in 0..(DayMinutes - 1)
BY AlarmAssumption DEF MinutesOf, Sent, NoSchedule

\* What the page announces is an occurrence of an alarm that is on, the first that comes.
LEMMA Announces ==
    ASSUME NEW row \in AlarmRows, NEW now \in Nat, nextAlarmOccurrence(row, now) # Never
    PROVE  /\ row.on
           /\ \E d \in Nat : nextAlarmOccurrence(row, now) = OnDay(row, d) /\ Repeats(row, d)
                             /\ now < OnDay(row, d)
<1> DEFINE today == now \div Day
           coming == {d \in today..(today + Week) : OnDay(row, d) > now /\ Repeats(row, d)}
<1>1. row.on /\ coming # {} /\ nextAlarmOccurrence(row, now) = OnDay(row, Min(coming))
  BY DEF nextAlarmOccurrence
<1>2. today \in Nat
  <2>1. Day \in Nat /\ Day > 0
    BY AlarmAssumption DEF Day
  <2> QED BY <2>1
<1>3. coming \subseteq Nat
  BY <1>2, AlarmAssumption
<1> HIDE DEF today
<1>4. Min(coming) \in coming /\ Min(coming) \in Nat
  BY <1>1, <1>3, LeastDay
<1> QED BY <1>1, <1>4

\* An occurrence of an alarm that is on is what the page announced the instant before.
LEMMA Announced ==
    ASSUME NEW row \in AlarmRows, row.on, NEW d \in Nat, Repeats(row, d), OnDay(row, d) >= 1
    PROVE  nextAlarmOccurrence(row, OnDay(row, d) - 1) = OnDay(row, d)
<1> DEFINE now == OnDay(row, d) - 1
           today == now \div Day
           coming == {e \in today..(today + Week) : OnDay(row, e) > now /\ Repeats(row, e)}
<1>1. PICK D \in Nat : D = Day /\ D > 0
  BY AlarmAssumption DEF Day
<1>2. PICK x \in Nat : x = row.minute * Minute /\ x < D
  <2>1. row.minute \in 0..(DayMinutes - 1)
    BY ScheduledMinutes DEF AlarmRows
  <2>2. row.minute * Minute \in Nat /\ row.minute * Minute < Minute * DayMinutes
    <3> PICK m \in 0..(DayMinutes - 1) : m = row.minute
      BY <2>1
    <3>1. PICK left \in Nat : DayMinutes = m + 1 + left
      <4>1. DayMinutes - (m + 1) \in Nat /\ DayMinutes = m + 1 + (DayMinutes - (m + 1))
        BY AlarmAssumption
      <4> QED BY <4>1
    <3>2. m * Minute \in Nat /\ Minute * left \in Nat /\ Minute * DayMinutes = m * Minute + Minute + Minute * left
      BY <3>1, AlarmAssumption
    <3> QED BY <3>1, <3>2, AlarmAssumption
  <2> QED BY <1>1, <2>2 DEF Day
<1>3. \A e \in Int : OnDay(row, e) = e * D + x
  BY <1>1, <1>2 DEF OnDay
<1>4. today \in Int /\ today <= d /\ d <= today + 1
  <2>1. now = d * D + x - 1 /\ now \in Nat
    BY <1>1, <1>2, <1>3
  <2>2. CASE x = 0
    <3>1. (d - 1) * D <= now /\ now < (d - 1) * D + D
      BY <1>1, <2>1, <2>2
    <3>2. now \div D = d - 1
      BY <1>1, <2>1, <3>1
    <3> QED BY <1>1, <3>2
  <2>3. CASE x # 0
    <3>1. d * D <= now /\ now < d * D + D
      BY <1>1, <1>2, <2>1, <2>3
    <3>2. now \div D = d
      BY <1>1, <2>1, <3>1
    <3> QED BY <1>1, <3>2
  <2> QED BY <2>2, <2>3
<1>5. d \in coming
  <2>1. d \in today..(today + Week)
    BY <1>4, AlarmAssumption
  <2>2. OnDay(row, d) > now
    BY <1>1, <1>2, <1>3
  <2> QED BY <2>1, <2>2
<1>6. ASSUME NEW e \in coming PROVE e \in Int /\ d <= e
  <2>1. e \in Int /\ OnDay(row, e) > now
    BY <1>4, AlarmAssumption
  <2>2. e * Day + x > d * Day + x - 1
    BY <1>1, <1>2, <1>3, <2>1
  <2>3. x \in Int
    BY <1>2
  <2> QED BY <2>1, <2>2, <2>3, LaterDay
<1> HIDE DEF today, now
<1>7. Min(coming) = d
  BY <1>5, <1>6 DEF Min
<1>8. coming # {} /\ nextAlarmOccurrence(row, now) = IF ~row.on \/ coming = {} THEN Never ELSE OnDay(row, Min(coming))
  BY <1>5 DEF nextAlarmOccurrence, today
<1> QED BY <1>7, <1>8 DEF now

-----------------------------------------------------------------------------
\* What is due on a page has rung: the effect ran after each of its renders.
RingInv ==
    /\ AlarmTypeOK
    /\ time \in Nat /\ alarmPage.now \in Nat /\ alarmPage.now <= time
    /\ Due(alarmPage) = {}

\* The effect leaves nothing that is due.
LEMMA FireRings ==
    ASSUME AlarmTypeOK, NEW v, PageBelow(v, Newest),
           v.now \in Nat, v.now <= time, time \in Nat, time' = time, Fire(v), AlarmTypeOK'
    PROVE  RingInv'
<1>1. /\ alarmPage'.list = v.list /\ alarmPage'.now = v.now
      /\ alarmPage'.fired = v.fired \cup {<<a, OnDay(v.list[a], v.now \div Day)>> : a \in Due(v)}
  BY DEF Fire, PageBelow, PageFields
<1>2. ASSUME NEW a \in Due(alarmPage') PROVE FALSE
  <2>1. CASE a \in Due(v)
    BY <1>1, <2>1 DEF Due
  <2>2. CASE a \notin Due(v)
    BY <1>1, <2>2 DEF Due
  <2> QED BY <2>1, <2>2
<1> QED BY <1>1, <1>2 DEF RingInv

\* A step that leaves the clock, the list and what rang alone.
LEMMA SilentRings ==
    ASSUME RingInv, AlarmTypeOK', time' \in Nat, time <= time', alarmPage'.now = alarmPage.now,
           alarmPage'.list = alarmPage.list, alarmPage'.fired = alarmPage.fired
    PROVE  RingInv'
<1>1. Due(alarmPage') = Due(alarmPage)
  BY DEF Due
<1> QED BY <1>1 DEF RingInv

\* The steps that leave the page as it is.
LEMMA PageStays ==
    ASSUME \/ Pass
           \/ \E a \in Alarms : toggle(a) \/ (\E s \in Schedules : SaveNew(a, s))
           \/ \E k \in alarmPage.seen : RemoveAlarm(k[1], k[2]) \/ (\E s \in Schedules : SaveEdit(k[1], k[2], s))
           \/ \E a \in Alarms, row \in RowsElsewhere : Elsewhere(a, row)
           \/ \E c \in alarmCalls : ServeAlarm(c)
    PROVE  alarmPage' = alarmPage /\ (time' = time \/ time' = time + 1)
BY DEF Pass, toggle, SaveNew, RemoveAlarm, SaveEdit, Ask, Elsewhere, ServeAlarm

(* The steps that change the page without a look at the clock: the list it shows, its   *)
(* clock and what it fired stay.                                                        *)
LEMMA PageQuiet ==
    ASSUME AlarmTypeOK,
           \/ RefreshAlarms \/ ServeAlarms \/ AlarmsFail
           \/ \E c \in alarmCalls : AnswerComes(c) \/ CallFails(c)
    PROVE  /\ alarmPage'.list = alarmPage.list /\ alarmPage'.now = alarmPage.now
           /\ alarmPage'.fired = alarmPage.fired /\ time' = time
<1>1. PageBelow(alarmPage, Newest) /\ DOMAIN alarmPage = PageFields
  BY DEF AlarmTypeOK, PageBelow
<1>2. CASE RefreshAlarms
  BY <1>1, <1>2, ReadingBelow DEF RefreshAlarms
<1>3. CASE ServeAlarms \/ AlarmsFail
  <2>1. time' = time /\ \E got, fetch : alarmPage' = [alarmPage EXCEPT !.fetch = fetch, !.got = got]
    BY <1>3 DEF ServeAlarms, AlarmsFail
  <2> QED BY <1>1, <2>1 DEF PageFields
<1>4. ASSUME NEW c \in alarmCalls, AnswerComes(c) \/ CallFails(c)
      PROVE  /\ alarmPage'.list = alarmPage.list /\ alarmPage'.now = alarmPage.now
             /\ alarmPage'.fired = alarmPage.fired /\ time' = time
  <2>1. time' = time
    BY <1>4 DEF AnswerComes, CallFails
  <2>2. PICK ok \in BOOLEAN : Answered(c, ok)
    <3>1. (c.pc = "done") \in BOOLEAN
      OBVIOUS
    <3> QED BY <1>4, <3>1 DEF AnswerComes, CallFails
  <2> QED BY <2>1, <2>2, AnsweredLeaves
<1> QED BY <1>2, <1>3, <1>4

LEMMA RingInvKept == AlarmInv /\ RingInv /\ [AlarmNext]_alarmVars => RingInv'
<1> SUFFICES ASSUME AlarmInv, RingInv, [AlarmNext]_alarmVars PROVE RingInv'
  OBVIOUS
<1>1. AlarmTypeOK'
  BY AlarmInvKept DEF AlarmInv
<1>2. AlarmTypeOK /\ time \in Nat /\ alarmPage.now \in Nat /\ alarmPage.now <= time
  BY DEF RingInv
<1>3. ASSUME alarmPage' = alarmPage, time' = time \/ time' = time + 1 PROVE RingInv'
  BY <1>1, <1>2, <1>3, SilentRings
<1>4. CASE UNCHANGED alarmVars
  BY <1>3, <1>4 DEF alarmVars
<1>5. CASE Tick
  <2>1. Fire(Looked) /\ time' = time
    BY <1>5 DEF Tick, Looked
  <2>2. PageBelow(Looked, Newest) /\ Looked.now = time
    BY <1>2, LookedBelow
  <2> QED BY <1>1, <1>2, <2>1, <2>2, FireRings
<1>6. CASE AlarmsArrive
  <2>1. Fire(Arrived) /\ time' = time
    BY <1>6 DEF AlarmsArrive, Arrived
  <2>2. PageBelow(Arrived, Newest) /\ Arrived.now = alarmPage.now
    BY <1>2, ArrivedBelow
  <2> QED BY <1>1, <1>2, <2>1, <2>2, FireRings
<1>7. CASE OpenClock \/ CloseClock
  <2>1. alarmPage'.list = NoRows /\ alarmPage'.now \in {0, time} /\ time' = time
    <3>1. CASE OpenClock
      BY <3>1 DEF OpenClock, Closed, Reading
    <3>2. CASE CloseClock
      BY <3>2 DEF CloseClock, Closed
    <3> QED BY <1>7, <3>1, <3>2
  <2>2. Due(alarmPage') = {}
    BY <2>1 DEF Due, Exists, NoRows, NoAlarm
  <2> QED BY <1>1, <1>2, <2>1, <2>2 DEF RingInv
<1>8. CASE RefreshAlarms \/ ServeAlarms \/ AlarmsFail \/ (\E c \in alarmCalls : AnswerComes(c) \/ CallFails(c))
  <2>1. /\ alarmPage'.list = alarmPage.list /\ alarmPage'.now = alarmPage.now
        /\ alarmPage'.fired = alarmPage.fired /\ time' = time
    BY <1>2, <1>8, PageQuiet
  <2> QED BY <1>1, <1>2, <2>1, SilentRings
<1> QED BY <1>3, <1>4, <1>5, <1>6, <1>7, <1>8, PageStays DEF AlarmNext

\* The clock of an open page moves by its timer alone, and the effect runs then.
LEMMA ClockMoves ==
    ASSUME RingInv, [AlarmNext]_alarmVars, alarmPage.open, alarmPage'.open, alarmPage'.now # alarmPage.now
    PROVE  /\ Tick /\ alarmPage'.now = time /\ alarmPage.now < time /\ alarmPage'.list = alarmPage.list
           /\ alarmPage'.fired = alarmPage.fired \cup
                {<<a, OnDay(alarmPage.list[a], time \div Day)>> : a \in Due(Looked)}
<1>0. AlarmTypeOK
  BY DEF RingInv
<1>1. ~(UNCHANGED alarmVars) /\ ~OpenClock /\ ~CloseClock
  BY DEF alarmVars, OpenClock, CloseClock, Closed
<1>2. ~AlarmsArrive
  <2>1. Arrived.now = alarmPage.now /\ DOMAIN Arrived = PageFields
    BY <1>0, ArrivedBelow DEF PageBelow
  <2>2. AlarmsArrive => Fire(Arrived)
    BY DEF AlarmsArrive, Arrived
  <2> QED BY <2>1, <2>2 DEF Fire, PageFields
<1>3. Tick
  BY <1>0, <1>1, <1>2, PageStays, PageQuiet DEF AlarmNext
<1>4. Looked.list = alarmPage.list /\ Looked.now = time /\ Looked.fired = alarmPage.fired /\ DOMAIN Looked = PageFields
  BY <1>0, LookedBelow DEF PageBelow
<1>5. Fire(Looked)
  BY <1>3 DEF Tick, Looked
<1>6. /\ alarmPage'.now = time /\ alarmPage'.list = alarmPage.list
      /\ alarmPage'.fired = alarmPage.fired \cup
           {<<a, OnDay(alarmPage.list[a], time \div Day)>> : a \in Due(Looked)}
  BY <1>4, <1>5 DEF Fire, PageFields
<1> QED BY <1>3, <1>6 DEF RingInv

LEMMA RingStep ==
    ASSUME AlarmInv, RingInv, [AlarmNext]_alarmVars,
           alarmPage.open, alarmPage'.open, alarmPage'.now # alarmPage.now,
           NEW a \in Alarms, Exists(alarmPage.list[a])
    PROVE  LET row == alarmPage.list[a]
               next == nextAlarmOccurrence(row, alarmPage.now)
               now == alarmPage'.now
               fresh == {k \in alarmPage'.fired \ alarmPage.fired : k[1] = a}
           IN  /\ next # Never /\ next <= now /\ now < next + Minute => <<a, next>> \in alarmPage'.fired
               /\ \A k \in fresh : k[2] > alarmPage.now /\ nextAlarmOccurrence(row, k[2] - 1) = k[2]
<1> DEFINE row == alarmPage.list[a]
           v == Looked
<1>1. /\ alarmPage'.now = time /\ alarmPage.now < time /\ alarmPage.now \in Nat /\ time \in Nat
      /\ alarmPage'.fired = alarmPage.fired \cup
           {<<b, OnDay(alarmPage.list[b], time \div Day)>> : b \in Due(v)}
  BY ClockMoves DEF RingInv
<1>2. v.now = time /\ v.list = alarmPage.list /\ v.fired = alarmPage.fired
  BY LookedBelow DEF AlarmInv
<1>3. row \in AlarmRows /\ row.minute \in 0..(DayMinutes - 1)
  <2>1. row \in AlarmRows
    BY RowBelow DEF AlarmInv, AlarmTypeOK, PageBelow
  <2> QED BY <2>1, ScheduledMinutes DEF AlarmRows
<1> HIDE DEF v, row
<1>4. ASSUME nextAlarmOccurrence(row, alarmPage.now) # Never, nextAlarmOccurrence(row, alarmPage.now) <= time,
             time < nextAlarmOccurrence(row, alarmPage.now) + Minute
      PROVE  <<a, nextAlarmOccurrence(row, alarmPage.now)>> \in alarmPage'.fired
  <2>1. PICK d \in Nat : /\ nextAlarmOccurrence(row, alarmPage.now) = OnDay(row, d) /\ Repeats(row, d)
                         /\ row.on
    BY <1>1, <1>3, <1>4, Announces
  <2>2. OnDay(row, d) = d * Day + row.minute * Minute
    BY DEF OnDay
  <2>3. time \div Day = d
    BY <1>1, <1>3, <1>4, <2>1, <2>2, DayOfWindow
  <2>4. InWindow(time, OnDay(row, d))
    <3>1. OnDay(row, d) \in Int
      BY <1>3, <2>2, AlarmAssumption DEF Day
    <3> QED BY <1>1, <1>4, <2>1, <3>1, AlarmAssumption DEF InWindow
  <2>5. a \in Due(v) \/ <<a, OnDay(row, d)>> \in alarmPage.fired
    BY <1>2, <2>1, <2>3, <2>4 DEF Due, row
  <2> QED BY <1>1, <2>1, <2>3, <2>5 DEF row
<1>5. ASSUME NEW k \in alarmPage'.fired \ alarmPage.fired, k[1] = a
      PROVE  k[2] > alarmPage.now /\ nextAlarmOccurrence(row, k[2] - 1) = k[2]
  <2> DEFINE d == time \div Day
  <2>1. a \in Due(v) /\ k = <<a, OnDay(row, d)>>
    BY <1>1, <1>5 DEF row
  <2>2. /\ row.on /\ InWindow(time, OnDay(row, d)) /\ Repeats(row, d)
        /\ <<a, OnDay(row, d)>> \notin alarmPage.fired
    BY <1>2, <2>1 DEF Due, row
  <2>3. d \in Nat
    <3>1. Day \in Nat /\ Day > 0
      BY AlarmAssumption DEF Day
    <3> QED BY <1>1, <3>1
  <2> HIDE DEF d
  <2>4. OnDay(row, d) = d * Day + row.minute * Minute /\ OnDay(row, d) \in Int
    BY <1>3, <2>3, AlarmAssumption DEF Day, OnDay
  <2>5. OnDay(row, d) <= time /\ time < OnDay(row, d) + Minute
    BY <1>1, <2>2, <2>4, AlarmAssumption DEF InWindow
  <2>6. OnDay(row, d) > alarmPage.now
    <3> SUFFICES ASSUME OnDay(row, d) <= alarmPage.now PROVE FALSE
      BY <1>1, <2>4
    <3>1. alarmPage.now < OnDay(row, d) + Minute
      BY <1>1, <2>4, <2>5, AlarmAssumption
    <3>2. alarmPage.now \div Day = d
      BY <1>1, <1>3, <2>3, <2>4, <3>1, DayOfWindow
    <3>3. InWindow(alarmPage.now, OnDay(row, d))
      BY <1>1, <2>4, <3>1, AlarmAssumption DEF InWindow
    <3>4. a \in Due(alarmPage)
      BY <2>2, <3>2, <3>3 DEF Due, row
    <3> QED BY <3>4 DEF RingInv
  <2>7. OnDay(row, d) >= 1
    BY <1>1, <2>4, <2>6
  <2>8. nextAlarmOccurrence(row, OnDay(row, d) - 1) = OnDay(row, d)
    BY <1>3, <2>2, <2>3, <2>7, Announced
  <2> QED BY <2>1, <2>6, <2>8
<1> QED BY <1>1, <1>4, <1>5 DEF row

\* At first no page is open and no list is known.
LEMMA RingInvInit == AlarmInit => RingInv
<1> SUFFICES ASSUME AlarmInit PROVE RingInv
  OBVIOUS
<1>1. AlarmTypeOK
  BY AlarmInvInit DEF AlarmInv
<1>2. Due(alarmPage) = {}
  BY DEF AlarmInit, Closed, NoRows, Due, Exists, NoAlarm
<1>3. time \in Nat /\ 0 <= time /\ alarmPage.now = 0
  <2>1. Day \in Nat /\ Day >= 1
    BY AlarmAssumption DEF Day
  <2>2. time = Day - 1 /\ alarmPage.now = 0
    BY DEF AlarmInit, Closed
  <2> QED BY <2>1, <2>2
<1> QED BY <1>1, <1>2, <1>3 DEF RingInv

(* For any alarms, length of day and week, and however late the timer of the page:      *)
(* whenever its clock moves, what it announced as next rings if the clock is within its *)
(* minute, and nothing rings that it would not have announced (AlarmSection.tsx:94,     *)
(* timeMath.ts nextAlarmOccurrence).                                                    *)
THEOREM AnnouncedRings == AlarmSpec => RingsAsAnnounced
<1>1. AlarmInv /\ RingInv /\ [AlarmNext]_alarmVars =>
        [(alarmPage.open /\ alarmPage'.open /\ alarmPage'.now # alarmPage.now) =>
          \A a \in Alarms : Exists(alarmPage.list[a]) =>
             LET row == alarmPage.list[a]
                 next == nextAlarmOccurrence(row, alarmPage.now)
                 now == alarmPage'.now
                 fresh == {k \in alarmPage'.fired \ alarmPage.fired : k[1] = a}
             IN  /\ next # Never /\ next <= now /\ now < next + Minute => <<a, next>> \in alarmPage'.fired
                 /\ \A k \in fresh : k[2] > alarmPage.now /\ nextAlarmOccurrence(row, k[2] - 1) = k[2]]_alarmVars
  BY RingStep
<1> QED BY <1>1, AlarmInvInit, AlarmInvKept, RingInvInit, RingInvKept, PTL DEF AlarmSpec, RingsAsAnnounced

-----------------------------------------------------------------------------
(***************************************************************************)
(* The restore of the whole installation.                                  *)
(***************************************************************************)
RestoreTypeOK ==
    /\ db \in [Schemas -> {"none", "then", "now", "torn"}]
    /\ tree \in [Trees -> {"then", "now", "torn"}]
    /\ backup \in [Parts -> {"none", "torn", "whole"}]
    /\ script \in {"rest", "create", "previous", "psql", "install"} \X Nat

\* The parts are written in their order, the metadata last: when it is whole, all are.
BackupInOrder ==
    /\ script[1] = "create" => /\ script[2] \in 1..4 /\ backup["metadata"] = "none"
                               /\ \A j \in 1..4 : j < script[2] => backup[Order[j]] = "whole"
    /\ backup["metadata"] = "whole" => \A p \in Parts : backup[p] = "whole"
    /\ script[1] \in {"previous", "psql", "install"} => backup["metadata"] = "whole"

\* A staging directory from which a tree can be had whole.
Keeps(r, t) == r.incoming = Trees /\ t \in DOMAIN r.previous /\ r.previous[t] # "torn"

\* What an earlier run left undone is in a directory that stayed behind.
LeftRecoverable ==
    script[1] # "install" => \A t \in Trees : (unfinished /\ ~doubt) \/ tree[t] = "torn" =>
        \E r \in retained : Keeps(r, t)

\* Before the dump is loaded both trees are kept; those that are installed are new.
StagedFirst ==
    /\ script[1] \in {"previous", "psql", "install"} => stage.incoming = Trees /\ DOMAIN stage = {"incoming", "previous"}
    /\ script[1] = "previous" => stage.previous = <<>>
    /\ script[1] \in {"psql", "install"} => \A t \in Trees : \E r \in retained \cup {stage} : Keeps(r, t)
    /\ script[1] = "install" => /\ script[2] \in 1..3
                                /\ \A j \in 1..2 : j < script[2] => tree[InstallOrder[j]] = "then"

RestoreInv ==
    /\ RestoreTypeOK /\ BackupInOrder /\ LeftRecoverable /\ StagedFirst
    /\ \A s \in Schemas : db[s] # "torn"

\* A backup is written, part by part.
LEMMA CreateKeeps == ASSUME RestoreInv, CreateStart \/ CreatePart PROVE RestoreInv'
<1>1. UNCHANGED <<db, tree, stage, retained, unfinished, doubt>>
  BY DEF CreateStart, CreatePart
<1>2. CASE CreateStart
  BY <1>1, <1>2 DEF CreateStart, RestoreInv, RestoreTypeOK, BackupInOrder, LeftRecoverable, StagedFirst, Rest, Parts
<1>3. CASE CreatePart
  <2>1. /\ script[1] = "create" /\ script[2] \in 1..4 /\ backup["metadata"] = "none" /\ Len(Order) = 4
        /\ \A j \in 1..4 : Order[j] \in Parts /\ (Order[j] = "metadata" <=> j = 4)
        /\ \A p \in Parts : \E j \in 1..4 : p = Order[j]
        /\ \A j \in 1..4 : j < script[2] => backup[Order[j]] = "whole"
    BY <1>3 DEF CreatePart, RestoreInv, BackupInOrder, Order, Parts, Trees
  <2> DEFINE i == script[2]
  <2>2. CASE backup' = [backup EXCEPT ![Order[i]] = "whole"] /\ script' = IF i = 4 THEN Rest ELSE <<"create", i + 1>>
    <3>1. \A p \in Parts : backup'[p] = IF p = Order[i] THEN "whole" ELSE backup[p]
      BY <2>1, <2>2 DEF RestoreInv, RestoreTypeOK
    <3>2. CASE i = 4
      <4>1. script' = <<"rest", 0>>
        BY <2>2, <3>2 DEF Rest
      <4>2. \A j \in 1..4 : backup'[Order[j]] = "whole"
        BY <2>1, <3>1, <3>2
      <4>3. \A p \in Parts : backup'[p] = "whole"
        BY <2>1, <4>2
      <4> QED BY <1>1, <2>1, <2>2, <4>1, <4>3
              DEF RestoreInv, RestoreTypeOK, BackupInOrder, LeftRecoverable, StagedFirst
    <3>3. CASE i # 4
      <4>1. script' = <<"create", i + 1>> /\ i + 1 \in 1..4
        BY <2>1, <2>2, <3>3
      <4>2. \A j \in 1..4 : j < i + 1 => backup'[Order[j]] = "whole"
        BY <2>1, <3>1
      <4>3. backup'["metadata"] = "none"
        BY <2>1, <3>1, <3>3 DEF Parts
      <4> QED BY <1>1, <2>1, <2>2, <4>1, <4>2, <4>3
              DEF RestoreInv, RestoreTypeOK, BackupInOrder, LeftRecoverable, StagedFirst
    <3> QED BY <3>2, <3>3
  <2>3. CASE backup' = [backup EXCEPT ![Order[i]] = "torn"] /\ script' = Rest
    <3>1. backup'["metadata"] \in {"none", "torn"}
      BY <2>1, <2>3 DEF RestoreInv, RestoreTypeOK, Parts
    <3> QED BY <1>1, <2>1, <2>3, <3>1
            DEF RestoreInv, RestoreTypeOK, BackupInOrder, LeftRecoverable, StagedFirst, Rest
  <2> QED BY <1>3, <2>1, <2>2, <2>3 DEF CreatePart
<1> QED BY <1>2, <1>3

\* The installation is used between two runs.
LEMMA ChangeKeeps == ASSUME RestoreInv, Change PROVE RestoreInv'
BY DEF Change, Rest, RestoreInv, RestoreTypeOK, BackupInOrder, LeftRecoverable, StagedFirst

\* A restore begins, and both trees are copied before anything else.
LEMMA StageKeeps == ASSUME RestoreInv, Preflight \/ snapshotIfPresent PROVE RestoreInv'
<1>1. CASE Preflight
  BY <1>1 DEF Preflight, Rest, NoStage, RestoreInv, RestoreTypeOK, BackupInOrder, LeftRecoverable, StagedFirst
<1>2. CASE snapshotIfPresent
  <2>1. /\ script' = <<"psql", 0>> /\ stage'.previous = tree /\ stage'.incoming = Trees
        /\ DOMAIN stage' = {"incoming", "previous"}
        /\ UNCHANGED <<db, tree, backup, retained, unfinished, doubt>> /\ script[1] = "previous"
    BY <1>2 DEF snapshotIfPresent, RestoreInv, StagedFirst
  <2>2. ASSUME NEW t \in Trees PROVE \E r \in retained \cup {stage'} : Keeps(r, t)
    <3>1. CASE tree[t] # "torn"
      <4>1. Keeps(stage', t)
        BY <2>1, <3>1 DEF Keeps, RestoreInv, RestoreTypeOK
      <4> QED BY <4>1
    <3>2. CASE tree[t] = "torn"
      BY <2>1, <3>2 DEF RestoreInv, LeftRecoverable
    <3> QED BY <3>1, <3>2
  <2> QED BY <2>1, <2>2 DEF RestoreInv, RestoreTypeOK, BackupInOrder, LeftRecoverable, StagedFirst, Keeps
<1> QED BY <1>1, <1>2

\* The dump is loaded: whole, since the backup is.
LEMMA LoadedWhole ==
    ASSUME RestoreInv, script[1] = "psql"
    PROVE  AfterLoad \in [Schemas -> {"none", "then", "now", "torn"}] /\ \A s \in Schemas : AfterLoad[s] # "torn"
<1>1. backup["database"] = "whole"
  BY DEF RestoreInv, BackupInOrder, Parts
<1> QED BY <1>1 DEF AfterLoad, RestoreInv, RestoreTypeOK

\* A run stops without its staging directory.
LEMMA EndsUnkept ==
    ASSUME RestoreInv, Ends(FALSE), script[1] # "install" \/ script = <<"install", 3>>,
           db' \in [Schemas -> {"none", "then", "now", "torn"}], \A s \in Schemas : db'[s] # "torn",
           UNCHANGED <<tree, backup>>, (unfinished' /\ ~doubt') => unfinished /\ ~doubt /\ script[1] # "install"
    PROVE  RestoreInv'
<1>1. script' = <<"rest", 0>> /\ retained' = retained
  BY DEF Ends, Rest
<1>2. LeftRecoverable'
  <2> SUFFICES ASSUME NEW t \in Trees, (unfinished' /\ ~doubt') \/ tree[t] = "torn" PROVE \E r \in retained : Keeps(r, t)
    BY <1>1 DEF LeftRecoverable, Keeps
  <2>1. CASE script[1] # "install"
    BY <2>1 DEF RestoreInv, LeftRecoverable
  <2>2. CASE script = <<"install", 3>>
    <3>1. tree["storage"] = "then" /\ tree["config"] = "then"
      BY <2>2 DEF RestoreInv, StagedFirst, InstallOrder
    <3> QED BY <2>2, <3>1 DEF Trees
  <2> QED BY <2>1, <2>2
<1> QED BY <1>1, <1>2 DEF RestoreInv, RestoreTypeOK, BackupInOrder, StagedFirst

\* A run stops, and its staging directory stays behind.
LEMMA EndsKept ==
    ASSUME RestoreInv, script[1] \in {"previous", "psql", "install"}, script' = Rest, retained' = retained \cup {stage},
           db' \in [Schemas -> {"none", "then", "now", "torn"}], \A s \in Schemas : db'[s] # "torn",
           UNCHANGED <<tree, backup, doubt>>, unfinished' = unfinished \/ script[1] = "psql"
    PROVE  RestoreInv'
<1>1. script' = <<"rest", 0>>
  BY DEF Rest
<1>2. LeftRecoverable'
  BY <1>1 DEF RestoreInv, LeftRecoverable, StagedFirst, Keeps
<1> QED BY <1>1, <1>2 DEF RestoreInv, RestoreTypeOK, BackupInOrder, StagedFirst

\* The dump is loaded, or psql fails, before or after the commit.
LEMMA PsqlKeeps == ASSUME RestoreInv, Psql \/ PsqlFails PROVE RestoreInv'
<1>1. CASE Psql
  <2>1. /\ script' = <<"install", 1>> /\ db' = AfterLoad /\ script[1] = "psql"
        /\ UNCHANGED <<tree, backup, stage, retained, doubt>>
    BY <1>1 DEF Psql
  <2>2. \A j \in 1..2 : ~(j < 1)
    OBVIOUS
  <2> QED BY <2>1, <2>2, LoadedWhole DEF RestoreInv, RestoreTypeOK, BackupInOrder, LeftRecoverable, StagedFirst, Keeps
<1>2. CASE PsqlFails
  <2>1. /\ script[1] = "psql" /\ Ends(FALSE) /\ UNCHANGED <<tree, backup>>
        /\ \/ UNCHANGED <<db, unfinished, doubt>>
           \/ db' = AfterLoad /\ unfinished' = TRUE /\ doubt' = TRUE
    BY <1>2 DEF PsqlFails
  <2>2. db' \in [Schemas -> {"none", "then", "now", "torn"}] /\ \A s \in Schemas : db'[s] # "torn"
    BY <2>1, LoadedWhole DEF RestoreInv, RestoreTypeOK
  <2> QED BY <2>1, <2>2, EndsUnkept
<1> QED BY <1>1, <1>2

\* A tree is emptied, then copied.
LEMMA InstallKeeps == ASSUME RestoreInv, Install PROVE RestoreInv'
<1> DEFINE t == InstallOrder[script[2]]
<1>1. /\ script[1] = "install" /\ script[2] \in 1..2 /\ t \in Trees
      /\ UNCHANGED <<db, backup, stage, retained, unfinished, doubt>>
  <2>1. script[2] \in 1..3 /\ Len(InstallOrder) = 2
    BY DEF Install, RestoreInv, StagedFirst, InstallOrder
  <2> QED BY <2>1 DEF Install, InstallOrder, Trees
<1>2. CASE tree' = [tree EXCEPT ![t] = "torn"] /\ script' = script
  <2>1. tree' \in [Trees -> {"then", "now", "torn"}] /\ \A u \in Trees : u # t => tree'[u] = tree[u]
    BY <1>1, <1>2 DEF RestoreInv, RestoreTypeOK
  <2>2. \A j \in 1..2 : j < script[2] => InstallOrder[j] # t /\ InstallOrder[j] \in Trees
    BY <1>1 DEF InstallOrder, Trees
  <2> QED BY <1>1, <1>2, <2>1, <2>2 DEF RestoreInv, RestoreTypeOK, BackupInOrder, LeftRecoverable, StagedFirst, Keeps
<1>3. CASE tree' = [tree EXCEPT ![t] = "then"] /\ script' = <<"install", script[2] + 1>>
  <2>1. /\ tree' \in [Trees -> {"then", "now", "torn"}] /\ tree'[t] = "then"
        /\ \A u \in Trees : u # t => tree'[u] = tree[u]
    BY <1>1, <1>3 DEF RestoreInv, RestoreTypeOK
  <2>2. script'[1] = "install" /\ script'[2] = script[2] + 1 /\ script'[2] \in 1..3
        /\ script' \in {"rest", "create", "previous", "psql", "install"} \X Nat
    BY <1>1, <1>3
  <2>3. \A j \in 1..2 : j < script'[2] => tree'[InstallOrder[j]] = "then"
    <3> SUFFICES ASSUME NEW j \in 1..2, j < script[2] + 1 PROVE tree'[InstallOrder[j]] = "then"
      BY <2>2
    <3>1. CASE j = script[2]
      BY <2>1, <3>1
    <3>2. CASE j < script[2]
      <4>1. tree[InstallOrder[j]] = "then" /\ InstallOrder[j] \in Trees
        BY <1>1, <3>2 DEF RestoreInv, StagedFirst, InstallOrder, Trees
      <4> QED BY <2>1, <4>1
    <3> QED BY <1>1, <3>1, <3>2
  <2> QED BY <1>1, <2>1, <2>2, <2>3 DEF RestoreInv, RestoreTypeOK, BackupInOrder, LeftRecoverable, StagedFirst, Keeps
<1> QED BY <1>2, <1>3 DEF Install

\* The ways a restore ends after the dump is loaded, and a crash.
LEMMA RunStops == ASSUME RestoreInv, InstallFails \/ Finish \/ ScriptCrash PROVE RestoreInv'
<1>1. CASE InstallFails
  <2>1. script' = Rest /\ retained' = retained \cup {stage} /\ script[1] = "install"
        /\ UNCHANGED <<db, tree, backup, unfinished, doubt>>
    BY <1>1 DEF InstallFails, Ends
  <2> QED BY <2>1, EndsKept DEF RestoreInv, RestoreTypeOK
<1>2. CASE Finish
  <2>1. script = <<"install", 3>> /\ Ends(FALSE) /\ ~unfinished' /\ UNCHANGED <<db, tree, backup>>
    BY <1>2 DEF Finish
  <2> QED BY <2>1, EndsUnkept DEF RestoreInv, RestoreTypeOK
<1>3. CASE ScriptCrash
  <2>1. /\ script[1] \in {"previous", "psql", "install"} /\ script' = Rest /\ retained' = retained \cup {stage}
        /\ UNCHANGED <<tree, backup, doubt>>
        /\ \/ script[1] = "psql" /\ db' = AfterLoad /\ unfinished' = TRUE
           \/ UNCHANGED <<db, unfinished>>
    BY <1>3 DEF ScriptCrash
  <2>2. db' \in [Schemas -> {"none", "then", "now", "torn"}] /\ \A s \in Schemas : db'[s] # "torn"
    BY <2>1, LoadedWhole DEF RestoreInv, RestoreTypeOK
  <2> QED BY <2>1, <2>2, EndsKept
<1> QED BY <1>1, <1>2, <1>3

\* Every step of the scripts keeps the invariant.
LEMMA RestoreInvKept == RestoreInv /\ [RestoreNext]_restoreVars => RestoreInv'
<1> SUFFICES ASSUME RestoreInv, [RestoreNext]_restoreVars PROVE RestoreInv'
  OBVIOUS
<1>1. CASE UNCHANGED restoreVars
  BY <1>1 DEF restoreVars, RestoreInv, RestoreTypeOK, BackupInOrder, LeftRecoverable, StagedFirst, Keeps
<1> QED BY <1>1, CreateKeeps, ChangeKeeps, StageKeeps, PsqlKeeps, InstallKeeps, RunStops DEF RestoreNext

\* A new installation is whole.
LEMMA RestoreInvInit == RestoreInit => RestoreInv
<1> SUFFICES ASSUME RestoreInit PROVE RestoreInv
  OBVIOUS
<1>1. \A s \in Schemas : db[s] \in {"none", "then"}
  BY DEF RestoreInit
<1>2. db \in [Schemas -> {"none", "then", "now", "torn"}]
  <2>1. db = [s \in Schemas |-> db[s]]
    BY DEF RestoreInit
  <2> QED BY <1>1, <2>1
<1> QED BY <1>1, <1>2 DEF RestoreInit, RestoreInv, RestoreTypeOK, BackupInOrder, LeftRecoverable, StagedFirst, Rest, Parts

(* For any schemas and dumps, and wherever a script stops: the database is never loaded *)
(* from a backup that was not finished, and once it is loaded, and until the files are  *)
(* installed too, a staging directory holds the new trees and each old one as it was,   *)
(* unless a commit was reported as a failure (scripts/backup.ts create, restore).       *)
THEOREM RestoreCanResume == RestoreSpec => []RestoreRecoverable
<1>1. RestoreInv => RestoreRecoverable
  <2> SUFFICES ASSUME RestoreInv, NEW t \in Trees, (unfinished /\ ~doubt) \/ tree[t] = "torn"
               PROVE  \E r \in retained \cup {stage} : Keeps(r, t)
    BY DEF RestoreInv, RestoreRecoverable, Keeps
  <2> QED BY DEF RestoreInv, LeftRecoverable, StagedFirst
<1> QED BY <1>1, RestoreInvInit, RestoreInvKept, PTL DEF RestoreSpec

-----------------------------------------------------------------------------
(***************************************************************************)
(* The scanner of a dump.                                                  *)
(***************************************************************************)
\* Counting up to a bound.
LEMMA Counting ==
    ASSUME NEW N \in Nat, NEW S, 0 \in S, \A n \in 0..N : n \in S /\ n < N => n + 1 \in S
    PROVE  0..N \subseteq S
<1> DEFINE Left == {n \in 0..N : n \notin S}
           Below == {pair \in Nat \X Nat : pair[1] < pair[2]}
<1>1. SUFFICES ASSUME Left # {} PROVE FALSE
  OBVIOUS
<1>2. IsWellFoundedOn(Below, Nat)
  BY NatLessThanWellFounded DEF OpToRel
<1>3. PICK n \in Left : \A m \in Left : ~(<<m, n>> \in Below)
  <2>1. Left \subseteq Nat
    OBVIOUS
  <2> HIDE DEF Below, Left
  <2> QED BY <1>1, <1>2, <2>1, WFMin
<1>4. n \in 0..N /\ n \notin S /\ n # 0
  OBVIOUS
<1>5. n - 1 \in 0..N /\ n - 1 < N /\ n - 1 + 1 = n
  BY <1>4
<1>6. <<n - 1, n>> \in Below
  BY <1>4, <1>5
<1>7. n - 1 \in S
  BY <1>3, <1>5, <1>6
<1> QED BY <1>4, <1>5, <1>7

\* A recursion along an interval has a solution.
Runs(f, N, S, first, step) ==
    f \in [0..N -> S] /\ f[0] = first /\ \A n \in 1..N : f[n] = step[n][f[n - 1]]

LEMMA Recursion ==
    ASSUME NEW N \in Nat, NEW S, NEW first \in S, NEW step \in [0..N -> [S -> S]]
    PROVE  \E f : Runs(f, N, S, first, step)
<1> DEFINE Goes(f, m) == f \in [0..m -> S] /\ f[0] = first /\ \A n \in 1..m : f[n] = step[n][f[n - 1]]
           T == {m \in 0..N : \E f : Goes(f, m)}
<1>1. 0 \in T
  <2> DEFINE f == [n \in 0..0 |-> first]
  <2>1. Goes(f, 0)
    OBVIOUS
  <2> HIDE DEF f, Goes
  <2> QED BY <2>1
<1>2. ASSUME NEW m \in 0..N, m \in T, m < N PROVE m + 1 \in T
  <2>1. PICK f : Goes(f, m)
    BY <1>2
  <2> DEFINE g == [n \in 0..(m + 1) |-> IF n = m + 1 THEN step[m + 1][f[m]] ELSE f[n]]
  <2>2. m \in 0..m /\ m + 1 \in 0..N /\ f[m] \in S
    BY <1>2, <2>1
  <2>3. step[m + 1][f[m]] \in S
    BY <2>2
  <2>4. g \in [0..(m + 1) -> S]
    BY <2>1, <2>3
  <2>5. g[0] = first
    BY <2>1
  <2>6. ASSUME NEW n \in 1..(m + 1) PROVE g[n] = step[n][g[n - 1]]
    <3>1. n - 1 \in 0..m /\ g[n - 1] = f[n - 1]
      BY <2>6
    <3>2. CASE n = m + 1
      BY <3>1, <3>2
    <3>3. CASE n # m + 1
      <4>1. n \in 1..m /\ g[n] = f[n]
        BY <3>3
      <4> QED BY <2>1, <3>1, <4>1
    <3> QED BY <3>2, <3>3
  <2>7. Goes(g, m + 1)
    BY <2>4, <2>5, <2>6
  <2> HIDE DEF g, Goes
  <2> QED BY <2>2, <2>7
<1>3. 0..N \subseteq T
  <2> HIDE DEF T
  <2> QED BY <1>1, <1>2, Counting
<1>4. N \in T
  <2> HIDE DEF T
  <2> QED BY <1>3
<1> QED BY <1>4 DEF Runs

Word == {"sql", "line", "rows", "comment", "'", "E'", "$$", "\\'", "''", "\\", "\\.", "--", "/*", "*/", ";",
         "name", "copy"}
Lexeme == [lex : Word, of : Schemas]
ScanState == [in : Word, depth : Int, statement : SUBSET Lexeme, found : SUBSET Schemas]
PieceOf == [is : Piece, of : Schemas]

\* The scanner's states; Clean, where a statement may begin.
ScanAt(where, depth, statement, found) ==
    [in |-> where, depth |-> depth, statement |-> statement, found |-> found]
Clean(found) == ScanAt("sql", 0, {}, found)

LEMMA AtTyped ==
    ASSUME NEW where \in Word, NEW depth \in Int, NEW statement \in SUBSET Lexeme, NEW found \in SUBSET Schemas
    PROVE  ScanAt(where, depth, statement, found) \in ScanState
BY DEF ScanAt, ScanState

LEMMA StateIs ==
    ASSUME NEW s \in ScanState
    PROVE  /\ s = ScanAt(s.in, s.depth, s.statement, s.found)
           /\ s.in \in Word /\ s.depth \in Int /\ s.statement \in SUBSET Lexeme /\ s.found \in SUBSET Schemas
BY DEF ScanAt, ScanState

LEMMA AtFields ==
    ASSUME NEW where, NEW depth, NEW statement, NEW found
    PROVE  /\ ScanAt(where, depth, statement, found).in = where
           /\ ScanAt(where, depth, statement, found).depth = depth
           /\ ScanAt(where, depth, statement, found).statement = statement
           /\ ScanAt(where, depth, statement, found).found = found
BY DEF ScanAt

LEMMA EnterAt ==
    ASSUME NEW where, NEW depth, NEW statement, NEW found, NEW w
    PROVE  Enter(ScanAt(where, depth, statement, found), w) = ScanAt(w, depth, statement, found)
BY DEF Enter, ScanAt

LEMMA ReadAt ==
    ASSUME NEW where, NEW depth, NEW statement, NEW found, NEW x
    PROVE  Read(ScanAt(where, depth, statement, found), x) = ScanAt(where, depth, statement \union {x}, found)
BY DEF Read, ScanAt

LEMMA LeaveAt ==
    ASSUME NEW where, NEW depth, NEW statement, NEW found, NEW x
    PROVE  Leave(ScanAt(where, depth, statement, found), x) = ScanAt("sql", depth, statement \union {x}, found)
BY EnterAt, ReadAt DEF Leave

LEMMA DeeperAt ==
    ASSUME NEW where, NEW depth \in Int, NEW statement, NEW found, NEW n \in Int
    PROVE  Deeper(ScanAt(where, depth, statement, found), n)
           = ScanAt(IF depth + n = 0 THEN "sql" ELSE "comment", depth + n, statement, found)
<1> DEFINE w == IF depth + n = 0 THEN "sql" ELSE "comment"
           m == ScanAt(w, depth, statement, found)
<1>1. Deeper(ScanAt(where, depth, statement, found), n) = [m EXCEPT !.depth = @ + n]
  BY EnterAt, AtFields DEF Deeper
<1>2. [m EXCEPT !.depth = @ + n] = ScanAt(w, depth + n, statement, found)
  <2> HIDE DEF w
  <2> QED BY DEF ScanAt
<1> QED BY <1>1, <1>2

LEMMA Words == "sql" \in Word /\ "line" \in Word /\ "rows" \in Word /\ "comment" \in Word
BY DEF Word

LEMMA ScanTyped == ASSUME NEW s \in ScanState, NEW x \in Lexeme PROVE Scan(s, x) \in ScanState
<1>1. x.of \in Schemas /\ x.lex \in Word
  BY DEF Lexeme
<1>2. /\ s.in \in Word /\ s.depth \in Int /\ s.statement \in SUBSET Lexeme /\ s.found \in SUBSET Schemas
      /\ s = ScanAt(s.in, s.depth, s.statement, s.found)
  BY StateIs
<1>3. s.statement \union {x} \in SUBSET Lexeme
  BY <1>2
<1>4. Leave(s, x) \in ScanState
  <2>1. Leave(s, x) = ScanAt("sql", s.depth, s.statement \union {x}, s.found)
    BY <1>2, LeaveAt
  <2> QED BY <1>2, <1>3, <2>1, Words, AtTyped
<1>5. Read(s, x) \in ScanState
  <2>1. Read(s, x) = ScanAt(s.in, s.depth, s.statement \union {x}, s.found)
    BY <1>2, ReadAt
  <2> QED BY <1>2, <1>3, <2>1, AtTyped
<1>6. ASSUME NEW w \in Word PROVE Enter(s, w) \in ScanState
  <2>1. Enter(s, w) = ScanAt(w, s.depth, s.statement, s.found)
    BY <1>2, EnterAt
  <2> QED BY <1>2, <2>1, AtTyped
<1>7. ASSUME NEW n \in Int PROVE Deeper(s, n) \in ScanState
  <2>1. Deeper(s, n) = ScanAt(IF s.depth + n = 0 THEN "sql" ELSE "comment", s.depth + n, s.statement, s.found)
    <3> DEFINE d == s.depth
               w == s.in
               q == s.statement
               f == s.found
    <3>1. s = ScanAt(w, d, q, f) /\ d \in Int
      BY <1>2
    <3> HIDE DEF d, w, q, f
    <3>2. Deeper(ScanAt(w, d, q, f), n) = ScanAt(IF d + n = 0 THEN "sql" ELSE "comment", d + n, q, f)
      BY <3>1, DeeperAt
    <3> QED BY <3>1, <3>2 DEF d, w, q, f
  <2>2. (IF s.depth + n = 0 THEN "sql" ELSE "comment") \in Word /\ s.depth + n \in Int
    BY <1>2, Words
  <2> QED BY <1>2, <2>1, <2>2, AtTyped
<1>8. EndStatement(s) \in ScanState
  <2>1. Declares(s.statement) \in SUBSET Schemas
    BY <1>2 DEF Declares, Lexeme
  <2> DEFINE w == IF \E q \in s.statement : q.lex = "copy" THEN "rows" ELSE "sql"
             g == s.found \union Declares(s.statement)
  <2>2. EndStatement(s) = ScanAt(w, 0, {}, g)
    <3>1. EndStatement(s) = [in |-> w, depth |-> 0, statement |-> {}, found |-> g]
      BY Zenon DEF EndStatement
    <3> HIDE DEF w, g
    <3> QED BY <3>1 DEF ScanAt
  <2>3. w \in Word
    BY Words
  <2>4. g \in SUBSET Schemas
    <3>1. s.found \in SUBSET Schemas
      BY <1>2
    <3> QED BY <2>1, <3>1
  <2>5. {} \in SUBSET Lexeme /\ 0 \in Int
    OBVIOUS
  <2> HIDE DEF w, g
  <2>6. ScanAt(w, 0, {}, g) \in ScanState
    BY <2>3, <2>4, <2>5, AtTyped
  <2> QED BY <2>2, <2>6
<1>9. Plain(s, x) \in ScanState
  <2>1. Enter(s, "line") \in ScanState /\ Enter(s, x.lex) \in ScanState /\ Deeper(s, 1) \in ScanState
    BY <1>1, <1>6, <1>7, Words
  <2> QED BY <1>5, <1>8, <2>1 DEF Plain
<1>10. Commented(s, x) \in ScanState
  <2>1. Deeper(s, 1) \in ScanState /\ Deeper(s, -1) \in ScanState
    BY <1>7
  <2> QED BY <2>1 DEF Commented
<1>11. Quoted(s, x) \in ScanState
  BY <1>4 DEF Quoted
<1> QED BY <1>4, <1>6, <1>9, <1>10, <1>11, Words DEF Scan



\* x is the lexeme that is written word.
Is(x, word) == x \in Lexeme /\ x.lex = word

\* What each piece is written with.
LEMMA PieceWords ==
    ASSUME NEW k
    PROVE  /\ k = "declaration" => Len(Pieces[k]) = 2 /\ Pieces[k][1] = "name" /\ Pieces[k][2] = ";"
           /\ k = "comment" => /\ Len(Pieces[k]) = 4 /\ Pieces[k][1] = "--" /\ Pieces[k][2] = "name"
                               /\ Pieces[k][3] = ";" /\ Pieces[k][4] = "line"
           /\ k = "nested" => /\ Len(Pieces[k]) = 6 /\ Pieces[k][1] = "/*" /\ Pieces[k][2] = "/*"
                              /\ Pieces[k][3] = "*/" /\ Pieces[k][4] = "name" /\ Pieces[k][5] = ";"
                              /\ Pieces[k][6] = "*/"
           /\ k = "directive" => /\ Len(Pieces[k]) = 4 /\ Pieces[k][1] = "\\" /\ Pieces[k][2] = "name"
                                 /\ Pieces[k][3] = ";" /\ Pieces[k][4] = "line"
           /\ k = "text" => /\ Len(Pieces[k]) = 6 /\ Pieces[k][1] = "'" /\ Pieces[k][2] = "name"
                            /\ Pieces[k][3] = ";" /\ Pieces[k][4] = "''" /\ Pieces[k][5] = "\\'"
                            /\ Pieces[k][6] = ";"
           /\ k = "escaped" => /\ Len(Pieces[k]) = 6 /\ Pieces[k][1] = "E'" /\ Pieces[k][2] = "\\'"
                               /\ Pieces[k][3] = "name" /\ Pieces[k][4] = ";" /\ Pieces[k][5] = "'"
                               /\ Pieces[k][6] = ";"
           /\ k = "body" => /\ Len(Pieces[k]) = 5 /\ Pieces[k][1] = "$$" /\ Pieces[k][2] = "name"
                            /\ Pieces[k][3] = ";" /\ Pieces[k][4] = "$$" /\ Pieces[k][5] = ";"
           /\ k = "rows" => /\ Len(Pieces[k]) = 8 /\ Pieces[k][1] = "copy" /\ Pieces[k][2] = ";"
                            /\ Pieces[k][3] = "line" /\ Pieces[k][4] = "name" /\ Pieces[k][5] = ";"
                            /\ Pieces[k][6] = "line" /\ Pieces[k][7] = "\\." /\ Pieces[k][8] = "line"
<1>1. k = "declaration" => Len(Pieces[k]) = 2 /\ Pieces[k][1] = "name" /\ Pieces[k][2] = ";"
  BY DEF Pieces
<1>2. k = "comment" => /\ Len(Pieces[k]) = 4 /\ Pieces[k][1] = "--" /\ Pieces[k][2] = "name"
                       /\ Pieces[k][3] = ";" /\ Pieces[k][4] = "line"
  BY DEF Pieces
<1>3. k = "nested" => /\ Len(Pieces[k]) = 6 /\ Pieces[k][1] = "/*" /\ Pieces[k][2] = "/*"
                      /\ Pieces[k][3] = "*/" /\ Pieces[k][4] = "name" /\ Pieces[k][5] = ";"
                      /\ Pieces[k][6] = "*/"
  BY DEF Pieces
<1>4. k = "directive" => /\ Len(Pieces[k]) = 4 /\ Pieces[k][1] = "\\" /\ Pieces[k][2] = "name"
                         /\ Pieces[k][3] = ";" /\ Pieces[k][4] = "line"
  BY DEF Pieces
<1>5. k = "text" => /\ Len(Pieces[k]) = 6 /\ Pieces[k][1] = "'" /\ Pieces[k][2] = "name"
                    /\ Pieces[k][3] = ";" /\ Pieces[k][4] = "''" /\ Pieces[k][5] = "\\'"
                    /\ Pieces[k][6] = ";"
  BY DEF Pieces
<1>6. k = "escaped" => /\ Len(Pieces[k]) = 6 /\ Pieces[k][1] = "E'" /\ Pieces[k][2] = "\\'"
                       /\ Pieces[k][3] = "name" /\ Pieces[k][4] = ";" /\ Pieces[k][5] = "'"
                       /\ Pieces[k][6] = ";"
  BY DEF Pieces
<1>7. k = "body" => /\ Len(Pieces[k]) = 5 /\ Pieces[k][1] = "$$" /\ Pieces[k][2] = "name"
                    /\ Pieces[k][3] = ";" /\ Pieces[k][4] = "$$" /\ Pieces[k][5] = ";"
  BY DEF Pieces
<1>8. k = "rows" => /\ Len(Pieces[k]) = 8 /\ Pieces[k][1] = "copy" /\ Pieces[k][2] = ";"
                    /\ Pieces[k][3] = "line" /\ Pieces[k][4] = "name" /\ Pieces[k][5] = ";"
                    /\ Pieces[k][6] = "line" /\ Pieces[k][7] = "\\." /\ Pieces[k][8] = "line"
  BY DEF Pieces
<1> QED BY <1>1, <1>2, <1>3, <1>4, <1>5, <1>6, <1>7, <1>8

LEMMA LexemesTyped ==
    ASSUME NEW p \in PieceOf
    PROVE  /\ Len(Pieces[p.is]) \in Nat
           /\ Lexemes(p) \in Seq(Lexeme) /\ Len(Lexemes(p)) = Len(Pieces[p.is])
           /\ \A j \in 1..Len(Pieces[p.is]) : Is(Lexemes(p)[j], Pieces[p.is][j]) /\ Lexemes(p)[j].of = p.of
<1>1. p.is \in Piece /\ p.of \in Schemas
  BY DEF PieceOf
<1>2. Piece = {"declaration", "comment", "nested", "directive", "text", "escaped", "body", "rows"}
  BY DEF Piece, Pieces
<1> DEFINE w == Pieces[p.is]
           N == Len(w)
<1>3. N \in Nat /\ \A j \in 1..N : w[j] \in Word
  <2> HIDE DEF w, N
  <2>1. CASE p.is = "declaration"
    <3>1. w[1] = "name" /\ w[2] = ";"
      BY <2>1, PieceWords DEF w
    <3>2. w[1] \in Word /\ w[2] \in Word
      BY <3>1 DEF Word
    <3>3. N = 2
      BY <2>1, PieceWords DEF w, N
    <3> QED BY <3>2, <3>3
  <2>2. CASE p.is = "comment"
    <3>1. w[1] = "--" /\ w[2] = "name" /\ w[3] = ";" /\ w[4] = "line"
      BY <2>2, PieceWords DEF w
    <3>2. w[1] \in Word /\ w[2] \in Word /\ w[3] \in Word /\ w[4] \in Word
      BY <3>1 DEF Word
    <3>3. N = 4
      BY <2>2, PieceWords DEF w, N
    <3> QED BY <3>2, <3>3
  <2>3. CASE p.is = "nested"
    <3>1. w[1] = "/*" /\ w[2] = "/*" /\ w[3] = "*/" /\ w[4] = "name" /\ w[5] = ";" /\ w[6] = "*/"
      BY <2>3, PieceWords DEF w
    <3>2. w[1] \in Word /\ w[2] \in Word /\ w[3] \in Word /\ w[4] \in Word /\ w[5] \in Word /\ w[6] \in Word
      BY <3>1 DEF Word
    <3>3. N = 6
      BY <2>3, PieceWords DEF w, N
    <3> QED BY <3>2, <3>3
  <2>4. CASE p.is = "directive"
    <3>1. w[1] = "\\" /\ w[2] = "name" /\ w[3] = ";" /\ w[4] = "line"
      BY <2>4, PieceWords DEF w
    <3>2. w[1] \in Word /\ w[2] \in Word /\ w[3] \in Word /\ w[4] \in Word
      BY <3>1 DEF Word
    <3>3. N = 4
      BY <2>4, PieceWords DEF w, N
    <3> QED BY <3>2, <3>3
  <2>5. CASE p.is = "text"
    <3>1. w[1] = "'" /\ w[2] = "name" /\ w[3] = ";" /\ w[4] = "''" /\ w[5] = "\\'" /\ w[6] = ";"
      BY <2>5, PieceWords DEF w
    <3>2. w[1] \in Word /\ w[2] \in Word /\ w[3] \in Word /\ w[4] \in Word /\ w[5] \in Word /\ w[6] \in Word
      BY <3>1 DEF Word
    <3>3. N = 6
      BY <2>5, PieceWords DEF w, N
    <3> QED BY <3>2, <3>3
  <2>6. CASE p.is = "escaped"
    <3>1. w[1] = "E'" /\ w[2] = "\\'" /\ w[3] = "name" /\ w[4] = ";" /\ w[5] = "'" /\ w[6] = ";"
      BY <2>6, PieceWords DEF w
    <3>2. w[1] \in Word /\ w[2] \in Word /\ w[3] \in Word /\ w[4] \in Word /\ w[5] \in Word /\ w[6] \in Word
      BY <3>1 DEF Word
    <3>3. N = 6
      BY <2>6, PieceWords DEF w, N
    <3> QED BY <3>2, <3>3
  <2>7. CASE p.is = "body"
    <3>1. w[1] = "$$" /\ w[2] = "name" /\ w[3] = ";" /\ w[4] = "$$" /\ w[5] = ";"
      BY <2>7, PieceWords DEF w
    <3>2. w[1] \in Word /\ w[2] \in Word /\ w[3] \in Word /\ w[4] \in Word /\ w[5] \in Word
      BY <3>1 DEF Word
    <3>3. N = 5
      BY <2>7, PieceWords DEF w, N
    <3> QED BY <3>2, <3>3
  <2>8. CASE p.is = "rows"
    <3>1. /\ w[1] = "copy" /\ w[2] = ";" /\ w[3] = "line" /\ w[4] = "name" /\ w[5] = ";" /\ w[6] = "line"
          /\ w[7] = "\\." /\ w[8] = "line"
      BY <2>8, PieceWords DEF w
    <3>2. /\ w[1] \in Word /\ w[2] \in Word /\ w[3] \in Word /\ w[4] \in Word /\ w[5] \in Word
          /\ w[6] \in Word /\ w[7] \in Word /\ w[8] \in Word
      BY <3>1 DEF Word
    <3>3. N = 8
      BY <2>8, PieceWords DEF w, N
    <3> QED BY <3>2, <3>3
  <2> QED BY <1>1, <1>2, <2>1, <2>2, <2>3, <2>4, <2>5, <2>6, <2>7, <2>8
<1> DEFINE lexeme(j) == [lex |-> w[j], of |-> p.of]
<1>4. \A j \in 1..N : lexeme(j) \in Lexeme /\ Is(lexeme(j), w[j]) /\ lexeme(j).of = p.of
  BY <1>1, <1>3 DEF Lexeme, Is
<1>5. Lexemes(p) = [j \in 1..N |-> lexeme(j)]
  BY DEF Lexemes
<1> SUFFICES /\ N \in Nat /\ Lexemes(p) \in Seq(Lexeme) /\ Len(Lexemes(p)) = N
             /\ \A j \in 1..N : Is(Lexemes(p)[j], w[j]) /\ Lexemes(p)[j].of = p.of
  OBVIOUS
<1> HIDE DEF N, lexeme, w
<1> QED BY <1>3, <1>4, <1>5

(* Where a lexeme leads from the text of a statement of which nothing is read, and *)
(* from a statement of one lexeme.                                                 *)
One(q, F) == ScanAt("sql", 0, {q}, F)
Adds(F, q) == F \union {q.of}

LEMMA SqlPlain ==
    ASSUME NEW Q, NEW F, NEW x
    PROVE  /\ Scan(ScanAt("sql", 0, Q, F), x) = Plain(ScanAt("sql", 0, Q, F), x)
           /\ ScanAt("sql", 0, Q, F).statement = Q
BY AtFields DEF Scan

LEMMA SqlComment ==
    ASSUME NEW F, NEW x, Is(x, "--") \/ Is(x, "\\")
    PROVE  Scan(Clean(F), x) = ScanAt("line", 0, {}, F)
<1> DEFINE s == ScanAt("sql", 0, {}, F)
<1>1. Scan(s, x) = Plain(s, x) /\ s.statement = {}
  BY SqlPlain
<1>2. Enter(s, "line") = ScanAt("line", 0, {}, F)
  BY EnterAt
<1> SUFFICES Scan(s, x) = ScanAt("line", 0, {}, F)
  BY DEF Clean
<1> HIDE DEF s
<1> QED BY <1>1, <1>2 DEF Is, Plain

LEMMA SqlNested ==
    ASSUME NEW F, NEW x, Is(x, "/*")
    PROVE  Scan(Clean(F), x) = ScanAt("comment", 1, {}, F)
<1> DEFINE s == ScanAt("sql", 0, {}, F)
<1>1. Scan(s, x) = Plain(s, x) /\ s.statement = {}
  BY SqlPlain
<1>2. Deeper(s, 1) = ScanAt("comment", 1, {}, F)
  BY DeeperAt
<1> SUFFICES Scan(s, x) = ScanAt("comment", 1, {}, F)
  BY DEF Clean
<1> HIDE DEF s
<1> QED BY <1>1, <1>2 DEF Is, Plain

LEMMA SqlText ==
    ASSUME NEW F, NEW x, Is(x, "'")
    PROVE  Scan(Clean(F), x) = ScanAt("'", 0, {}, F)
<1> DEFINE s == ScanAt("sql", 0, {}, F)
<1>1. Scan(s, x) = Plain(s, x) /\ s.statement = {}
  BY SqlPlain
<1>2. Enter(s, "'") = ScanAt("'", 0, {}, F)
  BY EnterAt
<1> SUFFICES Scan(s, x) = ScanAt("'", 0, {}, F)
  BY DEF Clean
<1> HIDE DEF s
<1> QED BY <1>1, <1>2 DEF Is, Plain

LEMMA SqlEscaped ==
    ASSUME NEW F, NEW x, Is(x, "E'")
    PROVE  Scan(Clean(F), x) = ScanAt("E'", 0, {}, F)
<1> DEFINE s == ScanAt("sql", 0, {}, F)
<1>1. Scan(s, x) = Plain(s, x) /\ s.statement = {}
  BY SqlPlain
<1>2. Enter(s, "E'") = ScanAt("E'", 0, {}, F)
  BY EnterAt
<1> SUFFICES Scan(s, x) = ScanAt("E'", 0, {}, F)
  BY DEF Clean
<1> HIDE DEF s
<1> QED BY <1>1, <1>2 DEF Is, Plain

LEMMA SqlBody ==
    ASSUME NEW F, NEW x, Is(x, "$$")
    PROVE  Scan(Clean(F), x) = ScanAt("$$", 0, {}, F)
<1> DEFINE s == ScanAt("sql", 0, {}, F)
<1>1. Scan(s, x) = Plain(s, x) /\ s.statement = {}
  BY SqlPlain
<1>2. Enter(s, "$$") = ScanAt("$$", 0, {}, F)
  BY EnterAt
<1> SUFFICES Scan(s, x) = ScanAt("$$", 0, {}, F)
  BY DEF Clean
<1> HIDE DEF s
<1> QED BY <1>1, <1>2 DEF Is, Plain

LEMMA SqlReads ==
    ASSUME NEW F, NEW x, Is(x, "name") \/ Is(x, "copy")
    PROVE  Scan(Clean(F), x) = One(x, F)
<1> DEFINE s == ScanAt("sql", 0, {}, F)
<1>1. Scan(s, x) = Plain(s, x) /\ s.statement = {}
  BY SqlPlain
<1>2. Read(s, x) = ScanAt("sql", 0, {} \union {x}, F)
  BY ReadAt
<1> SUFFICES Scan(s, x) = ScanAt("sql", 0, {} \union {x}, F)
  BY DEF Clean, One
<1> HIDE DEF s
<1> QED BY <1>1, <1>2 DEF Is, Plain

LEMMA SqlLineEnds ==
    ASSUME NEW F, NEW x, Is(x, "line")
    PROVE  Scan(Clean(F), x) = Clean(F)
<1> DEFINE s == ScanAt("sql", 0, {}, F)
<1>1. Scan(s, x) = Plain(s, x) /\ s.statement = {}
  BY SqlPlain
<1> SUFFICES Scan(s, x) = s
  BY DEF Clean
<1> HIDE DEF s
<1> QED BY <1>1 DEF Is, Plain

LEMMA SqlEnds ==
    ASSUME NEW Q, NEW F, NEW x, Is(x, ";")
    PROVE  Scan(ScanAt("sql", 0, Q, F), x)
           = ScanAt(IF \E q \in Q : q.lex = "copy" THEN "rows" ELSE "sql", 0, {}, F \union Declares(Q))
<1> DEFINE s == ScanAt("sql", 0, Q, F)
<1>1. Scan(s, x) = Plain(s, x)
  BY SqlPlain
<1>2. EndStatement(s) = ScanAt(IF \E q \in Q : q.lex = "copy" THEN "rows" ELSE "sql", 0, {}, F \union Declares(Q))
  BY AtFields DEF EndStatement, ScanAt
<1> SUFFICES Scan(s, x) = EndStatement(s)
  BY <1>2
<1> HIDE DEF s
<1> QED BY <1>1 DEF Is, Plain

LEMMA OneEnds ==
    ASSUME NEW F, NEW x, NEW q, Is(x, ";")
    PROVE  /\ Is(q, "name") => Scan(One(q, F), x) = Clean(F \union {q.of})
           /\ Is(q, "copy") => Scan(One(q, F), x) = ScanAt("rows", 0, {}, F)
           /\ Is(q, "\\'") \/ Is(q, "'") \/ Is(q, "$$") => Scan(One(q, F), x) = Clean(F)
<1> DEFINE Q == {q}
           copies == \E r \in Q : r.lex = "copy"
<1>1. Is(q, "name") => Declares(Q) = {q.of} /\ ~copies
  BY DEF Declares, Is
<1>2. Is(q, "copy") => Declares(Q) = {} /\ copies
  BY DEF Declares, Is
<1>3. Is(q, "\\'") \/ Is(q, "'") \/ Is(q, "$$") => Declares(Q) = {} /\ ~copies
  BY DEF Declares, Is
<1>4. Scan(ScanAt("sql", 0, Q, F), x) = ScanAt(IF copies THEN "rows" ELSE "sql", 0, {}, F \union Declares(Q))
  BY SqlEnds
<1>5. F \union {} = F
  OBVIOUS
<1> HIDE DEF Q, copies
<1>6. ~copies => Scan(ScanAt("sql", 0, Q, F), x) = Clean(F \union Declares(Q))
  BY <1>4 DEF Clean
<1>7. copies => Scan(ScanAt("sql", 0, Q, F), x) = ScanAt("rows", 0, {}, F \union Declares(Q))
  BY <1>4
<1>8. /\ Is(q, "name") => Scan(ScanAt("sql", 0, Q, F), x) = Clean(F \union {q.of})
      /\ Is(q, "copy") => Scan(ScanAt("sql", 0, Q, F), x) = ScanAt("rows", 0, {}, F)
      /\ Is(q, "\\'") \/ Is(q, "'") \/ Is(q, "$$") => Scan(ScanAt("sql", 0, Q, F), x) = Clean(F)
  BY <1>1, <1>2, <1>3, <1>5, <1>6, <1>7
<1> QED BY <1>8 DEF Q, One

LEMMA NameEnds ==
    ASSUME NEW F, NEW x, NEW q, Is(x, ";"), Is(q, "name")
    PROVE  Scan(One(q, F), x) = Clean(Adds(F, q))
BY OneEnds DEF Adds

LEMMA CopyEnds ==
    ASSUME NEW F, NEW x, NEW q, Is(x, ";"), Is(q, "copy")
    PROVE  Scan(One(q, F), x) = ScanAt("rows", 0, {}, F)
BY OneEnds

LEMMA QuoteEnds ==
    ASSUME NEW F, NEW x, NEW q, Is(x, ";"), Is(q, "\\'") \/ Is(q, "'") \/ Is(q, "$$")
    PROVE  Scan(One(q, F), x) = Clean(F)
BY OneEnds

\* Where a lexeme leads from inside something.
LEMMA LineEnds ==
    ASSUME NEW F, NEW x, Is(x, "line")
    PROVE  Scan(ScanAt("line", 0, {}, F), x) = Clean(F)
BY AtFields, EnterAt DEF Is, Scan, Clean

LEMMA StaysLine ==
    ASSUME NEW F, NEW x, NEW v, Is(x, v), v # "line"
    PROVE  Scan(ScanAt("line", 0, {}, F), x) = ScanAt("line", 0, {}, F)
BY AtFields, LeaveAt DEF Is, Scan

LEMMA InLine ==
    ASSUME NEW F, NEW x, Is(x, "name") \/ Is(x, ";")
    PROVE  Scan(ScanAt("line", 0, {}, F), x) = ScanAt("line", 0, {}, F)
<1>1. CASE Is(x, "name")
  BY <1>1, StaysLine
<1>2. CASE Is(x, ";")
  BY <1>2, StaysLine
<1> QED BY <1>1, <1>2

LEMMA RowsEnds ==
    ASSUME NEW F, NEW x, Is(x, "\\.")
    PROVE  Scan(ScanAt("rows", 0, {}, F), x) = Clean(F)
BY AtFields, EnterAt DEF Is, Scan, Clean

LEMMA StaysRows ==
    ASSUME NEW F, NEW x, NEW v, Is(x, v), v # "\\."
    PROVE  Scan(ScanAt("rows", 0, {}, F), x) = ScanAt("rows", 0, {}, F)
BY AtFields, LeaveAt DEF Is, Scan

LEMMA InRows ==
    ASSUME NEW F, NEW x, Is(x, "line") \/ Is(x, "name") \/ Is(x, ";")
    PROVE  Scan(ScanAt("rows", 0, {}, F), x) = ScanAt("rows", 0, {}, F)
<1>1. CASE Is(x, "line")
  BY <1>1, StaysRows
<1>2. CASE Is(x, "name")
  BY <1>2, StaysRows
<1>3. CASE Is(x, ";")
  BY <1>3, StaysRows
<1> QED BY <1>1, <1>2, <1>3

LEMMA TextEnds ==
    ASSUME NEW F, NEW x, Is(x, "\\'")
    PROVE  Scan(ScanAt("'", 0, {}, F), x) = One(x, F)
<1>1. {} \union {x} = {x}
  OBVIOUS
<1>2. Scan(ScanAt("'", 0, {}, F), x) = ScanAt("sql", 0, {} \union {x}, F)
  BY AtFields, LeaveAt DEF Is, Scan, Quoted
<1> QED BY <1>1, <1>2 DEF One

LEMMA StaysText ==
    ASSUME NEW F, NEW x, NEW v, Is(x, v), v \notin {"'", "\\'"}
    PROVE  Scan(ScanAt("'", 0, {}, F), x) = ScanAt("'", 0, {}, F)
BY AtFields, LeaveAt DEF Is, Scan, Quoted

LEMMA InText ==
    ASSUME NEW F, NEW x, Is(x, "name") \/ Is(x, ";") \/ Is(x, "''")
    PROVE  Scan(ScanAt("'", 0, {}, F), x) = ScanAt("'", 0, {}, F)
<1>1. CASE Is(x, "name")
  BY <1>1, StaysText
<1>2. CASE Is(x, ";")
  BY <1>2, StaysText
<1>3. CASE Is(x, "''")
  BY <1>3, StaysText
<1> QED BY <1>1, <1>2, <1>3

LEMMA EscapedEnds ==
    ASSUME NEW F, NEW x, Is(x, "'")
    PROVE  Scan(ScanAt("E'", 0, {}, F), x) = One(x, F)
<1>1. {} \union {x} = {x}
  OBVIOUS
<1>2. Scan(ScanAt("E'", 0, {}, F), x) = ScanAt("sql", 0, {} \union {x}, F)
  BY AtFields, LeaveAt DEF Is, Scan, Quoted
<1> QED BY <1>1, <1>2 DEF One

LEMMA StaysEscaped ==
    ASSUME NEW F, NEW x, NEW v, Is(x, v), v # "'"
    PROVE  Scan(ScanAt("E'", 0, {}, F), x) = ScanAt("E'", 0, {}, F)
BY AtFields, LeaveAt DEF Is, Scan, Quoted

LEMMA InEscaped ==
    ASSUME NEW F, NEW x, Is(x, "name") \/ Is(x, ";") \/ Is(x, "\\'")
    PROVE  Scan(ScanAt("E'", 0, {}, F), x) = ScanAt("E'", 0, {}, F)
<1>1. CASE Is(x, "name")
  BY <1>1, StaysEscaped
<1>2. CASE Is(x, ";")
  BY <1>2, StaysEscaped
<1>3. CASE Is(x, "\\'")
  BY <1>3, StaysEscaped
<1> QED BY <1>1, <1>2, <1>3

LEMMA BodyEnds ==
    ASSUME NEW F, NEW x, Is(x, "$$")
    PROVE  Scan(ScanAt("$$", 0, {}, F), x) = One(x, F)
<1>1. {} \union {x} = {x}
  OBVIOUS
<1>2. Scan(ScanAt("$$", 0, {}, F), x) = ScanAt("sql", 0, {} \union {x}, F)
  BY AtFields, LeaveAt DEF Is, Scan
<1> QED BY <1>1, <1>2 DEF One

LEMMA StaysBody ==
    ASSUME NEW F, NEW x, NEW v, Is(x, v), v # "$$"
    PROVE  Scan(ScanAt("$$", 0, {}, F), x) = ScanAt("$$", 0, {}, F)
BY AtFields, LeaveAt DEF Is, Scan

LEMMA InBody ==
    ASSUME NEW F, NEW x, Is(x, "name") \/ Is(x, ";")
    PROVE  Scan(ScanAt("$$", 0, {}, F), x) = ScanAt("$$", 0, {}, F)
<1>1. CASE Is(x, "name")
  BY <1>1, StaysBody
<1>2. CASE Is(x, ";")
  BY <1>2, StaysBody
<1> QED BY <1>1, <1>2

LEMMA InComment ==
    ASSUME NEW n \in Nat, NEW Q, NEW F, NEW x
    PROVE  Scan(ScanAt("comment", n, Q, F), x) =
                CASE x.lex = "/*" -> ScanAt("comment", n + 1, Q, F)
                  [] x.lex = "*/" -> ScanAt(IF n = 1 THEN "sql" ELSE "comment", n - 1, Q, F)
                  [] OTHER -> ScanAt("comment", n, Q, F)
<1>3. Scan(ScanAt("comment", n, Q, F), x) = Commented(ScanAt("comment", n, Q, F), x)
  BY AtFields DEF Scan
<1>4. Deeper(ScanAt("comment", n, Q, F), 1) = ScanAt("comment", n + 1, Q, F)
  BY DeeperAt
<1>5. Deeper(ScanAt("comment", n, Q, F), -1) = ScanAt(IF n = 1 THEN "sql" ELSE "comment", n - 1, Q, F)
  BY DeeperAt
<1> QED BY <1>3, <1>4, <1>5 DEF Commented

LEMMA NestedStays ==
    ASSUME NEW F, NEW x, Is(x, "name") \/ Is(x, ";")
    PROVE  Scan(ScanAt("comment", 1, {}, F), x) = ScanAt("comment", 1, {}, F)
<1>1. x.lex \notin {"/*", "*/"}
  BY DEF Is
<1> QED BY <1>1, InComment

LEMMA NestedDeeper ==
    ASSUME NEW F, NEW x, Is(x, "/*")
    PROVE  Scan(ScanAt("comment", 1, {}, F), x) = ScanAt("comment", 2, {}, F)
<1>1. Scan(ScanAt("comment", 1, {}, F), x) = ScanAt("comment", 1 + 1, {}, F)
  BY InComment DEF Is
<1> QED BY <1>1

LEMMA NestedRises ==
    ASSUME NEW F, NEW x, Is(x, "*/")
    PROVE  Scan(ScanAt("comment", 2, {}, F), x) = ScanAt("comment", 1, {}, F)
<1>1. Scan(ScanAt("comment", 2, {}, F), x) = ScanAt("comment", 2 - 1, {}, F)
  <2>1. x.lex = "*/"
    BY DEF Is
  <2> QED BY <2>1, InComment
<1> QED BY <1>1

LEMMA NestedEnds ==
    ASSUME NEW F, NEW x, Is(x, "*/")
    PROVE  Scan(ScanAt("comment", 1, {}, F), x) = Clean(F)
<1>1. Scan(ScanAt("comment", 1, {}, F), x) = ScanAt("sql", 1 - 1, {}, F)
  <2>1. x.lex = "*/"
    BY DEF Is
  <2> QED BY <2>1, InComment
<1> QED BY <1>1 DEF Clean

\* run is the scanner's states along the n lexemes y, which spell w.
Follows(run, y, w, of, n) ==
    \A j \in 1..n : Is(y[j], w[j]) /\ y[j].of = of /\ run[j] = Scan(run[j - 1], y[j])

LEMMA FollowsOn ==
    ASSUME NEW run, NEW y, NEW w, NEW of, NEW n \in Nat, Follows(run, y, w, of, n)
    PROVE  /\ n >= 1 => Is(y[1], w[1]) /\ y[1].of = of /\ run[1] = Scan(run[0], y[1])
           /\ n >= 2 => Is(y[2], w[2]) /\ y[2].of = of /\ run[2] = Scan(run[1], y[2])
           /\ n >= 3 => Is(y[3], w[3]) /\ y[3].of = of /\ run[3] = Scan(run[2], y[3])
           /\ n >= 4 => Is(y[4], w[4]) /\ y[4].of = of /\ run[4] = Scan(run[3], y[4])
           /\ n >= 5 => Is(y[5], w[5]) /\ y[5].of = of /\ run[5] = Scan(run[4], y[5])
           /\ n >= 6 => Is(y[6], w[6]) /\ y[6].of = of /\ run[6] = Scan(run[5], y[6])
           /\ n >= 7 => Is(y[7], w[7]) /\ y[7].of = of /\ run[7] = Scan(run[6], y[7])
           /\ n >= 8 => Is(y[8], w[8]) /\ y[8].of = of /\ run[8] = Scan(run[7], y[8])
<1>1. n >= 1 => Is(y[1], w[1]) /\ y[1].of = of /\ run[1] = Scan(run[0], y[1])
  BY DEF Follows
<1>2. n >= 2 => Is(y[2], w[2]) /\ y[2].of = of /\ run[2] = Scan(run[1], y[2])
  BY DEF Follows
<1>3. n >= 3 => Is(y[3], w[3]) /\ y[3].of = of /\ run[3] = Scan(run[2], y[3])
  BY DEF Follows
<1>4. n >= 4 => Is(y[4], w[4]) /\ y[4].of = of /\ run[4] = Scan(run[3], y[4])
  BY DEF Follows
<1>5. n >= 5 => Is(y[5], w[5]) /\ y[5].of = of /\ run[5] = Scan(run[4], y[5])
  BY DEF Follows
<1>6. n >= 6 => Is(y[6], w[6]) /\ y[6].of = of /\ run[6] = Scan(run[5], y[6])
  BY DEF Follows
<1>7. n >= 7 => Is(y[7], w[7]) /\ y[7].of = of /\ run[7] = Scan(run[6], y[7])
  BY DEF Follows
<1>8. n >= 8 => Is(y[8], w[8]) /\ y[8].of = of /\ run[8] = Scan(run[7], y[8])
  BY DEF Follows
<1> QED BY <1>1, <1>2, <1>3, <1>4, <1>5, <1>6, <1>7, <1>8

LEMMA DeclarationScanned ==
    ASSUME NEW F, NEW run, NEW y, run[0] = Clean(F),
           Is(y[1], "name"), run[1] = Scan(run[0], y[1]),
           Is(y[2], ";"), run[2] = Scan(run[1], y[2])
    PROVE  run[2] = Clean(Adds(F, y[1]))
<1>1. run[1] = One(y[1], F)
  BY SqlReads
<1>2. Scan(One(y[1], F), y[2]) = Clean(Adds(F, y[1]))
  BY NameEnds
<1>3. run[2] = Clean(Adds(F, y[1]))
  BY <1>1, <1>2
<1> QED BY <1>3

LEMMA CommentScanned ==
    ASSUME NEW F, NEW run, NEW y, run[0] = Clean(F),
           Is(y[1], "--"), run[1] = Scan(run[0], y[1]),
           Is(y[2], "name"), run[2] = Scan(run[1], y[2]),
           Is(y[3], ";"), run[3] = Scan(run[2], y[3]),
           Is(y[4], "line"), run[4] = Scan(run[3], y[4])
    PROVE  run[4] = Clean(F)
<1>1. run[1] = ScanAt("line", 0, {}, F)
  BY SqlComment
<1>2. run[2] = ScanAt("line", 0, {}, F)
  BY <1>1, InLine
<1>3. run[3] = ScanAt("line", 0, {}, F)
  BY <1>2, InLine
<1>4. run[4] = Clean(F)
  BY <1>3, LineEnds
<1> QED BY <1>4

LEMMA NestedScanned ==
    ASSUME NEW F, NEW run, NEW y, run[0] = Clean(F),
           Is(y[1], "/*"), run[1] = Scan(run[0], y[1]),
           Is(y[2], "/*"), run[2] = Scan(run[1], y[2]),
           Is(y[3], "*/"), run[3] = Scan(run[2], y[3]),
           Is(y[4], "name"), run[4] = Scan(run[3], y[4]),
           Is(y[5], ";"), run[5] = Scan(run[4], y[5]),
           Is(y[6], "*/"), run[6] = Scan(run[5], y[6])
    PROVE  run[6] = Clean(F)
<1>1. run[1] = ScanAt("comment", 1, {}, F)
  BY SqlNested
<1>2. run[2] = ScanAt("comment", 2, {}, F)
  BY <1>1, NestedDeeper
<1>3. run[3] = ScanAt("comment", 1, {}, F)
  BY <1>2, NestedRises
<1>4. run[4] = ScanAt("comment", 1, {}, F)
  BY <1>3, NestedStays
<1>5. run[5] = ScanAt("comment", 1, {}, F)
  BY <1>4, NestedStays
<1>6. run[6] = Clean(F)
  BY <1>5, NestedEnds
<1> QED BY <1>6

LEMMA DirectiveScanned ==
    ASSUME NEW F, NEW run, NEW y, run[0] = Clean(F),
           Is(y[1], "\\"), run[1] = Scan(run[0], y[1]),
           Is(y[2], "name"), run[2] = Scan(run[1], y[2]),
           Is(y[3], ";"), run[3] = Scan(run[2], y[3]),
           Is(y[4], "line"), run[4] = Scan(run[3], y[4])
    PROVE  run[4] = Clean(F)
<1>1. run[1] = ScanAt("line", 0, {}, F)
  BY SqlComment
<1>2. run[2] = ScanAt("line", 0, {}, F)
  BY <1>1, InLine
<1>3. run[3] = ScanAt("line", 0, {}, F)
  BY <1>2, InLine
<1>4. run[4] = Clean(F)
  BY <1>3, LineEnds
<1> QED BY <1>4

LEMMA TextScanned ==
    ASSUME NEW F, NEW run, NEW y, run[0] = Clean(F),
           Is(y[1], "'"), run[1] = Scan(run[0], y[1]),
           Is(y[2], "name"), run[2] = Scan(run[1], y[2]),
           Is(y[3], ";"), run[3] = Scan(run[2], y[3]),
           Is(y[4], "''"), run[4] = Scan(run[3], y[4]),
           Is(y[5], "\\'"), run[5] = Scan(run[4], y[5]),
           Is(y[6], ";"), run[6] = Scan(run[5], y[6])
    PROVE  run[6] = Clean(F)
<1>1. run[1] = ScanAt("'", 0, {}, F)
  BY SqlText
<1>2. run[2] = ScanAt("'", 0, {}, F)
  BY <1>1, InText
<1>3. run[3] = ScanAt("'", 0, {}, F)
  BY <1>2, InText
<1>4. run[4] = ScanAt("'", 0, {}, F)
  BY <1>3, InText
<1>5. run[5] = One(y[5], F)
  BY <1>4, TextEnds
<1>6. Scan(One(y[5], F), y[6]) = Clean(F)
  BY QuoteEnds
<1>7. run[6] = Clean(F)
  BY <1>5, <1>6
<1> QED BY <1>7

LEMMA EscapedScanned ==
    ASSUME NEW F, NEW run, NEW y, run[0] = Clean(F),
           Is(y[1], "E'"), run[1] = Scan(run[0], y[1]),
           Is(y[2], "\\'"), run[2] = Scan(run[1], y[2]),
           Is(y[3], "name"), run[3] = Scan(run[2], y[3]),
           Is(y[4], ";"), run[4] = Scan(run[3], y[4]),
           Is(y[5], "'"), run[5] = Scan(run[4], y[5]),
           Is(y[6], ";"), run[6] = Scan(run[5], y[6])
    PROVE  run[6] = Clean(F)
<1>1. run[1] = ScanAt("E'", 0, {}, F)
  BY SqlEscaped
<1>2. run[2] = ScanAt("E'", 0, {}, F)
  BY <1>1, InEscaped
<1>3. run[3] = ScanAt("E'", 0, {}, F)
  BY <1>2, InEscaped
<1>4. run[4] = ScanAt("E'", 0, {}, F)
  BY <1>3, InEscaped
<1>5. run[5] = One(y[5], F)
  BY <1>4, EscapedEnds
<1>6. Scan(One(y[5], F), y[6]) = Clean(F)
  BY QuoteEnds
<1>7. run[6] = Clean(F)
  BY <1>5, <1>6
<1> QED BY <1>7

LEMMA BodyScanned ==
    ASSUME NEW F, NEW run, NEW y, run[0] = Clean(F),
           Is(y[1], "$$"), run[1] = Scan(run[0], y[1]),
           Is(y[2], "name"), run[2] = Scan(run[1], y[2]),
           Is(y[3], ";"), run[3] = Scan(run[2], y[3]),
           Is(y[4], "$$"), run[4] = Scan(run[3], y[4]),
           Is(y[5], ";"), run[5] = Scan(run[4], y[5])
    PROVE  run[5] = Clean(F)
<1>1. run[1] = ScanAt("$$", 0, {}, F)
  BY SqlBody
<1>2. run[2] = ScanAt("$$", 0, {}, F)
  BY <1>1, InBody
<1>3. run[3] = ScanAt("$$", 0, {}, F)
  BY <1>2, InBody
<1>4. run[4] = One(y[4], F)
  BY <1>3, BodyEnds
<1>5. Scan(One(y[4], F), y[5]) = Clean(F)
  BY QuoteEnds
<1>6. run[5] = Clean(F)
  BY <1>4, <1>5
<1> QED BY <1>6

LEMMA RowsScanned ==
    ASSUME NEW F, NEW run, NEW y, run[0] = Clean(F),
           Is(y[1], "copy"), run[1] = Scan(run[0], y[1]),
           Is(y[2], ";"), run[2] = Scan(run[1], y[2]),
           Is(y[3], "line"), run[3] = Scan(run[2], y[3]),
           Is(y[4], "name"), run[4] = Scan(run[3], y[4]),
           Is(y[5], ";"), run[5] = Scan(run[4], y[5]),
           Is(y[6], "line"), run[6] = Scan(run[5], y[6]),
           Is(y[7], "\\."), run[7] = Scan(run[6], y[7]),
           Is(y[8], "line"), run[8] = Scan(run[7], y[8])
    PROVE  run[8] = Clean(F)
<1>1. run[1] = One(y[1], F)
  BY SqlReads
<1>2. Scan(One(y[1], F), y[2]) = ScanAt("rows", 0, {}, F)
  BY CopyEnds
<1>3. run[2] = ScanAt("rows", 0, {}, F)
  BY <1>1, <1>2
<1>4. run[3] = ScanAt("rows", 0, {}, F)
  BY <1>3, InRows
<1>5. run[4] = ScanAt("rows", 0, {}, F)
  BY <1>4, InRows
<1>6. run[5] = ScanAt("rows", 0, {}, F)
  BY <1>5, InRows
<1>7. run[6] = ScanAt("rows", 0, {}, F)
  BY <1>6, InRows
<1>8. run[7] = Clean(F)
  BY <1>7, RowsEnds
<1>9. run[8] = Clean(F)
  BY <1>8, SqlLineEnds
<1> QED BY <1>9

(* A piece that is scanned where a statement may begin ends where one may begin, and   *)
(* only a declaration adds what it declares.                                          *)
LEMMA PieceScanned ==
    ASSUME NEW p \in PieceOf, NEW F, NEW run, NEW y, run[0] = Clean(F),
           Follows(run, y, Pieces[p.is], p.of, Len(Pieces[p.is]))
    PROVE  run[Len(Pieces[p.is])] = Clean(F \union IF p.is = "declaration" THEN {p.of} ELSE {})
<1>1. p.is \in {"declaration", "comment", "nested", "directive", "text", "escaped", "body", "rows"}
  BY DEF PieceOf, Piece, Pieces
<1> DEFINE w == Pieces[p.is]
           N == Len(w)
           of == p.of
<1>2. Follows(run, y, w, of, N)
  OBVIOUS
<1> SUFFICES run[N] = Clean(F \union IF p.is = "declaration" THEN {of} ELSE {})
  OBVIOUS
<1> HIDE DEF w, N, of
<1>3. CASE p.is = "declaration"
  <2>1. N = 2
    BY <1>3, PieceWords DEF w, N
  <2>2. w[1] = "name" /\ w[2] = ";"
    BY <1>3, PieceWords DEF w
  <2>3. Follows(run, y, w, of, 2)
    BY <1>2, <2>1
  <2>4. /\ Is(y[1], w[1]) /\ y[1].of = of /\ run[1] = Scan(run[0], y[1])
        /\ Is(y[2], w[2]) /\ y[2].of = of /\ run[2] = Scan(run[1], y[2])
    BY <2>3, FollowsOn
  <2>5. Is(y[1], "name") /\ Is(y[2], ";")
    BY <2>2, <2>4
  <2>6. run[2] = Clean(Adds(F, y[1]))
    BY <2>4, <2>5, DeclarationScanned
  <2> QED BY <1>3, <2>1, <2>4, <2>6 DEF Adds
<1>4. CASE p.is = "comment"
  <2>1. N = 4
    BY <1>4, PieceWords DEF w, N
  <2>2. w[1] = "--" /\ w[2] = "name" /\ w[3] = ";" /\ w[4] = "line"
    BY <1>4, PieceWords DEF w
  <2>3. Follows(run, y, w, of, 4)
    BY <1>2, <2>1
  <2>4. /\ Is(y[1], w[1]) /\ y[1].of = of /\ run[1] = Scan(run[0], y[1])
        /\ Is(y[2], w[2]) /\ y[2].of = of /\ run[2] = Scan(run[1], y[2])
        /\ Is(y[3], w[3]) /\ y[3].of = of /\ run[3] = Scan(run[2], y[3])
        /\ Is(y[4], w[4]) /\ y[4].of = of /\ run[4] = Scan(run[3], y[4])
    BY <2>3, FollowsOn
  <2>5. Is(y[1], "--") /\ Is(y[2], "name") /\ Is(y[3], ";") /\ Is(y[4], "line")
    BY <2>2, <2>4
  <2>6. run[4] = Clean(F)
    BY <2>4, <2>5, CommentScanned
  <2> QED BY <1>4, <2>1, <2>4, <2>6
<1>5. CASE p.is = "nested"
  <2>1. N = 6
    BY <1>5, PieceWords DEF w, N
  <2>2. w[1] = "/*" /\ w[2] = "/*" /\ w[3] = "*/" /\ w[4] = "name" /\ w[5] = ";" /\ w[6] = "*/"
    BY <1>5, PieceWords DEF w
  <2>3. Follows(run, y, w, of, 6)
    BY <1>2, <2>1
  <2>4. /\ Is(y[1], w[1]) /\ y[1].of = of /\ run[1] = Scan(run[0], y[1])
        /\ Is(y[2], w[2]) /\ y[2].of = of /\ run[2] = Scan(run[1], y[2])
        /\ Is(y[3], w[3]) /\ y[3].of = of /\ run[3] = Scan(run[2], y[3])
        /\ Is(y[4], w[4]) /\ y[4].of = of /\ run[4] = Scan(run[3], y[4])
        /\ Is(y[5], w[5]) /\ y[5].of = of /\ run[5] = Scan(run[4], y[5])
        /\ Is(y[6], w[6]) /\ y[6].of = of /\ run[6] = Scan(run[5], y[6])
    BY <2>3, FollowsOn
  <2>5. /\ Is(y[1], "/*") /\ Is(y[2], "/*") /\ Is(y[3], "*/") /\ Is(y[4], "name") /\ Is(y[5], ";")
        /\ Is(y[6], "*/")
    BY <2>2, <2>4
  <2>6. run[6] = Clean(F)
    BY <2>4, <2>5, NestedScanned
  <2> QED BY <1>5, <2>1, <2>4, <2>6
<1>6. CASE p.is = "directive"
  <2>1. N = 4
    BY <1>6, PieceWords DEF w, N
  <2>2. w[1] = "\\" /\ w[2] = "name" /\ w[3] = ";" /\ w[4] = "line"
    BY <1>6, PieceWords DEF w
  <2>3. Follows(run, y, w, of, 4)
    BY <1>2, <2>1
  <2>4. /\ Is(y[1], w[1]) /\ y[1].of = of /\ run[1] = Scan(run[0], y[1])
        /\ Is(y[2], w[2]) /\ y[2].of = of /\ run[2] = Scan(run[1], y[2])
        /\ Is(y[3], w[3]) /\ y[3].of = of /\ run[3] = Scan(run[2], y[3])
        /\ Is(y[4], w[4]) /\ y[4].of = of /\ run[4] = Scan(run[3], y[4])
    BY <2>3, FollowsOn
  <2>5. Is(y[1], "\\") /\ Is(y[2], "name") /\ Is(y[3], ";") /\ Is(y[4], "line")
    BY <2>2, <2>4
  <2>6. run[4] = Clean(F)
    BY <2>4, <2>5, DirectiveScanned
  <2> QED BY <1>6, <2>1, <2>4, <2>6
<1>7. CASE p.is = "text"
  <2>1. N = 6
    BY <1>7, PieceWords DEF w, N
  <2>2. w[1] = "'" /\ w[2] = "name" /\ w[3] = ";" /\ w[4] = "''" /\ w[5] = "\\'" /\ w[6] = ";"
    BY <1>7, PieceWords DEF w
  <2>3. Follows(run, y, w, of, 6)
    BY <1>2, <2>1
  <2>4. /\ Is(y[1], w[1]) /\ y[1].of = of /\ run[1] = Scan(run[0], y[1])
        /\ Is(y[2], w[2]) /\ y[2].of = of /\ run[2] = Scan(run[1], y[2])
        /\ Is(y[3], w[3]) /\ y[3].of = of /\ run[3] = Scan(run[2], y[3])
        /\ Is(y[4], w[4]) /\ y[4].of = of /\ run[4] = Scan(run[3], y[4])
        /\ Is(y[5], w[5]) /\ y[5].of = of /\ run[5] = Scan(run[4], y[5])
        /\ Is(y[6], w[6]) /\ y[6].of = of /\ run[6] = Scan(run[5], y[6])
    BY <2>3, FollowsOn
  <2>5. Is(y[1], "'") /\ Is(y[2], "name") /\ Is(y[3], ";") /\ Is(y[4], "''") /\ Is(y[5], "\\'") /\ Is(y[6], ";")
    BY <2>2, <2>4
  <2>6. run[6] = Clean(F)
    BY <2>4, <2>5, TextScanned
  <2> QED BY <1>7, <2>1, <2>4, <2>6
<1>8. CASE p.is = "escaped"
  <2>1. N = 6
    BY <1>8, PieceWords DEF w, N
  <2>2. w[1] = "E'" /\ w[2] = "\\'" /\ w[3] = "name" /\ w[4] = ";" /\ w[5] = "'" /\ w[6] = ";"
    BY <1>8, PieceWords DEF w
  <2>3. Follows(run, y, w, of, 6)
    BY <1>2, <2>1
  <2>4. /\ Is(y[1], w[1]) /\ y[1].of = of /\ run[1] = Scan(run[0], y[1])
        /\ Is(y[2], w[2]) /\ y[2].of = of /\ run[2] = Scan(run[1], y[2])
        /\ Is(y[3], w[3]) /\ y[3].of = of /\ run[3] = Scan(run[2], y[3])
        /\ Is(y[4], w[4]) /\ y[4].of = of /\ run[4] = Scan(run[3], y[4])
        /\ Is(y[5], w[5]) /\ y[5].of = of /\ run[5] = Scan(run[4], y[5])
        /\ Is(y[6], w[6]) /\ y[6].of = of /\ run[6] = Scan(run[5], y[6])
    BY <2>3, FollowsOn
  <2>5. Is(y[1], "E'") /\ Is(y[2], "\\'") /\ Is(y[3], "name") /\ Is(y[4], ";") /\ Is(y[5], "'") /\ Is(y[6], ";")
    BY <2>2, <2>4
  <2>6. run[6] = Clean(F)
    BY <2>4, <2>5, EscapedScanned
  <2> QED BY <1>8, <2>1, <2>4, <2>6
<1>9. CASE p.is = "body"
  <2>1. N = 5
    BY <1>9, PieceWords DEF w, N
  <2>2. w[1] = "$$" /\ w[2] = "name" /\ w[3] = ";" /\ w[4] = "$$" /\ w[5] = ";"
    BY <1>9, PieceWords DEF w
  <2>3. Follows(run, y, w, of, 5)
    BY <1>2, <2>1
  <2>4. /\ Is(y[1], w[1]) /\ y[1].of = of /\ run[1] = Scan(run[0], y[1])
        /\ Is(y[2], w[2]) /\ y[2].of = of /\ run[2] = Scan(run[1], y[2])
        /\ Is(y[3], w[3]) /\ y[3].of = of /\ run[3] = Scan(run[2], y[3])
        /\ Is(y[4], w[4]) /\ y[4].of = of /\ run[4] = Scan(run[3], y[4])
        /\ Is(y[5], w[5]) /\ y[5].of = of /\ run[5] = Scan(run[4], y[5])
    BY <2>3, FollowsOn
  <2>5. Is(y[1], "$$") /\ Is(y[2], "name") /\ Is(y[3], ";") /\ Is(y[4], "$$") /\ Is(y[5], ";")
    BY <2>2, <2>4
  <2>6. run[5] = Clean(F)
    BY <2>4, <2>5, BodyScanned
  <2> QED BY <1>9, <2>1, <2>4, <2>6
<1>10. CASE p.is = "rows"
  <2>1. N = 8
    BY <1>10, PieceWords DEF w, N
  <2>2. /\ w[1] = "copy" /\ w[2] = ";" /\ w[3] = "line" /\ w[4] = "name" /\ w[5] = ";" /\ w[6] = "line"
        /\ w[7] = "\\." /\ w[8] = "line"
    BY <1>10, PieceWords DEF w
  <2>3. Follows(run, y, w, of, 8)
    BY <1>2, <2>1
  <2>4. /\ Is(y[1], w[1]) /\ y[1].of = of /\ run[1] = Scan(run[0], y[1])
        /\ Is(y[2], w[2]) /\ y[2].of = of /\ run[2] = Scan(run[1], y[2])
        /\ Is(y[3], w[3]) /\ y[3].of = of /\ run[3] = Scan(run[2], y[3])
        /\ Is(y[4], w[4]) /\ y[4].of = of /\ run[4] = Scan(run[3], y[4])
        /\ Is(y[5], w[5]) /\ y[5].of = of /\ run[5] = Scan(run[4], y[5])
        /\ Is(y[6], w[6]) /\ y[6].of = of /\ run[6] = Scan(run[5], y[6])
        /\ Is(y[7], w[7]) /\ y[7].of = of /\ run[7] = Scan(run[6], y[7])
        /\ Is(y[8], w[8]) /\ y[8].of = of /\ run[8] = Scan(run[7], y[8])
    BY <2>3, FollowsOn
  <2>5. /\ Is(y[1], "copy") /\ Is(y[2], ";") /\ Is(y[3], "line") /\ Is(y[4], "name") /\ Is(y[5], ";")
        /\ Is(y[6], "line") /\ Is(y[7], "\\.") /\ Is(y[8], "line")
    BY <2>2, <2>4
  <2>6. run[8] = Clean(F)
    BY <2>4, <2>5, RowsScanned
  <2> QED BY <1>10, <2>1, <2>4, <2>6
<1> QED BY <1>1, <1>3, <1>4, <1>5, <1>6, <1>7, <1>8, <1>9, <1>10

(* The scan of a whole dump. *)
Dumps == Seq(PieceOf)

LEMMA DumpTextIs ==
    ASSUME NEW pieces \in Dumps
    PROVE  \E text \in [0..Len(pieces) -> Seq(Lexeme)] :
              /\ text[0] = <<>> /\ text[Len(pieces)] = DumpText(pieces)
              /\ \A n \in 1..Len(pieces) : text[n] = text[n - 1] \o Lexemes(pieces[n])
<1> DEFINE N == Len(pieces)
           TextOf(t) == t = [n \in 0..N |-> IF n = 0 THEN <<>> ELSE t[n - 1] \o Lexemes(pieces[n])]
           Goes(t) == /\ t \in [0..N -> Seq(Lexeme)] /\ t[0] = <<>>
                      /\ \A n \in 1..N : t[n] = t[n - 1] \o Lexemes(pieces[n])
<1>1. N \in Nat /\ \A n \in 1..N : pieces[n] \in PieceOf
  BY DEF Dumps
<1>2. \E t : Goes(t)
  <2> DEFINE step == [n \in 0..N |-> [q \in Seq(Lexeme) |-> IF n = 0 THEN q ELSE q \o Lexemes(pieces[n])]]
             S == Seq(Lexeme)
  <2>1. step \in [0..N -> [S -> S]]
    <3>1. ASSUME NEW n \in 0..N, NEW q \in S PROVE (IF n = 0 THEN q ELSE q \o Lexemes(pieces[n])) \in S
      <4>1. CASE n = 0
        BY <4>1
      <4>2. CASE n # 0
        <5>1. pieces[n] \in PieceOf
          BY <1>1, <4>2
        <5>2. Lexemes(pieces[n]) \in Seq(Lexeme)
          BY <5>1, LexemesTyped
        <5> QED BY <4>2, <5>2
      <4> QED BY <4>1, <4>2
    <3> HIDE DEF S
    <3> QED BY <3>1 DEF S
  <2>2. <<>> \in S
    OBVIOUS
  <2>3. \A n \in 1..N : \A q \in S : step[n][q] = q \o Lexemes(pieces[n])
    OBVIOUS
  <2> HIDE DEF step, S, N
  <2>4. PICK t : Runs(t, N, S, <<>>, step)
    BY <1>1, <2>1, <2>2, Recursion
  <2>5. t \in [0..N -> S] /\ t[0] = <<>> /\ \A n \in 1..N : t[n] = step[n][t[n - 1]]
    BY <2>4 DEF Runs
  <2>6. ASSUME NEW n \in 1..N PROVE t[n] = t[n - 1] \o Lexemes(pieces[n])
    <3>1. n - 1 \in 0..N
      BY <1>1
    <3>2. t[n - 1] \in S
      BY <2>5, <3>1
    <3> QED BY <2>3, <2>5, <3>2
  <2>7. Goes(t)
    BY <2>5, <2>6 DEF S
  <2> HIDE DEF Goes
  <2> QED BY <2>7
<1>3. ASSUME NEW t, Goes(t) PROVE TextOf(t)
  <2>1. t = [n \in 0..N |-> t[n]]
    BY <1>3
  <2>2. ASSUME NEW n \in 0..N PROVE t[n] = IF n = 0 THEN <<>> ELSE t[n - 1] \o Lexemes(pieces[n])
    <3>1. n = 0 \/ n \in 1..N
      BY <1>1
    <3> QED BY <1>3, <3>1
  <2> QED BY <2>1, <2>2
<1>4. ASSUME NEW t, TextOf(t) PROVE t[0] = <<>> /\ \A n \in 1..N : t[n] = t[n - 1] \o Lexemes(pieces[n])
  <2>1. 0 \in 0..N /\ \A n \in 1..N : n \in 0..N /\ n # 0
    BY <1>1
  <2> DEFINE d(n) == IF n = 0 THEN <<>> ELSE t[n - 1] \o Lexemes(pieces[n])
  <2>2. t = [n \in 0..N |-> d(n)]
    BY <1>4
  <2>3. d(0) = <<>> /\ \A n \in 1..N : d(n) = t[n - 1] \o Lexemes(pieces[n])
    BY <2>1
  <2> HIDE DEF d, N
  <2>4. \A n \in 0..N : t[n] = d(n)
    BY <2>2
  <2> QED BY <2>1, <2>3, <2>4
<1> DEFINE text == CHOOSE t : TextOf(t)
<1>5. TextOf(text)
  <2> HIDE DEF TextOf, Goes
  <2> QED BY <1>2, <1>3
<1>6. DumpText(pieces) = text[N]
  BY DEF DumpText
<1> HIDE DEF text
<1>7. text \in [0..N -> Seq(Lexeme)]
  <2> DEFINE T == {n \in 0..N : text[n] \in Seq(Lexeme)}
  <2>1. text = [n \in 0..N |-> text[n]]
    BY <1>5
  <2>2. 0 \in T
    BY <1>1, <1>4, <1>5
  <2>3. ASSUME NEW n \in 0..N, n \in T, n < N PROVE n + 1 \in T
    <3>1. n + 1 \in 1..N /\ n + 1 - 1 = n /\ n + 1 \in 0..N
      BY <1>1, <2>3
    <3>2. text[n + 1] = text[n] \o Lexemes(pieces[n + 1])
      <4> DEFINE joined(s, k) == s \o Lexemes(pieces[k])
      <4>1. \A k \in 1..N : text[k] = joined(text[k - 1], k)
        BY <1>4, <1>5
      <4>2. text[n + 1] = joined(text[n], n + 1)
        <5> HIDE DEF joined, N
        <5> QED BY <3>1, <4>1
      <4> QED BY <4>2
    <3>3. Lexemes(pieces[n + 1]) \in Seq(Lexeme)
      BY <1>1, <3>1, LexemesTyped
    <3>4. text[n + 1] \in Seq(Lexeme)
      BY <2>3, <3>2, <3>3
    <3> QED BY <3>1, <3>4
  <2>4. 0..N \subseteq T
    <3> HIDE DEF T
    <3> QED BY <1>1, <2>2, <2>3, Counting
  <2> QED BY <2>1, <2>4
<1>8. Goes(text)
  BY <1>4, <1>5, <1>7
<1> QED BY <1>6, <1>8

LEMMA ScanRuns ==
    ASSUME NEW N \in Nat, NEW y, \A n \in 1..N : y[n] \in Lexeme
    PROVE  \E t : /\ t \in [0..N -> ScanState] /\ t[0] = Outside
                  /\ \A n \in 1..N : t[n] = Scan(t[n - 1], y[n])
<1> DEFINE S == ScanState
           step == [n \in 0..N |-> [q \in S |-> IF n = 0 THEN q ELSE Scan(q, y[n])]]
<1>1. step \in [0..N -> [S -> S]]
  <2>1. ASSUME NEW n \in 0..N, NEW q \in S PROVE (IF n = 0 THEN q ELSE Scan(q, y[n])) \in S
    BY ScanTyped
  <2> QED BY <2>1
<1>2. Outside \in S
  <2>1. Outside = ScanAt("sql", 0, {}, {})
    BY DEF Outside, ScanAt
  <2> QED BY <2>1, Words, AtTyped
<1>3. \A n \in 1..N : \A q \in S : step[n][q] = Scan(q, y[n])
  OBVIOUS
<1> SUFFICES \E t : t \in [0..N -> S] /\ t[0] = Outside /\ \A n \in 1..N : t[n] = Scan(t[n - 1], y[n])
  OBVIOUS
<1> HIDE DEF step, S
<1>4. PICK t : Runs(t, N, S, Outside, step)
  BY <1>1, <1>2, Recursion
<1>5. t \in [0..N -> S] /\ t[0] = Outside /\ \A n \in 1..N : t[n] = step[n][t[n - 1]]
  BY <1>4 DEF Runs
<1>6. ASSUME NEW n \in 1..N PROVE t[n] = Scan(t[n - 1], y[n])
  <2>1. n - 1 \in 0..N
    OBVIOUS
  <2>2. t[n - 1] \in S
    BY <1>5, <2>1
  <2> QED BY <1>3, <1>5, <2>2
<1> QED BY <1>5, <1>6

LEMMA ScanIs ==
    ASSUME NEW pieces \in Dumps, DumpText(pieces) \in Seq(Lexeme)
    PROVE  LET text == DumpText(pieces) IN
           \E state : /\ state[0] = Outside /\ extractRestoreSchemas(pieces) = state[Len(text)].found
                      /\ \A n \in 1..Len(text) : state[n] = Scan(state[n - 1], text[n])
<1> DEFINE text == DumpText(pieces)
           N == Len(text)
           StateOf(t) == t = [n \in 0..N |-> IF n = 0 THEN Outside ELSE Scan(t[n - 1], text[n])]
           Goes(t) == /\ t \in [0..N -> ScanState] /\ t[0] = Outside
                      /\ \A n \in 1..N : t[n] = Scan(t[n - 1], text[n])
<1> HIDE DEF text
<1>0. text \in Seq(Lexeme)
  BY DEF text
<1>1. N \in Nat /\ \A n \in 1..N : text[n] \in Lexeme
  BY <1>0
<1>2. \E t : Goes(t)
  <2> HIDE DEF N
  <2> QED BY <1>1, ScanRuns
<1>3. ASSUME NEW t, Goes(t) PROVE StateOf(t)
  <2>1. t = [n \in 0..N |-> t[n]]
    BY <1>3
  <2>2. ASSUME NEW n \in 0..N PROVE t[n] = IF n = 0 THEN Outside ELSE Scan(t[n - 1], text[n])
    <3>1. n = 0 \/ n \in 1..N
      BY <1>1
    <3> QED BY <1>3, <3>1
  <2> QED BY <2>1, <2>2
<1>4. ASSUME NEW t, StateOf(t) PROVE t[0] = Outside /\ \A n \in 1..N : t[n] = Scan(t[n - 1], text[n])
  <2>1. 0 \in 0..N /\ \A n \in 1..N : n \in 0..N /\ n # 0
    BY <1>1
  <2> DEFINE d(n) == IF n = 0 THEN Outside ELSE Scan(t[n - 1], text[n])
  <2>2. t = [n \in 0..N |-> d(n)]
    BY <1>4
  <2>3. d(0) = Outside /\ \A n \in 1..N : d(n) = Scan(t[n - 1], text[n])
    BY <2>1
  <2> HIDE DEF d, N
  <2>4. \A n \in 0..N : t[n] = d(n)
    BY <2>2
  <2> QED BY <2>1, <2>3, <2>4
<1> DEFINE state == CHOOSE t : StateOf(t)
<1>5. StateOf(state)
  <2> HIDE DEF StateOf, Goes
  <2> QED BY <1>2, <1>3
<1>6. extractRestoreSchemas(pieces) = state[N].found
  BY DEF extractRestoreSchemas, text
<1> HIDE DEF state
<1>7. state[0] = Outside /\ \A n \in 1..N : state[n] = Scan(state[n - 1], text[n])
  BY <1>4, <1>5
<1> QED BY <1>6, <1>7 DEF text

\* The text of some of the pieces is where the text of all of them starts.
LEMMA TextGrows ==
    ASSUME NEW N \in Nat, NEW S, NEW text \in [0..N -> Seq(S)], NEW part \in [1..N -> Seq(S)],
           \A n \in 1..N : text[n] = text[n - 1] \o part[n]
    PROVE  \A n \in 0..N : Len(text[n]) <= Len(text[N]) /\ \A i \in 1..Len(text[n]) : text[N][i] = text[n][i]
<1> DEFINE Starts(s, t) == Len(s) <= Len(t) /\ \A i \in 1..Len(s) : t[i] = s[i]
           T == {n \in 0..N : \A m \in 0..n : Starts(text[m], text[n])}
<1>1. 0 \in T
  OBVIOUS
<1>2. ASSUME NEW n \in 0..N, n \in T, n < N PROVE n + 1 \in T
  <2>1. n + 1 \in 1..N /\ n + 1 \in 0..N
    BY <1>2
  <2>2. text[n + 1] = text[n] \o part[n + 1]
    BY <2>1
  <2>3. text[n] \in Seq(S) /\ part[n + 1] \in Seq(S) /\ text[n + 1] \in Seq(S)
    BY <2>1
  <2>4. Len(text[n]) <= Len(text[n + 1]) /\ \A i \in 1..Len(text[n]) : text[n + 1][i] = text[n][i]
    BY <2>2, <2>3
  <2>5. ASSUME NEW m \in 0..(n + 1) PROVE Starts(text[m], text[n + 1])
    <3>1. CASE m = n + 1
      BY <2>3, <3>1
    <3>2. CASE m # n + 1
      <4>1. m \in 0..n /\ m \in 0..N
        BY <3>2
      <4>2. Starts(text[m], text[n]) /\ text[m] \in Seq(S)
        BY <1>2, <4>1
      <4> QED BY <2>3, <2>4, <4>2
    <3> QED BY <3>1, <3>2
  <2> HIDE DEF Starts
  <2> QED BY <2>1, <2>5
<1>3. 0..N \subseteq T
  <2> HIDE DEF T
  <2> QED BY <1>1, <1>2, Counting
<1>4. N \in T
  BY <1>3
<1> QED BY <1>4

DeclaredBy(pieces, n) == {pieces[i].of : i \in {j \in 1..n : pieces[j].is = "declaration"}}

LEMMA FoundAreDeclared == ASSUME NEW pieces \in Dumps PROVE extractRestoreSchemas(pieces) = Declared(pieces)
<1> DEFINE N == Len(pieces)
           D(n) == DeclaredBy(pieces, n)
<1>1. N \in Nat /\ DOMAIN pieces = 1..N /\ \A n \in 1..N : pieces[n] \in PieceOf
  BY DEF Dumps
<1>2. PICK text \in [0..N -> Seq(Lexeme)] :
         /\ text[0] = <<>> /\ text[N] = DumpText(pieces)
         /\ \A n \in 1..N : text[n] = text[n - 1] \o Lexemes(pieces[n])
  BY DumpTextIs
<1> DEFINE whole == DumpText(pieces)
<1>3. whole \in Seq(Lexeme)
  BY <1>1, <1>2
<1>4. PICK state : /\ state[0] = Outside /\ extractRestoreSchemas(pieces) = state[Len(whole)].found
                   /\ \A n \in 1..Len(whole) : state[n] = Scan(state[n - 1], whole[n])
  BY <1>3, ScanIs
<1> HIDE DEF N, D, whole
<1>5. \A n \in 0..N : Len(text[n]) <= Len(whole) /\ \A i \in 1..Len(text[n]) : whole[i] = text[n][i]
  <2> DEFINE part == [n \in 1..N |-> Lexemes(pieces[n])]
  <2>1. part \in [1..N -> Seq(Lexeme)]
    BY <1>1, LexemesTyped
  <2>2. \A n \in 1..N : text[n] = text[n - 1] \o part[n]
    BY <1>2
  <2> HIDE DEF part
  <2>3. \A n \in 0..N : Len(text[n]) <= Len(text[N]) /\ \A i \in 1..Len(text[n]) : text[N][i] = text[n][i]
    <3> DEFINE S == Lexeme
    <3>1. N \in Nat /\ text \in [0..N -> Seq(S)] /\ part \in [1..N -> Seq(S)]
      BY <1>1, <1>2, <2>1
    <3> HIDE DEF S
    <3> QED BY <2>2, <3>1, TextGrows
  <2>4. text[N] = whole
    BY <1>2 DEF whole
  <2> QED BY <2>3, <2>4
<1> DEFINE T == {n \in 0..N : state[Len(text[n])] = Clean(D(n))}
<1>6. 0 \in T
  <2>1. D(0) = {}
    BY DEF D, DeclaredBy
  <2>2. Outside = Clean({})
    BY DEF Outside, Clean, ScanAt
  <2>3. Len(text[0]) = 0
    BY <1>2
  <2>4. state[0] = Outside
    BY <1>4
  <2>5. state[Len(text[0])] = Clean(D(0))
    BY <2>1, <2>2, <2>3, <2>4
  <2> QED BY <1>1, <2>5
<1>7. ASSUME NEW n \in 0..N, n \in T, n < N PROVE n + 1 \in T
  <2> DEFINE p == pieces[n + 1]
             L == Len(text[n])
             K == Len(Pieces[p.is])
             y == Lexemes(p)
             run == [j \in 0..K |-> state[L + j]]
  <2>1. n + 1 \in 1..N /\ n + 1 \in 0..N /\ n + 1 - 1 = n
    BY <1>1, <1>7
  <2>2. p \in PieceOf
    BY <1>1, <2>1
  <2>3. /\ K \in Nat /\ y \in Seq(Lexeme) /\ Len(y) = K
        /\ \A j \in 1..K : Is(y[j], Pieces[p.is][j]) /\ y[j].of = p.of
    BY <2>2, LexemesTyped
  <2>4. text[n + 1] = text[n] \o y
    <3> DEFINE joined(k) == text[k - 1] \o Lexemes(pieces[k])
    <3>1. \A k \in 1..N : text[k] = joined(k)
      BY <1>2
    <3>2. text[n + 1] = joined(n + 1)
      <4> HIDE DEF joined
      <4> QED BY <2>1, <3>1
    <3>3. joined(n + 1) = text[n] \o y
      BY <2>1
    <3> QED BY <3>2, <3>3
  <2>5. text[n] \in Seq(Lexeme) /\ L \in Nat
    BY <1>2
  <2>6. Len(text[n + 1]) = L + K /\ \A j \in 1..K : text[n + 1][L + j] = y[j]
    <3>1. \A a, b \in Seq(Lexeme) :
             Len(a \o b) = Len(a) + Len(b) /\ \A j \in 1..Len(b) : (a \o b)[Len(a) + j] = b[j]
      OBVIOUS
    <3>2. /\ Len(text[n] \o y) = Len(text[n]) + Len(y)
          /\ \A j \in 1..Len(y) : (text[n] \o y)[Len(text[n]) + j] = y[j]
      <4>1. text[n] \in Seq(Lexeme) /\ y \in Seq(Lexeme)
        BY <2>3, <2>5
      <4> HIDE DEF K, y
      <4> QED BY <3>1, <4>1, Zenon
    <3> HIDE DEF K, y
    <3> QED BY <2>3, <2>4, <3>2, Zenon
  <2>7. L + K <= Len(whole) /\ \A j \in 1..K : whole[L + j] = y[j]
    <3>1. Len(text[n + 1]) <= Len(whole) /\ \A i \in 1..Len(text[n + 1]) : whole[i] = text[n + 1][i]
      BY <1>5, <2>1
    <3>2. \A j \in 1..K : L + j \in 1..(L + K)
      <4> HIDE DEF L, K
      <4> QED BY <2>3, <2>5
    <3> HIDE DEF L, K, y
    <3> QED BY <2>6, <3>1, <3>2
  <2>8. ASSUME NEW j \in 1..K PROVE run[j] = Scan(run[j - 1], y[j])
    <3>1. j \in 0..K /\ j - 1 \in 0..K /\ L + (j - 1) = (L + j) - 1 /\ L + j \in 1..(L + K)
      <4> HIDE DEF L, K
      <4> QED BY <2>3, <2>5
    <3>2. run[j] = state[L + j] /\ run[j - 1] = state[(L + j) - 1]
      <4> HIDE DEF L, K
      <4> QED BY <3>1
    <3>3. L + j \in 1..Len(whole)
      <4>1. Len(whole) \in Nat
        BY <1>3
      <4> HIDE DEF L, K
      <4> QED BY <2>3, <2>5, <2>7, <3>1, <4>1
    <3>4. state[L + j] = Scan(state[(L + j) - 1], whole[L + j])
      <4> HIDE DEF L
      <4> QED BY <1>4, <3>3
    <3> HIDE DEF L, K, y, run
    <3> QED BY <2>7, <3>2, <3>4
  <2>9. Follows(run, y, Pieces[p.is], p.of, K)
    <3> HIDE DEF K, y, run, p
    <3> QED BY <2>3, <2>8 DEF Follows
  <2>10. run[0] = Clean(D(n)) /\ run[K] = state[L + K]
    <3>1. run[0] = state[L + 0] /\ run[K] = state[L + K]
      <4> HIDE DEF L, K
      <4> QED BY <2>3
    <3>2. state[L + 0] = Clean(D(n))
      <4>1. L + 0 = L
        <5> HIDE DEF L
        <5> QED BY <2>5
      <4> QED BY <1>7, <4>1
    <3> QED BY <3>1, <3>2
  <2>11. run[K] = Clean(D(n) \union IF p.is = "declaration" THEN {p.of} ELSE {})
    <3> HIDE DEF run, p, D, y
    <3> QED BY <2>2, <2>9, <2>10, PieceScanned
  <2>12. D(n + 1) = D(n) \union IF p.is = "declaration" THEN {p.of} ELSE {}
    <3>1. \A j : j \in 1..(n + 1) <=> j \in 1..n \/ j = n + 1
      BY <1>1, <1>7
    <3>2. CASE p.is = "declaration"
      BY <3>1, <3>2 DEF D, DeclaredBy
    <3>3. CASE p.is # "declaration"
      BY <3>1, <3>3 DEF D, DeclaredBy
    <3> QED BY <3>2, <3>3
  <2>13. state[Len(text[n + 1])] = Clean(D(n + 1))
    <3>1. state[L + K] = Clean(D(n + 1))
      BY <2>10, <2>11, <2>12
    <3> HIDE DEF L, K
    <3> QED BY <2>6, <3>1
  <2> QED BY <2>1, <2>13
<1>8. 0..N \subseteq T
  <2> HIDE DEF T
  <2> QED BY <1>1, <1>6, <1>7, Counting
<1>9. state[Len(whole)] = Clean(D(N))
  BY <1>1, <1>2, <1>8 DEF whole
<1>10. extractRestoreSchemas(pieces) = D(N)
  BY <1>4, <1>9, AtFields DEF Clean
<1>11. D(N) = Declared(pieces)
  BY <1>1 DEF D, DeclaredBy, Declared
<1> QED BY <1>10, <1>11

(* Whatever the dump is made of, and however often it is restored: the scanner finds the *)
(* schemas that it creates, all of them and no other (scripts/backup-schemas.ts:1).      *)
THEOREM SchemasAreFound == RestoreSpec => []SchemasFound
<1>1. RestoreInit => dump \in Dumps
  <2> SUFFICES ASSUME RestoreInit PROVE dump \in Seq([is : Piece, of : Schemas])
    BY DEF Dumps, PieceOf
  <2> DEFINE S == [is : Piece, of : Schemas]
  <2>1. dump \in UNION {[1..m -> S] : m \in 0..MaxPieces}
    BY DEF RestoreInit, BoundedSeq, SeqOf
  <2> HIDE DEF S
  <2>2. PICK m \in 0..MaxPieces : dump \in [1..m -> S]
    BY <2>1
  <2>3. m \in Nat
    BY <2>2
  <2>4. dump \in Seq(S)
    BY <2>2, <2>3
  <2> QED BY <2>4 DEF S
<1>2. dump \in Dumps /\ [RestoreNext]_restoreVars => (dump \in Dumps)'
  BY DEF RestoreNext, restoreVars, CreateStart, CreatePart, Change, Preflight, snapshotIfPresent, Psql, PsqlFails,
         Install, InstallFails, Finish, ScriptCrash
<1>3. dump \in Dumps => SchemasFound
  BY FoundAreDeclared DEF SchemasFound, Dropped
<1> QED BY <1>1, <1>2, <1>3, PTL DEF RestoreSpec
-----------------------------------------------------------------------------
(***************************************************************************)
(* Counts that are read one after the other.                               *)
(***************************************************************************)
\* What the statements still have to count, and what they have counted.
Stage(of, left, done) ==
    \/ of = "none" /\ left = <<>> /\ done = {}
    \/ /\ of = "summary"
       /\ \/ left = <<"today", "overdue", "done", "doneToday", "overdueBeforeToday">> /\ done = {}
          \/ left = <<"overdue", "done", "doneToday", "overdueBeforeToday">> /\ done = {"today"}
          \/ left = <<"done", "doneToday", "overdueBeforeToday">> /\ done = {"today", "overdue"}
          \/ left = <<"doneToday", "overdueBeforeToday">> /\ done = {"today", "overdue", "done"}
          \/ left = <<"overdueBeforeToday">> /\ done = {"today", "overdue", "done", "doneToday"}
          \/ left = <<>> /\ done = {"today", "overdue", "done", "doneToday", "overdueBeforeToday"}
    \/ /\ of = "status"
       /\ \/ left = <<"current", "next", "remaining">> /\ done = {}
          \/ left = <<"next", "remaining">> /\ done = {"current"}
          \/ left = <<"remaining">> /\ done = {"current", "next"}
          \/ left = <<>> /\ done = {"current", "next", "remaining"}

Statements == {"today", "overdue", "done", "doneToday", "overdueBeforeToday", "current", "next", "remaining"}

CountTypeOK ==
    /\ tasksTable \in [CountedTasks -> CountedRow]
    /\ countNow \in 0..Closing
    /\ question \in [of : Questions \cup {"none"}, left : Seq(Statements),
                     start : Nat, end : Nat, now : Nat]
    /\ question.start <= question.end
    /\ Stage(question.of, question.left, DOMAIN segment)

\* What a statement says of a row that nobody has written since the first one.
Tells(s, t) ==
    LET r == tasksTable[t]
    IN /\ s = "today" => (t \in segment[s] <=> DueToday(r))
       /\ s = "doneToday" => (t \in segment[s] <=> DoneToday(r))
       /\ s = "overdueBeforeToday" => (t \in segment[s] <=> OverdueBeforeToday(r))
       /\ s = "current" => (t \in segment[s] => Started(r))
       /\ s = "next" => (t \in segment[s] => StartsLater(r))
       /\ s = "remaining" =>
             (t \in segment[s] <=> StartsLater(r) /\ InDay(r.date) /\ t \notin segment["next"])

CountInv ==
    /\ CountTypeOK
    /\ \A s \in DOMAIN segment, t \in CountedTasks \ touched : Tells(s, t)
\* The first and the last row by date are among the rows that have one.
LEMMA EndsAmongRows ==
    ASSUME CountTypeOK, NEW dated \in SUBSET CountedTasks, \A t \in dated : tasksTable[t].date \in Nat
    PROVE  FirstOf(dated) \subseteq dated /\ LastOf(dated) \subseteq dated
<1> DEFINE dates == {tasksTable[t].date : t \in dated}
           Below == {pair \in Nat \X Nat : pair[1] < pair[2]}
<1>1. IsWellFoundedOn(Below, Nat)
  BY NatLessThanWellFounded DEF OpToRel
<1>2. CASE dated = {}
  BY <1>2 DEF FirstOf, LastOf
<1>3. CASE dated # {}
  <2>1. dates \in SUBSET Nat /\ dates # {}
    BY <1>3
  <2>2. \E t \in dated : \A u \in dated : tasksTable[t].date <= tasksTable[u].date
    <3> HIDE DEF Below, dates
    <3>1. PICK d \in dates : \A e \in dates : ~(<<e, d>> \in Below)
      BY <1>1, <2>1, WFMin
    <3>2. PICK t \in dated : tasksTable[t].date = d
      BY <3>1 DEF dates
    <3>3. \A u \in dated : ~(tasksTable[u].date < d)
      BY <2>1, <3>1 DEF dates, Below
    <3> QED BY <3>2, <3>3
  <2>3. \E t \in dated : \A u \in dated : tasksTable[t].date >= tasksTable[u].date
    <3> DEFINE b == 2 * DayTicks
               gaps == {b - tasksTable[t].date : t \in dated}
    <3>1. \A t \in dated : tasksTable[t].date <= b
      <4>1. \A t \in CountedTasks : tasksTable[t].date \in Dates
        BY DEF CountTypeOK, CountedRow
      <4> QED BY <4>1, TodayCountsAssumption DEF Dates, Unset
    <3>2. b \in Nat
      BY TodayCountsAssumption
    <3> HIDE DEF b
    <3>3. gaps \in SUBSET Nat /\ gaps # {}
      <4>1. \A t \in dated : b - tasksTable[t].date \in Nat
        BY <3>1, <3>2
      <4> QED BY <1>3, <4>1
    <3>4. PICK d \in gaps : \A e \in gaps : ~(<<e, d>> \in Below)
      <4> HIDE DEF gaps, Below
      <4> QED BY <1>1, <3>3, WFMin
    <3>5. PICK t \in dated : b - tasksTable[t].date = d
      BY <3>4
    <3>6. \A u \in dated : ~(b - tasksTable[u].date < d)
      BY <3>3, <3>4
    <3> QED BY <3>2, <3>5, <3>6
  <2> QED BY <1>3, <2>2, <2>3 DEF FirstOf, LastOf
<1> QED BY <1>2, <1>3

\* A statement tells each row as it is.
LEMMA CountedTells ==
    ASSUME CountTypeOK, question.left # <<>>, NEW t \in CountedTasks,
           NEW held, held = Counted(Head(question.left))
    PROVE  LET s == Head(question.left)
               r == tasksTable[t]
           IN /\ s = "today" => (t \in held <=> DueToday(r))
              /\ s = "doneToday" => (t \in held <=> DoneToday(r))
              /\ s = "overdueBeforeToday" => (t \in held <=> OverdueBeforeToday(r))
              /\ s = "current" => (t \in held => Started(r))
              /\ s = "next" => (t \in held => StartsLater(r))
              /\ s = "remaining" =>
                    (t \in held <=> StartsLater(r) /\ InDay(r.date) /\ t \notin segment.next)
<1>0. question.now \in Nat /\ \A u \in CountedTasks : tasksTable[u].date \in Dates
  BY DEF CountTypeOK, CountedRow
<1>1. \A d \in Dates : d # Unset => d \in Nat
  BY TodayCountsAssumption DEF Dates, Unset
<1>2. getCurrentTask \subseteq {u \in CountedTasks : Started(tasksTable[u])}
  <2>1. \A u \in CountedTasks : Started(tasksTable[u]) => tasksTable[u].date \in Nat
    BY <1>0, <1>1 DEF Started
  <2> DEFINE dated == {u \in CountedTasks : Started(tasksTable[u])}
  <2> HIDE DEF dated
  <2>2. dated \in SUBSET CountedTasks /\ \A u \in dated : tasksTable[u].date \in Nat
    BY <2>1 DEF dated
  <2>3. LastOf(dated) \subseteq dated
    BY <2>2, EndsAmongRows
  <2> QED BY <2>3 DEF getCurrentTask, dated
<1>3. getNextTask \subseteq {u \in CountedTasks : StartsLater(tasksTable[u])}
  <2>1. \A u \in CountedTasks : StartsLater(tasksTable[u]) => tasksTable[u].date \in Nat
    BY <1>0, <1>1 DEF StartsLater, Unset
  <2> DEFINE dated == {u \in CountedTasks : StartsLater(tasksTable[u])}
  <2> HIDE DEF dated
  <2>2. dated \in SUBSET CountedTasks /\ \A u \in dated : tasksTable[u].date \in Nat
    BY <2>1 DEF dated
  <2>3. FirstOf(dated) \subseteq dated
    BY <2>2, EndsAmongRows
  <2> QED BY <2>3 DEF getNextTask, dated
<1> DEFINE s == Head(question.left)
<1>4. CASE s \in {"today", "doneToday", "overdueBeforeToday"}
  BY <1>4 DEF Counted, Rows
<1>5. CASE s = "current"
  BY <1>2, <1>5 DEF Counted
<1>6. CASE s = "next"
  BY <1>3, <1>6 DEF Counted
<1>7. CASE s = "remaining"
  BY <1>7 DEF Counted, Remaining
<1> QED BY <1>4, <1>5, <1>6, <1>7
\* The statements of a request, one by one.
LEMMA StageMoves ==
    ASSUME NEW of, NEW left, NEW done, Stage(of, left, done), left # <<>>
    PROVE  /\ Stage(of, Tail(left), done \cup {Head(left)})
           /\ Head(left) \notin done
           /\ Head(left) = "remaining" => "next" \in done
<1>1. /\ Head(<<"today", "overdue", "done", "doneToday", "overdueBeforeToday">>) = "today"
      /\ Tail(<<"today", "overdue", "done", "doneToday", "overdueBeforeToday">>)
           = <<"overdue", "done", "doneToday", "overdueBeforeToday">>
  OBVIOUS
<1>2. /\ Head(<<"overdue", "done", "doneToday", "overdueBeforeToday">>) = "overdue"
      /\ Tail(<<"overdue", "done", "doneToday", "overdueBeforeToday">>)
           = <<"done", "doneToday", "overdueBeforeToday">>
  OBVIOUS
<1>3. /\ Head(<<"done", "doneToday", "overdueBeforeToday">>) = "done"
      /\ Tail(<<"done", "doneToday", "overdueBeforeToday">>) = <<"doneToday", "overdueBeforeToday">>
  OBVIOUS
<1>4. /\ Head(<<"doneToday", "overdueBeforeToday">>) = "doneToday"
      /\ Tail(<<"doneToday", "overdueBeforeToday">>) = <<"overdueBeforeToday">>
  OBVIOUS
<1>5. Head(<<"overdueBeforeToday">>) = "overdueBeforeToday" /\ Tail(<<"overdueBeforeToday">>) = <<>>
  OBVIOUS
<1>6. /\ Head(<<"current", "next", "remaining">>) = "current"
      /\ Tail(<<"current", "next", "remaining">>) = <<"next", "remaining">>
  OBVIOUS
<1>7. Head(<<"next", "remaining">>) = "next" /\ Tail(<<"next", "remaining">>) = <<"remaining">>
  OBVIOUS
<1>8. Head(<<"remaining">>) = "remaining" /\ Tail(<<"remaining">>) = <<>>
  OBVIOUS
<1> QED BY <1>1, <1>2, <1>3, <1>4, <1>5, <1>6, <1>7, <1>8, Zenon DEF Stage

\* A statement has counted: the ones before it stand.
LEMMA CountKeeps == ASSUME CountInv, Count PROVE CountInv'
<1> DEFINE s == Head(question.left)
<1>1. /\ CountTypeOK /\ question.left # <<>>
      /\ question' = [question EXCEPT !.left = Tail(@)]
      /\ UNCHANGED <<tasksTable, countNow>>
  BY DEF Count, CountInv
<1>2. /\ question'.of = question.of /\ question'.start = question.start /\ question'.end = question.end
      /\ question'.now = question.now /\ question'.left = Tail(question.left)
      /\ question' \in [of : Questions \cup {"none"}, left : Seq(Statements),
                        start : Nat, end : Nat, now : Nat]
  <2>1. Tail(question.left) \in Seq(Statements)
    BY <1>1 DEF CountTypeOK
  <2> QED BY <1>1, <2>1 DEF CountTypeOK
<1>3. /\ DOMAIN segment' = DOMAIN segment \cup {s}
      /\ \A u \in DOMAIN segment' : segment'[u] = IF u \in DOMAIN segment THEN segment[u] ELSE Counted(u)
  BY DEF Count
<1>4. /\ Stage(question.of, Tail(question.left), DOMAIN segment \cup {s})
      /\ s \notin DOMAIN segment
      /\ s = "remaining" => "next" \in DOMAIN segment
  BY <1>1, StageMoves DEF CountTypeOK
<1>5. CountTypeOK'
  BY <1>1, <1>2, <1>3, <1>4 DEF CountTypeOK
<1>6. ASSUME NEW u \in DOMAIN segment', NEW t \in CountedTasks \ touched' PROVE Tells(u, t)'
  <2>1. CASE u = s
    <3>1. segment'[s] = Counted(s) /\ ("next" \in DOMAIN segment => segment'["next"] = segment["next"])
      BY <1>3, <1>4
    <3> DEFINE held == Counted(s)
    <3>2. t \in CountedTasks
      OBVIOUS
    <3>3. /\ s = "today" => (t \in held <=> DueToday(tasksTable[t]))
          /\ s = "doneToday" => (t \in held <=> DoneToday(tasksTable[t]))
          /\ s = "overdueBeforeToday" => (t \in held <=> OverdueBeforeToday(tasksTable[t]))
          /\ s = "current" => (t \in held => Started(tasksTable[t]))
          /\ s = "next" => (t \in held => StartsLater(tasksTable[t]))
          /\ s = "remaining" => (t \in held <=> StartsLater(tasksTable[t]) /\ InDay(tasksTable[t].date)
                                                /\ t \notin segment.next)
      BY <1>1, <3>2, CountedTells
    <3>4. segment'[s] = held
      BY <3>1
    <3> HIDE DEF held, s
    <3> QED BY <1>1, <1>2, <1>4, <2>1, <3>1, <3>3, <3>4
            DEF Tells, DueToday, DoneToday, OverdueBeforeToday, Started, StartsLater, InDay
  <2>2. CASE u \in DOMAIN segment
    <3>1. touched' = touched /\ segment'[u] = segment[u]
          /\ (u = "remaining" => "next" \in DOMAIN segment)
      BY <1>3, <1>1, <2>2 DEF Count, CountTypeOK, Stage
    <3>2. Tells(u, t)
      BY <2>2, <3>1 DEF CountInv
    <3>3. u = "remaining" => segment'["next"] = segment["next"]
      BY <1>3, <3>1
    <3> QED BY <1>1, <1>2, <3>1, <3>2, <3>3
            DEF Tells, DueToday, DoneToday, OverdueBeforeToday, Started, StartsLater, InDay
  <2> QED BY <1>3, <1>6, <2>1, <2>2
<1> QED BY <1>5, <1>6 DEF CountInv

\* A request begins with the day of now, or is answered.
LEMMA AskCountsKeeps ==
    ASSUME CountInv, (\E of \in Questions : AskCounts(of)) \/ AnswerCounts
    PROVE  CountInv'
<1>0. CountTypeOK /\ DayTicks \in Nat \ {0} /\ Closing \in Nat
  BY TodayCountsAssumption DEF CountInv
<1>1. CASE AnswerCounts
  <2>1. question' = NoQuestion /\ segment' = <<>> /\ UNCHANGED <<tasksTable, countNow>>
    BY <1>1 DEF AnswerCounts
  <2>2. DOMAIN segment' = {}
    BY <2>1
  <2>3. NoQuestion \in [of : Questions \cup {"none"}, left : Seq(Statements), start : Nat, end : Nat, now : Nat]
        /\ Stage(NoQuestion.of, NoQuestion.left, {}) /\ NoQuestion.start <= NoQuestion.end
    BY DEF NoQuestion, Stage
  <2> QED BY <1>0, <2>1, <2>2, <2>3 DEF CountInv, CountTypeOK
<1>2. ASSUME NEW of \in Questions, AskCounts(of) PROVE CountInv'
  <2> DEFINE day == countNow \div DayTicks
             left == IF of = "summary" THEN Summary ELSE Status
  <2>1. /\ question' = [of |-> of, left |-> left, start |-> day * DayTicks,
                        end |-> (day + 1) * DayTicks, now |-> countNow]
        /\ DOMAIN segment' = {} /\ UNCHANGED <<tasksTable, countNow>>
    BY <1>2 DEF AskCounts
  <2>2. countNow \in Nat
    BY <1>0 DEF CountTypeOK
  <2>3. day \in Nat
    BY <1>0, <2>2
  <2> HIDE DEF day
  <2>4. day * DayTicks \in Nat /\ (day + 1) * DayTicks \in Nat /\ day * DayTicks <= (day + 1) * DayTicks
    BY <1>0, <2>3
  <2>5. left \in Seq(Statements) /\ Stage(of, left, {})
    <3>1. Summary \in Seq(Statements) /\ Status \in Seq(Statements)
      BY DEF Summary, Status, Statements
    <3>2. Stage("summary", Summary, {}) /\ Stage("status", Status, {})
      BY DEF Summary, Status, Stage
    <3> QED BY <3>1, <3>2 DEF Questions
  <2> HIDE DEF left
  <2>6. question' \in [of : Questions \cup {"none"}, left : Seq(Statements), start : Nat, end : Nat, now : Nat]
        /\ question'.of = of /\ question'.left = left /\ question'.start <= question'.end
    BY <2>1, <2>2, <2>4, <2>5
  <2> QED BY <1>0, <2>1, <2>5, <2>6 DEF CountInv, CountTypeOK
<1> QED BY <1>1, <1>2

\* A row that is written is counted no longer on.
LEMMA PatchCountedKeeps ==
    ASSUME CountInv, NEW t \in CountedTasks, NEW done \in BOOLEAN, NEW date \in Dates, PatchCounted(t, done, date)
    PROVE  CountInv'
<1> DEFINE r == tasksTable[t]
           w == [done |-> done, date |-> date,
                 completed |-> IF ~done THEN Unset ELSE IF r.done THEN r.completed ELSE countNow]
<1>1. CountTypeOK /\ UNCHANGED <<countNow, question, segment>> /\ tasksTable' = [tasksTable EXCEPT ![t] = w]
  BY DEF PatchCounted, CountInv
<1>2. w \in CountedRow
  <2>1. r \in CountedRow /\ countNow \in 0..Closing
    BY <1>1 DEF CountTypeOK
  <2> QED BY <2>1 DEF CountedRow
<1> HIDE DEF w
<1>3. tasksTable' \in [CountedTasks -> CountedRow] /\ \A u \in CountedTasks \ {t} : tasksTable'[u] = tasksTable[u]
  BY <1>1, <1>2 DEF CountTypeOK
<1>4. ASSUME NEW s \in DOMAIN segment', NEW u \in CountedTasks \ touched' PROVE Tells(s, u)'
  <2>1. question.of # "none" /\ touched' = touched \cup {t}
    BY <1>1, <1>4 DEF PatchCounted, CountTypeOK, Stage
  <2>2. u \in CountedTasks \ touched /\ tasksTable'[u] = tasksTable[u] /\ s \in DOMAIN segment
    BY <1>1, <1>3, <1>4, <2>1
  <2>3. Tells(s, u)
    BY <2>2 DEF CountInv
  <2> QED BY <1>1, <2>2, <2>3 DEF Tells, DueToday, DoneToday, OverdueBeforeToday, Started, StartsLater, InDay
<1> QED BY <1>1, <1>3, <1>4 DEF CountInv, CountTypeOK

LEMMA CountInvKept == CountInv /\ [CountNext]_countVars => CountInv'
<1> SUFFICES ASSUME CountInv, [CountNext]_countVars PROVE CountInv'
  OBVIOUS
<1>1. CASE UNCHANGED countVars \/ PassTime
  <2>1. UNCHANGED <<tasksTable, question, segment, touched>> /\ countNow' \in 0..Closing
    BY <1>1, TodayCountsAssumption DEF countVars, PassTime, CountInv, CountTypeOK
  <2> QED BY <2>1 DEF CountInv, CountTypeOK, Tells, DueToday, DoneToday, OverdueBeforeToday,
                      Started, StartsLater, InDay
<1> QED BY <1>1, CountKeeps, AskCountsKeeps, PatchCountedKeeps DEF CountNext

LEMMA CountInvInit == CountInit => CountInv
<1> SUFFICES ASSUME CountInit PROVE CountInv
  OBVIOUS
<1>1. tasksTable \in [CountedTasks -> CountedRow]
  BY DEF CountInit
<1>2. countNow \in 0..Closing /\ question = NoQuestion /\ DOMAIN segment = {}
  <2>1. Opening \in Nat
    BY TodayCountsAssumption
  <2> QED BY <2>1, TodayCountsAssumption DEF CountInit
<1>3. NoQuestion \in [of : Questions \cup {"none"}, left : Seq(Statements), start : Nat, end : Nat, now : Nat]
      /\ Stage(NoQuestion.of, NoQuestion.left, {}) /\ NoQuestion.start <= NoQuestion.end
  BY DEF NoQuestion, Stage
<1> QED BY <1>1, <1>2, <1>3 DEF CountInv, CountTypeOK

LEMMA CountInvSays == CountInv => CountedOnce
<1> SUFFICES ASSUME CountInv PROVE CountedOnce
  OBVIOUS
<1>0. CountTypeOK /\ question.start \in Nat /\ question.now \in Nat /\ question.start <= question.end
      /\ \A u \in CountedTasks : tasksTable[u] \in CountedRow
  BY DEF CountInv, CountTypeOK
<1>1. \A d \in Dates \cup (0..Closing) : d \in Int
  BY TodayCountsAssumption DEF Dates, Unset
<1>2. ASSUME HasAll("summary"), NEW t \in CountedTasks \ touched
      PROVE  LET r == tasksTable[t]
                 meter == Holding(t, {"today", "doneToday", "overdueBeforeToday"})
             IN meter = IF r.done THEN IF InDay(r.completed) THEN {"doneToday"} ELSE {}
                        ELSE IF r.date = Unset \/ r.date >= question.end THEN {}
                        ELSE IF r.date < question.start THEN {"overdueBeforeToday"} ELSE {"today"}
  <2> DEFINE r == tasksTable[t]
  <2>1. {"today", "doneToday", "overdueBeforeToday"} \subseteq DOMAIN segment
    BY <1>0, <1>2 DEF HasAll, CountTypeOK, Stage
  <2>2. /\ t \in segment["today"] <=> DueToday(r)
        /\ t \in segment["doneToday"] <=> DoneToday(r)
        /\ t \in segment["overdueBeforeToday"] <=> OverdueBeforeToday(r)
    BY <2>1 DEF CountInv, Tells
  <2>3. r.done \in BOOLEAN /\ r.date \in Int /\ r.completed \in Int
    BY <1>0, <1>1 DEF CountedRow, Unset
  <2> HIDE DEF r
  <2>4. question.end \in Nat
    BY <1>0 DEF CountTypeOK
  <2> DEFINE meter == Holding(t, {"today", "doneToday", "overdueBeforeToday"})
  <2>5. /\ "today" \in meter <=> ~r.done /\ question.start <= r.date /\ r.date < question.end
        /\ "doneToday" \in meter <=> r.done /\ InDay(r.completed)
        /\ "overdueBeforeToday" \in meter <=> ~r.done /\ r.date # Unset /\ r.date < question.start
    BY <2>2 DEF Holding, DueToday, DoneToday, OverdueBeforeToday, InDay
  <2>6. meter \subseteq {"today", "doneToday", "overdueBeforeToday"}
    BY DEF Holding
  <2> HIDE DEF meter
  <2>7. ASSUME r.done PROVE meter = IF InDay(r.completed) THEN {"doneToday"} ELSE {}
    BY <2>5, <2>6, <2>7
  <2>8. ASSUME ~r.done
        PROVE  meter = IF r.date = Unset \/ r.date >= question.end THEN {}
                       ELSE IF r.date < question.start THEN {"overdueBeforeToday"} ELSE {"today"}
    <3>1. CASE r.date = Unset \/ r.date >= question.end
      <4>1. "today" \notin meter /\ "doneToday" \notin meter /\ "overdueBeforeToday" \notin meter
        BY <1>0, <2>3, <2>4, <2>5, <2>8, <3>1 DEF Unset
      <4> QED BY <2>6, <3>1, <4>1
    <3>2. CASE ~(r.date = Unset \/ r.date >= question.end) /\ r.date < question.start
      <4>1. "today" \notin meter /\ "doneToday" \notin meter /\ "overdueBeforeToday" \in meter
        BY <1>0, <2>3, <2>4, <2>5, <2>8, <3>2
      <4> QED BY <2>6, <3>2, <4>1
    <3>3. CASE ~(r.date = Unset \/ r.date >= question.end) /\ ~(r.date < question.start)
      <4>1. "today" \in meter /\ "doneToday" \notin meter /\ "overdueBeforeToday" \notin meter
        BY <1>0, <2>3, <2>4, <2>5, <2>8, <3>3
      <4> QED BY <2>6, <3>3, <4>1
    <3> QED BY <3>1, <3>2, <3>3
  <2> QED BY <2>3, <2>7, <2>8 DEF r, meter
<1>3. ASSUME HasAll("status"), NEW t \in CountedTasks \ touched
      PROVE  LET r == tasksTable[t]
                 held == Holding(t, {"current", "next", "remaining"})
             IN /\ ~r.done /\ r.date > question.now /\ InDay(r.date) => held \in {{"next"}, {"remaining"}}
                /\ ~r.done /\ r.date # Unset /\ r.date <= question.now => held \subseteq {"current"}
                /\ r.done \/ r.date = Unset => held = {}
  <2> DEFINE r == tasksTable[t]
  <2>1. {"current", "next", "remaining"} \subseteq DOMAIN segment
    BY <1>0, <1>3 DEF HasAll, CountTypeOK, Stage
  <2>2. /\ t \in segment["current"] => Started(r)
        /\ t \in segment["next"] => StartsLater(r)
        /\ t \in segment["remaining"] <=> StartsLater(r) /\ InDay(r.date) /\ t \notin segment["next"]
    BY <2>1 DEF CountInv, Tells
  <2>3. r.done \in BOOLEAN /\ r.date \in Int
    BY <1>0, <1>1 DEF CountedRow, Unset
  <2> HIDE DEF r
  <2> QED BY <1>0, <2>2, <2>3 DEF Holding, Started, StartsLater, InDay, Unset, r
<1> QED BY <1>2, <1>3 DEF CountedOnce

(* For any number of tasks and writes, and at any hour: a row that nobody writes while the *)
(* statements of a read run is told once, and by the segment that the day puts it in       *)
(* (apps/tasks/index.ts:300, :350).                                                        *)
THEOREM EachCountedOnce == CountSpec => []CountedOnce
BY CountInvInit, CountInvKept, CountInvSays, PTL DEF CountSpec
-----------------------------------------------------------------------------
(***************************************************************************)
(* The local day.                                                          *)
(***************************************************************************)
\* The day of an instant, by its bounds.
LEMMA DayBounds ==
    ASSUME NEW x \in Int
    PROVE  /\ x \div DayLength \in Int
           /\ (x \div DayLength) * DayLength <= x
           /\ x < (x \div DayLength) * DayLength + DayLength
BY PlatformDayAssumption

LEMMA DayOf ==
    ASSUME NEW x \in Int, NEW k \in Int, k * DayLength <= x, x < k * DayLength + DayLength
    PROVE  x \div DayLength = k
<1> DEFINE q == x \div DayLength
<1>1. /\ q \in Int /\ q * DayLength <= x /\ x < q * DayLength + DayLength
      /\ DayLength \in Nat
  BY DayBounds, PlatformDayAssumption
<1> HIDE DEF q
<1>2. ASSUME q < k PROVE FALSE
  <2>1. k - q - 1 \in Nat
    BY <1>1, <1>2
  <2>2. (k - q - 1) * DayLength \in Nat /\ (k - q - 1) * DayLength = k * DayLength - q * DayLength - DayLength
    BY <1>1, <2>1
  <2> QED BY <1>1, <2>2
<1>3. ASSUME k < q PROVE FALSE
  <2>1. q - k - 1 \in Nat
    BY <1>1, <1>3
  <2>2. (q - k - 1) * DayLength \in Nat /\ (q - k - 1) * DayLength = q * DayLength - k * DayLength - DayLength
    BY <1>1, <2>1
  <2> QED BY <1>1, <2>2
<1> QED BY <1>1, <1>2, <1>3 DEF q

LEMMA ZoneFacts ==
    ASSUME NEW z \in Zones
    PROVE  /\ z.before \in Nat /\ z.before < DayLength /\ z.at \in Int /\ z.after \in Int
           /\ z.after \in {z.before - 1, z.before, z.before + 1}
           /\ z.after # z.before => 2 * DayLength <= z.at /\ z.at < 3 * DayLength
           /\ DayLength \in Nat /\ DayLength >= 4
<1>1. CASE z = Unchanging
  BY <1>1, PlatformDayAssumption DEF Unchanging, Zone
<1>2. ASSUME NEW at \in Changes, NEW shift \in {-1, 1}, z = Zone(at, shift)
      PROVE  /\ z.before \in Nat /\ z.before < DayLength /\ z.at \in Int /\ z.after \in Int
             /\ z.after \in {z.before - 1, z.before, z.before + 1}
             /\ 2 * DayLength <= z.at /\ z.at < 3 * DayLength
  BY <1>2, PlatformDayAssumption DEF Zone
<1> QED BY <1>1, <1>2, PlatformDayAssumption DEF Zones

\* The day of an instant starts at its midnight by the clock that ran at that midnight.
LEMMA StartIs ==
    ASSUME NEW z \in Zones, NEW u \in Int, NEW k \in Int, LocalDate(z, u) = k,
           u >= z.at /\ k * DayLength - z.after < z.at => (u + z.before) \div DayLength = k
    PROVE  startOfLocalDay(z, u) = IF u < z.at \/ k * DayLength - z.after < z.at
                                   THEN k * DayLength - z.before ELSE k * DayLength - z.after
<1> DEFINE b == k * DayLength
<1>1. b \in Int /\ z.before \in Int /\ z.after \in Int /\ z.at \in Int
  BY ZoneFacts
<1>2. CASE u < z.at
  <2>1. (u + z.before) \div DayLength = k /\ timezoneOffset(z, u) = z.before
    BY <1>2 DEF LocalDate, timezoneOffset
  <2>2. b <= u + z.before
    BY <1>1, <2>1, DayBounds
  <2>3. timezoneOffset(z, b - z.before) = z.before
    BY <1>1, <1>2, <2>2 DEF timezoneOffset
  <2> QED BY <1>2, <2>1, <2>3 DEF startOfLocalDay, Midnight
<1>3. CASE ~(u < z.at)
  <2>1. (u + z.after) \div DayLength = k /\ timezoneOffset(z, u) = z.after
    BY <1>3 DEF LocalDate, timezoneOffset
  <2>2. CASE b - z.after < z.at
    <3>1. (u + z.before) \div DayLength = k /\ timezoneOffset(z, b - z.after) = z.before
      BY <1>1, <1>3, <2>2 DEF timezoneOffset
    <3> QED BY <1>3, <2>1, <2>2, <3>1 DEF startOfLocalDay, Midnight
  <2>3. CASE ~(b - z.after < z.at)
    <3>1. timezoneOffset(z, b - z.after) = z.after
      BY <2>3 DEF timezoneOffset
    <3> QED BY <1>3, <2>1, <2>3, <3>1 DEF startOfLocalDay, Midnight
  <2> QED BY <2>2, <2>3
<1> QED BY <1>2, <1>3
\* Where an instant falls, by the midnights around one day.
LEMMA DaysAround ==
    ASSUME NEW x \in Int, NEW k \in Int
    PROVE  LET b == k * DayLength
           IN /\ b <= x /\ x < b + DayLength <=> x \div DayLength = k
              /\ b - DayLength <= x /\ x < b <=> x \div DayLength = k - 1
              /\ b + DayLength <= x /\ x < b + 2 * DayLength <=> x \div DayLength = k + 1
<1>1. DayLength \in Nat /\ k * DayLength \in Int
      /\ (k - 1) * DayLength = k * DayLength - DayLength
      /\ (k + 1) * DayLength = k * DayLength + DayLength
  BY PlatformDayAssumption
<1>2. /\ k * DayLength <= x /\ x < k * DayLength + DayLength <=> x \div DayLength = k
      /\ (k - 1) * DayLength <= x /\ x < (k - 1) * DayLength + DayLength <=> x \div DayLength = k - 1
      /\ (k + 1) * DayLength <= x /\ x < (k + 1) * DayLength + DayLength <=> x \div DayLength = k + 1
  BY DayBounds, DayOf
<1> QED BY <1>1, <1>2

LEMMA MidnightRest ==
    ASSUME NEW k \in Int
    PROVE  (k * DayLength) % DayLength = 0
<1> DEFINE x == k * DayLength
<1>1. DayLength \in Nat \ {0} /\ x \in Int /\ x \div DayLength = k
  <2>1. DayLength \in Nat \ {0} /\ x \in Int
    BY PlatformDayAssumption
  <2>2. k * DayLength <= x /\ x < k * DayLength + DayLength
    BY <2>1
  <2> HIDE DEF x
  <2> QED BY <2>1, <2>2, DayOf
<1> HIDE DEF x
<1>2. x = (DayLength * (x \div DayLength)) + (x % DayLength) /\ x % DayLength \in Int
  BY <1>1
<1>3. x = DayLength * k
  BY <1>1 DEF x
<1> QED BY <1>1, <1>2, <1>3 DEF x

(* Whatever its change, a zone tells every day right, except the last tick of a day that  *)
(* had one more and the two days beside a midnight that comes twice, of which it tells    *)
(* the tick before the second one.                                                        *)
LEMMA ZoneIsExact ==
    ASSUME NEW z \in Zones, NEW t \in Asked, ~ExtraTick(z, t), TwoMidnights(z, t) => t = z.at - 1
    PROVE  DayExact(z, t)
<1> DEFINE k == LocalDate(z, t)
           b == k * DayLength
           e == z.before
           a == z.after
           at == z.at
           start == startOfLocalDay(z, t)
           noon == start + (3 * DayLength) \div 2
           end == startOfLocalDay(z, noon)
           j == LocalDate(z, at)
<1>1. /\ e \in Nat /\ e < DayLength /\ at \in Int /\ a \in Int /\ a \in {e - 1, e, e + 1}
      /\ a # e => 2 * DayLength <= at /\ at < 3 * DayLength
      /\ DayLength \in Nat /\ DayLength >= 4
  BY ZoneFacts
<1>2. t \in Int /\ DayLength <= t /\ t < 5 * DayLength
  BY PlatformDayAssumption DEF Asked
<1>3. PICK h \in Nat : DayLength = 2 * h /\ (3 * DayLength) \div 2 = 3 * h
  BY PlatformDayAssumption
<1>4. \A u \in Int : LocalDate(z, u) = (u + (IF u < at THEN e ELSE a)) \div DayLength
  BY DEF LocalDate, timezoneOffset
<1>5. k \in Int /\ b \in Int /\ j \in Int
  <2>1. k \in Int /\ j \in Int
    BY <1>1, <1>2, <1>4, DayBounds
  <2> QED BY <1>1, <2>1
<1>6. \A x \in Int :
         /\ b <= x /\ x < b + DayLength <=> x \div DayLength = k
         /\ b - DayLength <= x /\ x < b <=> x \div DayLength = k - 1
         /\ b + DayLength <= x /\ x < b + 2 * DayLength <=> x \div DayLength = k + 1
  BY <1>5, DaysAround
<1> HIDE DEF k, b, e, a, at, j, start, noon, end
<1>7. t < at => b <= t + e /\ t + e < b + DayLength
  BY <1>1, <1>2, <1>4, <1>6 DEF k
<1>8. t >= at => b <= t + a /\ t + a < b + DayLength
  BY <1>1, <1>2, <1>4, <1>6 DEF k
\* ~ExtraTick: the clock of its morning is still on the day.
<1>9. t >= at /\ b - a < at => (t + e) \div DayLength = k
  <2> SUFFICES ASSUME t >= at, b - a < at PROVE (t + e) \div DayLength = k
    OBVIOUS
  <2>1. (at + a) \div DayLength = k
    <3>1. at + a \in Int /\ b <= at + a /\ at + a < b + DayLength
      BY <1>1, <1>2, <1>5, <1>8
    <3> QED BY <1>6, <3>1
  <2>2. LocalDate(z, at) = (at + a) \div DayLength
    BY <1>1, <1>4
  <2>3. CASE a < e
    BY <1>2, <1>1, <2>1, <2>2, <2>3 DEF ExtraTick, k, e, a, at
  <2>4. CASE ~(a < e)
    <3>1. b <= t + e /\ t + e < b + DayLength /\ t + e \in Int
      BY <1>1, <1>2, <1>5, <1>8, <2>4
    <3> QED BY <1>6, <3>1
  <2> QED BY <2>3, <2>4
<1>10. start = IF t < at \/ b - a < at THEN b - e ELSE b - a
  BY <1>2, <1>5, <1>9, StartIs DEF k, b, e, a, at, start
\* Half a day after the next midnight is the next day, by either clock.
<1>11. /\ start \in Int /\ noon \in Int /\ noon = start + 3 * h
       /\ (noon + e) \div DayLength = k + 1 /\ (noon + a) \div DayLength = k + 1
       /\ b + DayLength <= noon + e /\ b + DayLength <= noon + a
  <2>1. start \in {b - e, b - a}
    BY <1>10
  <2>2. noon = start + 3 * h
    BY <1>3 DEF noon
  <2>3. /\ start \in Int /\ noon \in Int
        /\ b + DayLength <= noon + e /\ noon + e < b + 2 * DayLength
        /\ b + DayLength <= noon + a /\ noon + a < b + 2 * DayLength
    BY <1>1, <1>3, <1>5, <2>1, <2>2
  <2> QED BY <1>1, <1>6, <2>2, <2>3
<1>12. end = IF noon < at \/ b + DayLength - a < at THEN b + DayLength - e ELSE b + DayLength - a
  <2> DEFINE n == k + 1
  <2>1. LocalDate(z, noon) = n /\ (noon + e) \div DayLength = n
    BY <1>4, <1>11
  <2>2. n * DayLength = b + DayLength /\ n \in Int
    BY <1>1, <1>5 DEF b
  <2> HIDE DEF n
  <2>3. end = IF noon < at \/ n * DayLength - a < at THEN n * DayLength - e ELSE n * DayLength - a
    <3>1. noon \in Int /\ (noon >= z.at /\ n * DayLength - z.after < z.at => (noon + z.before) \div DayLength = n)
      BY <1>11, <2>1 DEF e
    <3>2. startOfLocalDay(z, noon) = IF noon < z.at \/ n * DayLength - z.after < z.at
                                     THEN n * DayLength - z.before ELSE n * DayLength - z.after
      BY <2>1, <2>2, <3>1, StartIs, Zenon
    <3> QED BY <3>2, Zenon DEF e, a, at, end
  <2> DEFINE m == n * DayLength
             c == b + DayLength
  <2>4. m = c
    BY <2>2
  <2>5. end = IF noon < at \/ m - a < at THEN m - e ELSE m - a
    BY <2>3
  <2> HIDE DEF m, c
  <2>6. end = IF noon < at \/ c - a < at THEN c - e ELSE c - a
    BY <2>4, <2>5, Zenon
  <2>7. b \in Int /\ a \in Int /\ e \in Int /\ at \in Int /\ noon \in Int /\ DayLength \in Int
    BY <1>1, <1>5, <1>11
  <2> QED BY <2>6, <2>7 DEF c
\* TwoMidnights, in the bounds of the day that changes its clocks.
<1>13. a < e => (t < at \/ at + a # b) /\ at + a # b + DayLength
  <2>1. j = (at + a) \div DayLength
    BY <1>1, <1>4 DEF j
  <2>2. a < e /\ (at + a) % DayLength = 0 => (k # j - 1 /\ k # j) \/ t = at - 1
    BY DEF TwoMidnights, k, j, e, a, at
  <2>3. b \div DayLength = k /\ (b + DayLength) \div DayLength = k + 1
    <3> DEFINE c == b + DayLength
    <3>1. c \in Int /\ b <= b /\ b < b + DayLength
      BY <1>1, <1>5
    <3>2. b + DayLength <= c /\ c < b + 2 * DayLength
      BY <1>1, <1>5
    <3> HIDE DEF c
    <3>3. b \div DayLength = k
      BY <1>5, <1>6, <3>1
    <3>4. c \div DayLength = k + 1
      BY <1>6, <3>1, <3>2
    <3> QED BY <3>3, <3>4 DEF c
  <2>4. b % DayLength = 0 /\ (b + DayLength) % DayLength = 0
    <3>1. b + DayLength = (k + 1) * DayLength /\ k + 1 \in Int
      BY <1>1, <1>5 DEF b
    <3> QED BY <1>5, <3>1, MidnightRest DEF b
  <2>5. a < e /\ t = at - 1 => at + a # b + DayLength
    BY <1>1, <1>2, <1>5, <1>7
  <2> QED BY <1>1, <1>2, <1>5, <2>1, <2>2, <2>3, <2>4, <2>5
\* The day, instant by instant.
<1>14. ASSUME NEW u \in Int
       PROVE  LocalDate(z, u) = k <=> start <= u /\ u < end
  <2>1. LocalDate(z, u) = k <=> IF u < at THEN b <= u + e /\ u + e < b + DayLength
                                ELSE b <= u + a /\ u + a < b + DayLength
    <3>1. u + e \in Int /\ u + a \in Int
      BY <1>1
    <3> QED BY <1>4, <1>6, <3>1
  <2>2. CASE a = e
    BY <1>1, <1>2, <1>3, <1>5, <1>10, <1>11, <1>12, <2>1, <2>2
  <2>3. CASE a = e + 1
    <3>1. CASE u < at
      BY <1>1, <1>2, <1>5, <1>7, <1>8, <1>10, <1>11, <1>12, <2>1, <2>3, <3>1
    <3>2. CASE ~(u < at)
      BY <1>1, <1>2, <1>5, <1>7, <1>8, <1>10, <1>11, <1>12, <2>1, <2>3, <3>2
    <3> QED BY <3>1, <3>2
  <2>4. CASE a = e - 1
    <3>1. CASE u < at
      BY <1>1, <1>2, <1>5, <1>7, <1>8, <1>10, <1>11, <1>12, <1>13, <2>1, <2>4, <3>1
    <3>2. CASE ~(u < at)
      BY <1>1, <1>2, <1>5, <1>7, <1>8, <1>10, <1>11, <1>12, <1>13, <2>1, <2>4, <3>2
    <3> QED BY <3>1, <3>2
  <2> QED BY <1>1, <2>2, <2>3, <2>4
<1>15. start >= 0 /\ end <= 6 * DayLength /\ start < end
  BY <1>1, <1>2, <1>3, <1>5, <1>7, <1>8, <1>10, <1>11, <1>12
<1>16. start..(end - 1) = SameDay(z, t)
  <2>1. end \in Int
    BY <1>1, <1>5, <1>12
  <2>2. SameDay(z, t) = {u \in 0..(6 * DayLength) : LocalDate(z, u) = k}
    BY DEF SameDay, k
  <2>3. \A u \in Int : LocalDate(z, u) = k <=> start <= u /\ u < end
    BY <1>14
  <2> QED BY <1>1, <1>11, <1>15, <2>1, <2>2, <2>3
<1>17. LocalDate(z, start) = k
  BY <1>11, <1>14, <1>15
<1>18. LocalDate(z, start - 1) = k - 1
  <2> DEFINE y == start - 1
  <2>1. y < at => b - DayLength <= y + e /\ y + e < b
    <3> SUFFICES ASSUME start - 1 < at
                 PROVE  b - DayLength <= start - 1 + e /\ start - 1 + e < b
      OBVIOUS
    <3>1. CASE t < at \/ b - a < at
      BY <1>1, <1>5, <1>10, <3>1
    <3>2. CASE ~(t < at) /\ ~(b - a < at)
      BY <1>1, <1>2, <1>5, <1>10, <1>13, <3>2
    <3> QED BY <3>1, <3>2
  <2>2. y >= at => b - DayLength <= y + a /\ y + a < b
    <3> SUFFICES ASSUME start - 1 >= at
                 PROVE  b - DayLength <= start - 1 + a /\ start - 1 + a < b
      OBVIOUS
    <3>1. CASE t < at
      BY <1>1, <1>2, <1>5, <1>7, <1>10, <3>1
    <3>2. CASE ~(t < at) /\ b - a < at
      BY <1>1, <1>2, <1>5, <1>10, <3>2
    <3>3. CASE ~(t < at) /\ ~(b - a < at)
      BY <1>1, <1>2, <1>5, <1>10, <3>3
    <3> QED BY <3>1, <3>2, <3>3
  <2>3. y \in Int /\ y + e \in Int /\ y + a \in Int
    BY <1>1, <1>11
  <2> HIDE DEF y
  <2>4. CASE y < at
    <3>1. (y + e) \div DayLength = k - 1
      BY <1>6, <2>1, <2>3, <2>4
    <3> QED BY <1>4, <2>3, <2>4, <3>1 DEF y
  <2>5. CASE ~(y < at)
    <3>1. (y + a) \div DayLength = k - 1
      BY <1>1, <1>6, <2>2, <2>3, <2>5
    <3> QED BY <1>4, <2>3, <2>5, <3>1 DEF y
  <2> QED BY <2>4, <2>5
<1>19. localDayRangeUtc(z, t) = [start |-> start, end |-> end]
  BY DEF localDayRangeUtc, start, end, noon
<1> QED BY <1>16, <1>17, <1>18, <1>19 DEF DayExact, dayKeys, k

\* A day of which an earlier instant is left out is not told right.
LEMMA StartsLate ==
    ASSUME NEW z \in Zones, NEW t \in Asked, NEW u \in 0..(6 * DayLength),
           LocalDate(z, u) = LocalDate(z, t), startOfLocalDay(z, t) \in Int, u < startOfLocalDay(z, t)
    PROVE  ~DayExact(z, t)
<1> DEFINE start == startOfLocalDay(z, t)
<1>1. u \in SameDay(z, t) /\ u \in Int
  BY PlatformDayAssumption DEF SameDay
<1>2. localDayRangeUtc(z, t).start = start
  BY DEF localDayRangeUtc
<1> HIDE DEF start
<1>3. ASSUME NEW last \in Int PROVE u \notin start..last
  BY <1>1 DEF start
<1>4. \A last : u \notin start..last
  BY <1>1 DEF start
<1> QED BY <1>1, <1>2, <1>4 DEF DayExact

(* The last tick of a day that had one more: the second pass goes by the clock of the     *)
(* morning, by which that tick is the next day's (core/time/index.ts:52).                 *)
LEMMA LastTickIsWrong ==
    ASSUME NEW z \in Zones, NEW t \in Asked, ExtraTick(z, t)
    PROVE  ~DayExact(z, t)
<1> DEFINE k == LocalDate(z, t)
           b == k * DayLength
           e == z.before
           a == z.after
           at == z.at
<1>1. /\ e \in Nat /\ at \in Int /\ a \in Int /\ a = e - 1 /\ at <= t /\ t \in Int
      /\ 2 * DayLength <= at /\ DayLength \in Nat /\ DayLength >= 4 /\ t < 5 * DayLength
  BY ZoneFacts, PlatformDayAssumption DEF ExtraTick, Asked
<1>2. \A u \in Int : LocalDate(z, u) = (u + (IF u < at THEN e ELSE a)) \div DayLength
  BY DEF LocalDate, timezoneOffset
<1>3. (t + a) \div DayLength = k /\ (at + a) \div DayLength = k /\ (t + e) \div DayLength # k
  BY <1>1, <1>2 DEF ExtraTick
<1>4. k \in Int /\ b \in Int
  <2>1. k \in Int
    BY <1>1, <1>3, DayBounds
  <2> QED BY <1>1, <2>1
<1>5. \A x \in Int :
         /\ b <= x /\ x < b + DayLength <=> x \div DayLength = k
         /\ b + DayLength <= x /\ x < b + 2 * DayLength <=> x \div DayLength = k + 1
  BY <1>4, DaysAround
<1>6. timezoneOffset(z, t) = a /\ Midnight(t, a) = b - a
  BY <1>1, <1>3 DEF timezoneOffset, Midnight
<1>7. (k + 1) * DayLength = b + DayLength
  BY <1>1, <1>4
<1> HIDE DEF k, b, e, a, at
<1>8. b <= at + a /\ t + a = b + DayLength - 1 /\ t + e = b + DayLength
  <2>0. at + a \in Int /\ t + a \in Int /\ t + e \in Int
    BY <1>1
  <2>1. b <= at + a /\ b <= t + a /\ t + a < b + DayLength
    BY <1>3, <1>5, <2>0
  <2>2. ~(b <= t + e /\ t + e < b + DayLength)
    BY <1>3, <1>5, <2>0
  <2> QED BY <1>1, <1>4, <2>1, <2>2
<1>9. CASE b - a < at
  <2>1. (t + e) \div DayLength = k + 1
    <3>1. t + e \in Int /\ b + DayLength <= t + e /\ t + e < b + 2 * DayLength
      BY <1>1, <1>4, <1>8
    <3> QED BY <1>5, <3>1
  <2>2. startOfLocalDay(z, t) = b + DayLength - e
    <3>1. timezoneOffset(z, b - a) = e
      BY <1>9 DEF timezoneOffset, e, at
    <3>2. Midnight(t, e) = b + DayLength - e
      <4>1. Midnight(t, e) = (k + 1) * DayLength - e
        BY <2>1, Zenon DEF Midnight
      <4> QED BY <1>1, <1>4, <1>7, <4>1
    <3> QED BY <1>6, <3>1, <3>2 DEF startOfLocalDay
  <2>3. startOfLocalDay(z, t) = t
    BY <1>1, <1>4, <1>8, <2>2
  <2>4. LocalDate(z, t - 1) = k
    <3>1. CASE t - 1 < at
      <4>1. (t - 1 + e) \div DayLength = k
        <5>1. t - 1 + e \in Int /\ b <= t - 1 + e /\ t - 1 + e < b + DayLength
          BY <1>1, <1>4, <1>8
        <5> QED BY <1>5, <5>1
      <4> QED BY <1>1, <1>2, <3>1, <4>1
    <3>2. CASE ~(t - 1 < at)
      <4>1. (t - 1 + a) \div DayLength = k
        <5>1. t - 1 + a \in Int /\ b <= t - 1 + a /\ t - 1 + a < b + DayLength
          BY <1>1, <1>4, <1>8
        <5> QED BY <1>5, <5>1
      <4> QED BY <1>1, <1>2, <3>2, <4>1
    <3> QED BY <3>1, <3>2
  <2>5. t - 1 \in 0..(6 * DayLength) /\ t - 1 < t
    BY <1>1
  <2> QED BY <1>1, <2>3, <2>4, <2>5, StartsLate DEF k
<1>10. CASE ~(b - a < at)
  <2>1. at + a = b
    BY <1>1, <1>4, <1>8, <1>10
  <2>2. startOfLocalDay(z, t) = at
    <3>1. timezoneOffset(z, b - a) = a
      BY <1>10 DEF timezoneOffset, a, at
    <3>2. b - a = at
      BY <1>1, <1>4, <2>1
    <3> QED BY <1>6, <3>1, <3>2 DEF startOfLocalDay
  <2>3. LocalDate(z, at - 1) = k
    <3>1. (at - 1 + e) \div DayLength = k
      <4>1. at - 1 + e \in Int /\ b <= at - 1 + e /\ at - 1 + e < b + DayLength
        BY <1>1, <1>4, <2>1
      <4> QED BY <1>5, <4>1
    <3> QED BY <1>1, <1>2, <3>1
  <2>4. at - 1 \in 0..(6 * DayLength) /\ at - 1 < at
    BY <1>1
  <2> QED BY <1>1, <2>2, <2>3, <2>4, StartsLate DEF k
<1> QED BY <1>9, <1>10

(* A midnight that comes twice: the day that ends there is given the tick between the two, *)
(* which is the next day's by the calendar, and the day that begins there lacks it.        *)
LEMMA TwoMidnightsAreWrong ==
    ASSUME NEW z \in Zones, NEW t \in Asked, TwoMidnights(z, t), t # z.at - 1
    PROVE  ~DayExact(z, t)
<1> DEFINE k == LocalDate(z, t)
           b == k * DayLength
           e == z.before
           a == z.after
           at == z.at
           j == LocalDate(z, at)
<1>1. /\ e \in Nat /\ at \in Int /\ a \in Int /\ a = e - 1 /\ t \in Int /\ t # at - 1
      /\ 2 * DayLength <= at /\ at < 3 * DayLength /\ DayLength \in Nat /\ DayLength >= 4
      /\ DayLength <= t /\ t < 5 * DayLength /\ e < DayLength
  BY ZoneFacts, PlatformDayAssumption DEF TwoMidnights, Asked
<1>2. \A u \in Int : LocalDate(z, u) = (u + (IF u < at THEN e ELSE a)) \div DayLength
  BY DEF LocalDate, timezoneOffset
<1>3. PICK h \in Nat : DayLength = 2 * h /\ (3 * DayLength) \div 2 = 3 * h /\ h >= 2
  BY PlatformDayAssumption
<1>4. k \in Int /\ b \in Int /\ j \in Int /\ k \in {j - 1, j} /\ j * DayLength \in Int
  <2>1. k \in Int /\ j \in Int
    BY <1>1, <1>2, DayBounds
  <2> QED BY <1>1, <2>1 DEF TwoMidnights
<1>5. \A x \in Int :
         /\ b <= x /\ x < b + DayLength <=> x \div DayLength = k
         /\ b + DayLength <= x /\ x < b + 2 * DayLength <=> x \div DayLength = k + 1
  BY <1>4, DaysAround
<1>6. at + a = j * DayLength /\ (at + a) \div DayLength = j
  <2>1. at + a \in Int /\ (at + a) % DayLength = 0 /\ (at + a) \div DayLength = j
    BY <1>1, <1>2 DEF TwoMidnights
  <2> DEFINE x == at + a
  <2>2. x \in Int /\ x % DayLength = 0 /\ x \div DayLength = j
    BY <2>1
  <2> HIDE DEF x, j
  <2>3. x = (DayLength * (x \div DayLength)) + (x % DayLength)
    <3>1. DayLength \in Nat \ {0} /\ x \in Int
      BY <1>1, <2>2
    <3> QED BY <3>1
  <2>4. x = j * DayLength
    BY <1>1, <1>4, <2>2, <2>3
  <2> QED BY <2>1, <2>4 DEF x
<1>7. (k + 1) * DayLength = b + DayLength
  BY <1>1, <1>4
<1>8. CASE k = j
  <2>1. at + a = b
    BY <1>6, <1>8
  <2>2. ~(t < at)
    <3> SUFFICES ASSUME t < at PROVE FALSE
      OBVIOUS
    <3>1. (t + e) \div DayLength = k /\ t + e \in Int
      BY <1>1, <1>2
    <3>2. b <= t + e
      BY <1>5, <3>1
    <3> HIDE DEF k, b, e, a, at
    <3> QED BY <1>1, <1>4, <2>1, <3>2
  <2>3. startOfLocalDay(z, t) = at
    <3>1. timezoneOffset(z, t) = a /\ (t + a) \div DayLength = k
      BY <1>1, <1>2, <2>2 DEF timezoneOffset
    <3>2. Midnight(t, a) = at
      <4>1. Midnight(t, a) = b - a
        BY <3>1 DEF Midnight
      <4> HIDE DEF k, b, e, a, at
      <4> QED BY <1>1, <1>4, <2>1, <4>1
    <3>3. timezoneOffset(z, at) = a
      BY <1>1 DEF timezoneOffset
    <3> QED BY <3>1, <3>2, <3>3 DEF startOfLocalDay
  <2>4. LocalDate(z, at - 1) = k
    <3>1. at - 1 \in Int /\ at - 1 < at /\ at - 1 + e = b
      <4> HIDE DEF k, b, e, a, at
      <4> QED BY <1>1, <1>4, <2>1
    <3>2. b \div DayLength = k
      <4> HIDE DEF k, b, e, a, at
      <4>1. b \in Int /\ b <= b /\ b < b + DayLength
        BY <1>1, <1>4
      <4> QED BY <1>5, <4>1
    <3> QED BY <1>2, <3>1, <3>2
  <2>5. at - 1 \in 0..(6 * DayLength) /\ at - 1 < at
    <3> HIDE DEF at
    <3> QED BY <1>1
  <2> QED BY <1>1, <2>3, <2>4, <2>5, StartsLate
<1>9. CASE k = j - 1
  <2> DEFINE n == k + 1
             noon == b - e + 3 * h
  <2>1. at + a = b + DayLength
    BY <1>4, <1>6, <1>7, <1>9
  <2>2. n \in Int /\ n * DayLength = b + DayLength
    BY <1>4, <1>7
  <2> HIDE DEF k, b, e, a, at, n
  <2>3. t < at
    <3> SUFFICES ASSUME ~(t < at) PROVE FALSE
      OBVIOUS
    <3>1. (t + a) \div DayLength = k /\ t + a \in Int
      BY <1>1, <1>2 DEF k
    <3>2. t + a < b + DayLength
      BY <1>5, <3>1
    <3> QED BY <1>1, <1>4, <2>1, <3>2
  <2>4. startOfLocalDay(z, t) = b - e
    <3>1. ~(t >= z.at)
      BY <1>1, <2>3 DEF at
    <3> QED BY <1>1, <1>4, <2>3, <3>1, StartIs DEF k, b, e, a, at
  <2>5. noon \in Int /\ noon >= at /\ (noon + e) \div DayLength = n /\ LocalDate(z, noon) = n
    <3>1. noon \in Int /\ noon >= at
      BY <1>1, <1>3, <1>4, <2>1
    <3>2. /\ b + DayLength <= noon + e /\ noon + e < b + 2 * DayLength
          /\ b + DayLength <= noon + a /\ noon + a < b + 2 * DayLength
          /\ noon + e \in Int /\ noon + a \in Int
      BY <1>1, <1>3, <1>4
    <3> HIDE DEF noon
    <3>3. (noon + e) \div DayLength = n /\ (noon + a) \div DayLength = n
      BY <1>5, <3>2 DEF n
    <3>4. ~(noon < at)
      BY <1>1, <3>1
    <3> QED BY <1>2, <3>1, <3>3, <3>4
  <2>6. startOfLocalDay(z, noon) = at
    <3> HIDE DEF noon
    <3>1. noon \in Int /\ LocalDate(z, noon) = n /\ (noon + z.before) \div DayLength = n
      BY <2>5 DEF e
    <3>2. startOfLocalDay(z, noon) = IF noon < z.at \/ n * DayLength - z.after < z.at
                                     THEN n * DayLength - z.before ELSE n * DayLength - z.after
      BY <2>2, <3>1, StartIs, Zenon
    <3>3. startOfLocalDay(z, noon) = IF noon < at \/ n * DayLength - a < at
                                     THEN n * DayLength - e ELSE n * DayLength - a
      BY <3>2, Zenon DEF e, a, at
    <3>4. n * DayLength - a = at
      BY <1>1, <1>4, <2>1, <2>2
    <3>5. ~(noon < at) /\ ~(at < at)
      BY <1>1, <2>5
    <3> QED BY <3>3, <3>4, <3>5
  <2>7. localDayRangeUtc(z, t) = [start |-> b - e, end |-> at]
    BY <1>3, <2>4, <2>6 DEF localDayRangeUtc
  <2>8. at - 1 \in (b - e)..(at - 1) /\ at - 1 \in Int /\ at - 1 < at
    BY <1>1, <1>4, <2>1
  <2>9. LocalDate(z, at - 1) = n
    <3>1. at - 1 + e = b + DayLength /\ at - 1 + e \in Int
      BY <1>1, <1>4, <2>1
    <3>2. (at - 1 + e) \div DayLength = n
      <4>1. b + DayLength <= at - 1 + e /\ at - 1 + e < b + 2 * DayLength
        BY <1>1, <1>4, <3>1
      <4> QED BY <1>5, <3>1, <4>1 DEF n
    <3> QED BY <1>2, <2>8, <3>2
  <2>10. at - 1 \notin SameDay(z, t)
    <3>1. LocalDate(z, at - 1) # LocalDate(z, t)
      <4>1. n # k
        BY <1>4 DEF n
      <4> QED BY <2>9, <4>1 DEF k
    <3> QED BY <3>1 DEF SameDay
  <2>11. localDayRangeUtc(z, t).start = b - e /\ localDayRangeUtc(z, t).end = at
    BY <2>7
  <2>12. DayExact(z, t) => localDayRangeUtc(z, t).start..(localDayRangeUtc(z, t).end - 1) = SameDay(z, t)
    BY Zenon DEF DayExact
  <2> QED BY <2>8, <2>10, <2>11, <2>12
<1> QED BY <1>4, <1>8, <1>9

(* Of every zone, for days of any even length and one change of the clocks by a tick at    *)
(* any instant of a day: startOfLocalDay, localDayRangeUtc and dayKeys give the bounds and *)
(* the names of the local day everywhere but in two cases, and are wrong in both of them:  *)
(* the last tick of a day that had one more, and the two days beside a midnight that comes *)
(* twice, there except in the tick just before the second one ("start and end are the      *)
(* actual local midnights", core/time/index.ts:63).                                        *)
THEOREM WhereDaysAreExact ==
    \A z \in Zones, t \in Asked :
       DayExact(z, t) <=> ~ExtraTick(z, t) /\ (TwoMidnights(z, t) => t = z.at - 1)
BY ZoneIsExact, LastTickIsWrong, TwoMidnightsAreWrong, Zenon

\* So no zone has a third case.
LEMMA NoOtherCase == ExactZones = Zones
BY ZoneIsExact, Zenon DEF ExactZones

SetZone == IF zoneSetting = NoSetting THEN Unchanging ELSE zoneSetting
NoneStored == \A w \in ZoneRequests : zonePut[w].pc # "stored"

ZoneTypes ==
    /\ zoneSetting \in Zones \cup {NoSetting} /\ timezone \in Zones /\ jobZone \in Zones
    /\ zonePut \in [ZoneRequests -> [pc : {"idle", "sent", "stored"}, zone : Zones, alone : BOOLEAN]]
    /\ drifted \in BOOLEAN /\ hotApplied \in BOOLEAN

\* What a change that met no other relies on: it is the only one, and the row is its own.
ZoneInv ==
    /\ ZoneTypes
    /\ ~hotApplied => jobZone = timezone
    /\ ~drifted /\ NoneStored => timezone = SetZone
    /\ \A w \in ZoneRequests : zonePut[w].alone /\ zonePut[w].pc # "idle" =>
          \A v \in ZoneRequests \ {w} : zonePut[v].pc = "idle"
    /\ \A w \in ZoneRequests : zonePut[w].alone /\ zonePut[w].pc = "stored" => zoneSetting = zonePut[w].zone

LEMMA NoSettingIsNoZone == NoSetting \notin Zones /\ Unchanging \in Zones
<1>1. NoSetting.at = -1
  BY DEF NoSetting, Zone
<1>2. \A z \in Zones : z.at >= 0
  <2> SUFFICES ASSUME NEW z \in Zones PROVE z.at >= 0
    OBVIOUS
  <2>1. CASE z = Unchanging
    BY <2>1, PlatformDayAssumption DEF Unchanging, Zone
  <2>2. ASSUME NEW at \in Changes, NEW shift \in {-1, 1}, z = Zone(at, shift) PROVE z.at >= 0
    <3>1. z.at = at /\ at \in (2 * DayLength)..(3 * DayLength - 1) /\ DayLength \in Nat
      BY <2>2, PlatformDayAssumption DEF Zone
    <3> QED BY <3>1
  <2> QED BY <2>1, <2>2 DEF Zones
<1> QED BY <1>1, <1>2 DEF Zones

LEMMA ZoneInvInit == PlatformDayInit => ZoneInv
<1> SUFFICES ASSUME PlatformDayInit PROVE ZoneInv
  OBVIOUS
<1>1. \A w \in ZoneRequests : zonePut[w] = NoZonePut
  BY DEF PlatformDayInit
<1>2. NoZonePut.pc = "idle" /\ NoZonePut \in [pc : {"idle", "sent", "stored"}, zone : Zones, alone : BOOLEAN]
  BY NoSettingIsNoZone DEF NoZonePut
<1>3. ZoneTypes
  BY <1>2, NoSettingIsNoZone DEF ZoneTypes, PlatformDayInit
<1> QED BY <1>1, <1>2, <1>3 DEF ZoneInv, SetZone, PlatformDayInit

LEMMA ZoneInvKept == ZoneInv /\ [PlatformDayNext]_platformDayVars => ZoneInv'
<1> SUFFICES ASSUME ZoneInv, [PlatformDayNext]_platformDayVars PROVE ZoneInv'
  OBVIOUS
<1> DEFINE Put == [pc : {"idle", "sent", "stored"}, zone : Zones, alone : BOOLEAN]
<1>1. /\ zonePut \in [ZoneRequests -> Put] /\ zoneSetting \in Zones \cup {NoSetting}
      /\ timezone \in Zones /\ jobZone \in Zones /\ drifted \in BOOLEAN /\ hotApplied \in BOOLEAN
  BY DEF ZoneInv, ZoneTypes
<1>2. NoZonePut.pc = "idle" /\ NoZonePut.alone = FALSE /\ NoZonePut \in Put
  BY NoSettingIsNoZone DEF NoZonePut
<1>3. ASSUME NEW w \in ZoneRequests, NEW z \in Zones, putTimezone(w, z) PROVE ZoneInv'
  <2> DEFINE asked == [pc |-> "sent", zone |-> z, alone |-> InFlight = {}]
  <2>1. /\ zonePut'[w] = asked
        /\ \A v \in ZoneRequests \ {w} : zonePut'[v] = [zonePut[v] EXCEPT !.alone = FALSE]
        /\ zonePut' = [v \in ZoneRequests |-> zonePut'[v]]
        /\ zonePut[w].pc = "idle"
        /\ UNCHANGED <<zoneSetting, timezone, jobZone, drifted, hotApplied>>
    BY <1>3 DEF putTimezone
  <2>2. asked.pc = "sent" /\ (asked.alone => InFlight = {}) /\ asked \in Put
    OBVIOUS
  <2>3. ASSUME NEW v \in ZoneRequests \ {w}
        PROVE  zonePut'[v].pc = zonePut[v].pc /\ zonePut'[v].alone = FALSE /\ zonePut'[v] \in Put
    BY <1>1, <2>1
  <2> HIDE DEF asked, Put
  <2>4. ZoneTypes'
    <3>1. \A v \in ZoneRequests : zonePut'[v] \in Put
      BY <2>1, <2>2, <2>3
    <3> QED BY <1>1, <2>1, <3>1 DEF ZoneTypes, Put
  <2>5. NoneStored' = NoneStored
    BY <2>1, <2>2, <2>3 DEF NoneStored
  <2>6. (~hotApplied => jobZone = timezone)' /\ (~drifted /\ NoneStored => timezone = SetZone)'
    BY <2>1, <2>5 DEF ZoneInv, SetZone
  <2>7. ASSUME NEW u \in ZoneRequests, zonePut'[u].alone, zonePut'[u].pc # "idle"
        PROVE  u = w /\ \A v \in ZoneRequests \ {u} : zonePut'[v].pc = "idle"
    BY <2>1, <2>2, <2>3, <2>7 DEF InFlight
  <2>8. ASSUME NEW u \in ZoneRequests, zonePut'[u].alone PROVE zonePut'[u].pc # "stored"
    BY <2>1, <2>2, <2>3, <2>8
  <2> QED BY <2>4, <2>6, <2>7, <2>8 DEF ZoneInv
<1>4. ASSUME NEW w \in ZoneRequests, StoreTimezone(w) PROVE ZoneInv'
  <2> DEFINE asked == [zonePut[w] EXCEPT !.pc = "stored"]
  <2>1. /\ zonePut'[w] = asked /\ \A v \in ZoneRequests \ {w} : zonePut'[v] = zonePut[v]
        /\ zonePut' = [zonePut EXCEPT ![w] = asked]
        /\ zonePut[w].pc = "sent" /\ zoneSetting' = zonePut[w].zone
        /\ UNCHANGED <<timezone, jobZone, drifted, hotApplied>>
    BY <1>1, <1>4 DEF StoreTimezone
  <2>2. /\ asked \in Put /\ asked.pc = "stored" /\ asked.zone = zonePut[w].zone /\ asked.alone = zonePut[w].alone
        /\ zonePut[w].zone \in Zones
    BY <1>1
  <2> HIDE DEF asked, Put
  <2>3. ZoneTypes'
    BY <1>1, <2>1, <2>2 DEF ZoneTypes, Put
  <2>4. ~NoneStored'
    BY <2>1, <2>2 DEF NoneStored
  <2>5. ASSUME NEW u \in ZoneRequests, zonePut'[u].alone, zonePut'[u].pc # "idle"
        PROVE  u = w /\ \A v \in ZoneRequests \ {u} : zonePut'[v].pc = "idle"
    <3>1. u = w
      BY <2>1, <2>5 DEF ZoneInv
    <3> QED BY <2>1, <2>2, <2>5, <3>1 DEF ZoneInv
  <2>6. ASSUME NEW u \in ZoneRequests, zonePut'[u].alone, zonePut'[u].pc = "stored"
        PROVE  zoneSetting' = zonePut'[u].zone
    <3>1. u = w
      BY <2>5, <2>6
    <3> QED BY <2>1, <2>2, <3>1
  <2> QED BY <2>1, <2>3, <2>4, <2>5, <2>6 DEF ZoneInv
<1>5. ASSUME NEW w \in ZoneRequests, zonePut' = [zonePut EXCEPT ![w] = NoZonePut],
             timezone' \in Zones, drifted' \in BOOLEAN, hotApplied' \in BOOLEAN,
             UNCHANGED <<zoneSetting, jobZone>>,
             ~hotApplied' => timezone' = timezone /\ ~hotApplied,
             ~drifted' /\ NoneStored' => timezone' = SetZone
      PROVE ZoneInv'
  <2>1. zonePut'[w] = NoZonePut /\ \A v \in ZoneRequests \ {w} : zonePut'[v] = zonePut[v]
    BY <1>1, <1>5
  <2> HIDE DEF Put
  <2>2. ZoneTypes'
    BY <1>1, <1>2, <1>5 DEF ZoneTypes, Put
  <2>3. (~drifted /\ NoneStored => timezone = SetZone)'
    BY <1>5 DEF SetZone
  <2>4. (~hotApplied => jobZone = timezone)'
    BY <1>5 DEF ZoneInv
  <2>5. ASSUME NEW u \in ZoneRequests, zonePut'[u].alone
        PROVE  u # w /\ zonePut'[u] = zonePut[u]
    BY <1>2, <2>1, <2>5
  <2>6. ASSUME NEW u \in ZoneRequests, zonePut'[u].alone, zonePut'[u].pc # "idle"
        PROVE  \A v \in ZoneRequests \ {u} : zonePut'[v].pc = "idle"
    BY <1>2, <2>1, <2>5, <2>6 DEF ZoneInv
  <2>7. ASSUME NEW u \in ZoneRequests, zonePut'[u].alone, zonePut'[u].pc = "stored"
        PROVE  zoneSetting' = zonePut'[u].zone
    BY <1>5, <2>5, <2>7 DEF ZoneInv
  <2> QED BY <2>2, <2>3, <2>4, <2>6, <2>7 DEF ZoneInv
<1>6. ASSUME NEW w \in ZoneRequests, setTimezone(w) PROVE ZoneInv'
  <2>1. /\ zonePut' = [zonePut EXCEPT ![w] = NoZonePut] /\ timezone' = zonePut[w].zone
        /\ drifted' = ~zonePut[w].alone /\ hotApplied' = TRUE /\ UNCHANGED <<zoneSetting, jobZone>>
        /\ zonePut[w].pc = "stored"
    BY <1>6 DEF setTimezone
  <2>2. zonePut[w].zone \in Zones /\ zonePut[w].alone \in BOOLEAN
    BY <1>1
  <2>3. ~drifted' => timezone' = SetZone
    <3>1. zonePut[w].alone => zoneSetting = zonePut[w].zone
      BY <2>1 DEF ZoneInv
    <3> QED BY <2>1, <2>2, <3>1, NoSettingIsNoZone DEF SetZone
  <2> HIDE DEF Put
  <2> QED BY <1>5, <2>1, <2>2, <2>3
<1>7. ASSUME NEW w \in ZoneRequests, PutTimezoneFails(w) PROVE ZoneInv'
  <2>1. /\ zonePut' = [zonePut EXCEPT ![w] = NoZonePut] /\ drifted' = (drifted \/ zonePut[w].pc = "stored")
        /\ UNCHANGED <<zoneSetting, timezone, jobZone, hotApplied>>
    BY <1>7 DEF PutTimezoneFails
  <2>2. ~drifted' /\ NoneStored' => NoneStored /\ ~drifted
    <3>1. \A v \in ZoneRequests \ {w} : zonePut'[v] = zonePut[v]
      BY <1>1, <2>1
    <3> QED BY <2>1, <3>1 DEF NoneStored
  <2>3. ~drifted' /\ NoneStored' => timezone' = SetZone
    BY <2>1, <2>2 DEF ZoneInv
  <2>4. drifted' \in BOOLEAN
    BY <2>1
  <2> HIDE DEF Put
  <2> QED BY <1>1, <1>5, <2>1, <2>3, <2>4
<1>8. ASSUME ReenableTasks PROVE ZoneInv'
  <2>1. /\ jobZone' = timezone /\ hotApplied' = FALSE
        /\ UNCHANGED <<zoneSetting, timezone, zonePut, drifted>>
    BY <1>8 DEF ReenableTasks
  <2> QED BY <1>1, <2>1 DEF ZoneInv, ZoneTypes, SetZone, NoneStored
<1>9. ASSUME NEW read \in BOOLEAN, RestartPlatform(read) PROVE ZoneInv'
  <2>1. /\ timezone' = Restored(read) /\ jobZone' = timezone'
        /\ zonePut' = [w \in ZoneRequests |-> NoZonePut]
        /\ drifted' = ~read /\ hotApplied' = FALSE /\ zoneSetting' = zoneSetting
    BY <1>9 DEF RestartPlatform
  <2>2. Restored(read) \in Zones /\ (read => Restored(read) = SetZone)
    BY <1>1, NoSettingIsNoZone DEF Restored, SetZone
  <2>3. \A u \in ZoneRequests : zonePut'[u].pc = "idle"
    BY <1>2, <2>1
  <2> HIDE DEF Put
  <2>4. zonePut' \in [ZoneRequests -> Put]
    BY <1>2, <2>1
  <2>5. ZoneTypes'
    BY <1>1, <2>1, <2>2, <2>4 DEF ZoneTypes, Put
  <2>6. (~drifted /\ NoneStored => timezone = SetZone)'
    BY <2>1, <2>2 DEF SetZone
  <2> QED BY <2>1, <2>3, <2>5, <2>6 DEF ZoneInv
<1>10. CASE UNCHANGED platformDayVars
  BY <1>10 DEF platformDayVars, ZoneInv, ZoneTypes, SetZone, NoneStored
<1> HIDE DEF Put
<1> QED BY <1>3, <1>4, <1>6, <1>7, <1>8, <1>9, <1>10 DEF PlatformDayNext

LEMMA ZoneInvSays == ZoneInv => TodayFollowsSetting
<1> SUFFICES ASSUME ZoneInv PROVE TodayFollowsSetting
  OBVIOUS
<1>1. InFlight = {} => NoneStored
  <2> SUFFICES ASSUME InFlight = {}, NEW w \in ZoneRequests PROVE zonePut[w].pc # "stored"
    BY DEF NoneStored
  <2> QED BY DEF InFlight
<1> QED BY <1>1, NoOtherCase
    DEF ZoneInv, ZoneTypes, SetZone, TodayFollowsSetting, TodayIsTheLocalDate, TimezoneApplied

(* For any zones, requests and failures, in any order: the service tells the day of its    *)
(* zone exactly, but for ExtraTick and TwoMidnights (WhereDaysAreExact), and once the      *)
(* changes of the setting are over that zone is the one stored, the daily job's too if it  *)
(* was registered since (core/platform.ts:73).                                             *)
THEOREM TodayIsSet == PlatformDaySpec => []TodayFollowsSetting
BY ZoneInvInit, ZoneInvKept, ZoneInvSays, PTL DEF PlatformDaySpec
=============================================================================
