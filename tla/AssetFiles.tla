----------------------------- MODULE AssetFiles -----------------------------
(***************************************************************************)
(* The attachments of one item of assets/index.ts: a metadata row in the   *)
(* database and a file in the owner's storage, which no transaction        *)
(* spans.  An upload saves the file between two transactions, a removal    *)
(* deletes it after one; what fails in between is queued in cleanup_jobs,  *)
(* and an hourly sweep drops rows whose file is confirmed missing.         *)
(* Transactions on the item serialize on the owner's advisory lock, so     *)
(* each of them is one step.                                               *)
(***************************************************************************)
EXTENDS Integers, FiniteSets

CONSTANTS
    Attachments,     \* attachment ids, which are their storage keys too
    AssetRequests,   \* requests in flight
    Anything,        \* no proof is presented: the binding is not linked
    MaxAttempts,     \* MAX_CLEANUP_ATTEMPTS
    MaxStorageFaults \* bound: storage calls and queue writes that fail, answers lost, crashes

ASSUME AssetAssumption ==
    MaxAttempts \in Nat \ {0} /\ MaxStorageFaults \in Nat /\ Anything \notin Attachments

VARIABLES
    item,       \* "new", "edited" or "gone": the item row and its links
    rows,       \* assets.attachments
    files,      \* storage keys that hold a file
    jobs,       \* assets.cleanup_jobs, by key
    assetReq,   \* the await a request stands at
    sweep,      \* the sweep: rows still to probe, and the row confirmed to miss its file
    used,       \* attachment ids ever drawn: they are random and never come again
    faults,
    unanswered, \* history: uploads whose commit was reported as a failure
    leaked      \* history: keys a crash or a failed queue write forgot

assetVars == <<item, rows, files, jobs, assetReq, sweep, used, faults, unanswered, leaked>>

\* keys: what the request still has to delete, or the key it uploads.
AtRest == [pc |-> "rest", seen |-> Anything, keys |-> {}]
NoSweep == [on |-> FALSE, todo |-> {}, missing |-> {}]

\* A job counts its attempts; the last one leaves it failed.
NoJob == 0 - 1
Pending == 0..(MaxAttempts - 1)
Failed == MaxAttempts
Done == MaxAttempts + 1

AssetInit ==
    /\ item = "new" /\ rows = {} /\ files = {}
    /\ jobs = [k \in Attachments |-> NoJob]
    /\ assetReq = [r \in AssetRequests |-> AtRest]
    /\ sweep = NoSweep
    /\ used = {} /\ faults = 0 /\ unanswered = {} /\ leaked = {}

InPc(r, pc) == assetReq[r].pc = pc
Turn(r, pc, keys) == assetReq' = [assetReq EXCEPT ![r] =
                       IF keys = {} THEN AtRest ELSE [@ EXCEPT !.pc = pc, !.keys = keys]]
Fault == faults < MaxStorageFaults /\ faults' = faults + 1

(* itemProof: the item, its links and its attachments with the digest of each file.  *)
(* A file that cannot be read answers sync_stale, so nothing can be written.         *)
Proof == [item |-> item, rows |-> rows]
Provable == item # "gone" /\ rows \subseteq files
Matches(seen) == Provable /\ seen \in {Anything, Proof}

EditItem(r) ==
    /\ InPc(r, "rest") /\ Provable /\ item = "new"
    /\ item' = "edited"
    /\ UNCHANGED <<rows, files, jobs, assetReq, sweep, faults, unanswered, leaked, used>>

(* POST attachments: checked, saved, checked again and inserted. *)
UploadCheck(r, k) ==
    /\ InPc(r, "rest") /\ k \notin used /\ Provable
    /\ \E seen \in {Anything, Proof} :
          assetReq' = [assetReq EXCEPT ![r] = [pc |-> "save", seen |-> seen, keys |-> {k}]]
    /\ used' = used \union {k}
    /\ UNCHANGED <<item, rows, files, jobs, sweep, faults, unanswered, leaked>>

UploadSave(r) ==
    /\ InPc(r, "save")
    /\ files' = files \union assetReq[r].keys
    /\ Turn(r, "insert", assetReq[r].keys)
    /\ UNCHANGED <<item, rows, jobs, sweep, faults, unanswered, leaked, used>>

UploadSaveFails(r) ==
    /\ InPc(r, "save") /\ Fault
    /\ Turn(r, "rest", {})
    /\ UNCHANGED <<item, rows, files, jobs, sweep, unanswered, leaked, used>>

UploadInsert(r) ==
    /\ InPc(r, "insert") /\ Matches(assetReq[r].seen)
    /\ rows' = rows \union assetReq[r].keys
    /\ Turn(r, "rest", {})
    /\ UNCHANGED <<item, files, jobs, sweep, faults, unanswered, leaked, used>>

(* The transaction committed, and its answer was an error. *)
UploadAnswerLost(r) ==
    /\ InPc(r, "insert") /\ Matches(assetReq[r].seen) /\ Fault
    /\ rows' = rows \union assetReq[r].keys
    /\ unanswered' = unanswered \union assetReq[r].keys
    /\ Turn(r, "enqueue", assetReq[r].keys)
    /\ UNCHANGED <<item, files, jobs, sweep, leaked, used>>

UploadRefused(r) ==
    /\ InPc(r, "insert") /\ ~Matches(assetReq[r].seen)
    /\ Turn(r, "enqueue", assetReq[r].keys)
    /\ UNCHANGED <<item, rows, files, jobs, sweep, faults, unanswered, leaked, used>>

\* Mutant: files go before the transaction that removes their rows.
RemoveFilesFirst(r, gone, left) ==
    /\ InPc(r, "rest") /\ Provable
    /\ files' = files \ gone /\ rows' = rows /\ item' = item
    /\ Turn(r, "unlink", gone)
    /\ UNCHANGED <<jobs, sweep, faults, unanswered, leaked, used>>

(* DELETE of an attachment or of the item: the rows first, then the files. *)
RemoveRows(r, gone, left) ==
    /\ InPc(r, "rest") /\ Provable
    /\ rows' = rows \ gone /\ item' = left
    /\ Turn(r, "unlink", gone)
    /\ UNCHANGED <<files, jobs, sweep, faults, unanswered, leaked, used>>

DeleteAttachment(r) == \E k \in rows : RemoveRows(r, {k}, item)
DeleteItem(r) == RemoveRows(r, rows, "gone")

Unlink(r) ==
    /\ InPc(r, "unlink")
    /\ \E k \in assetReq[r].keys :
          files' = files \ {k} /\ Turn(r, "unlink", assetReq[r].keys \ {k})
    /\ UNCHANGED <<item, rows, jobs, sweep, faults, unanswered, leaked, used>>

\* Mutant: a file that could not be deleted is nobody's business any more.
UnlinkFailureIgnored(r) ==
    /\ InPc(r, "unlink") /\ Fault
    /\ \E k \in assetReq[r].keys : jobs' = jobs /\ Turn(r, "unlink", assetReq[r].keys \ {k})
    /\ UNCHANGED <<item, rows, files, sweep, unanswered, leaked, used>>

UnlinkFails(r) ==
    /\ InPc(r, "unlink") /\ Fault
    /\ \E k \in assetReq[r].keys :
          jobs' = [jobs EXCEPT ![k] = 0] /\ Turn(r, "unlink", assetReq[r].keys \ {k})
    /\ UNCHANGED <<item, rows, files, sweep, unanswered, leaked, used>>

(* compensate: the job is queued; working the queue is left to DrainJob. *)
Enqueue(r) ==
    /\ InPc(r, "enqueue")
    /\ jobs' = [k \in Attachments |-> IF k \in assetReq[r].keys THEN 0 ELSE jobs[k]]
    /\ Turn(r, "rest", {})
    /\ UNCHANGED <<item, rows, files, sweep, faults, unanswered, leaked, used>>

EnqueueFails(r) ==
    /\ assetReq[r].pc \in {"unlink", "enqueue"} /\ Fault
    /\ leaked' = leaked \union assetReq[r].keys
    /\ Turn(r, "rest", {})
    /\ UNCHANGED <<item, rows, files, jobs, sweep, unanswered, used>>

-----------------------------------------------------------------------------
(* processCleanupQueue, by a request or a sweep; deleting a missing file succeeds. *)
DrainJob(k) ==
    /\ jobs[k] \in Pending
    /\ files' = files \ {k}
    /\ jobs' = [jobs EXCEPT ![k] = Done]
    /\ UNCHANGED <<item, rows, assetReq, sweep, faults, unanswered, leaked, used>>

DrainFails(k) ==
    /\ jobs[k] \in Pending /\ Fault
    /\ jobs' = [jobs EXCEPT ![k] = @ + 1]
    /\ UNCHANGED <<item, rows, files, assetReq, sweep, unanswered, leaked, used>>

(* reconcileStorage, hourly and after the start: rows listed, each probed, and dropped *)
(* when its file was confirmed missing; a probe that fails keeps the row.              *)
SweepList ==
    /\ ~sweep.on /\ rows # {}
    /\ sweep' = [on |-> TRUE, todo |-> rows, missing |-> {}]
    /\ UNCHANGED <<item, rows, files, jobs, assetReq, faults, unanswered, leaked, used>>

\* Mutant: whatever is not there counts as a failed probe.
ProbeKeepsAll(k) ==
    /\ k \in sweep.todo /\ sweep.missing = {}
    /\ sweep' = [sweep EXCEPT !.todo = @ \ {k}, !.on = sweep.todo # {k}]
    /\ UNCHANGED <<item, rows, files, jobs, assetReq, faults, unanswered, leaked, used>>

SweepProbe(k) ==
    /\ k \in sweep.todo /\ sweep.missing = {}
    /\ sweep' = [todo |-> sweep.todo \ {k}, missing |-> {k} \ files,
                 on |-> sweep.todo # {k} \/ k \notin files]
    /\ UNCHANGED <<item, rows, files, jobs, assetReq, faults, unanswered, leaked, used>>

SweepProbeFails(k) ==
    /\ k \in sweep.todo /\ sweep.missing = {} /\ Fault
    /\ sweep' = [sweep EXCEPT !.todo = @ \ {k}, !.on = sweep.todo # {k}]
    /\ UNCHANGED <<item, rows, files, jobs, assetReq, unanswered, leaked, used>>

SweepDrop ==
    /\ sweep.missing # {}
    /\ rows' = rows \ sweep.missing
    /\ sweep' = [sweep EXCEPT !.missing = {}, !.on = sweep.todo # {}]
    /\ UNCHANGED <<item, files, jobs, assetReq, faults, unanswered, leaked, used>>

(* The process stops: what the requests still had to do is forgotten. *)
AssetCrash ==
    /\ Fault
    /\ leaked' = leaked \union (files \intersect UNION {assetReq[r].keys : r \in AssetRequests})
    /\ assetReq' = [r \in AssetRequests |-> AtRest]
    /\ sweep' = NoSweep
    /\ UNCHANGED <<item, rows, files, jobs, unanswered, used>>

AssetStep(r) ==
    \/ EditItem(r) \/ \E k \in Attachments : UploadCheck(r, k)
    \/ UploadSave(r) \/ UploadSaveFails(r) \/ UploadInsert(r) \/ UploadAnswerLost(r)
    \/ UploadRefused(r) \/ DeleteAttachment(r) \/ DeleteItem(r)
    \/ Unlink(r) \/ UnlinkFails(r) \/ Enqueue(r) \/ EnqueueFails(r)

Sweeper == SweepList \/ SweepDrop \/ \E k \in Attachments : SweepProbe(k)

AssetNext ==
    \/ \E r \in AssetRequests : AssetStep(r)
    \/ \E k \in Attachments : DrainJob(k) \/ DrainFails(k) \/ SweepProbeFails(k)
    \/ Sweeper \/ AssetCrash

(* The scheduler starts a sweep every hour and one after each start of the process. *)
AssetFairness == WF_assetVars(Sweeper)

AssetSpec == AssetInit /\ [][AssetNext]_assetVars /\ AssetFairness

-----------------------------------------------------------------------------
(* A row misses its file only if its upload was answered with an error: no removal, no  *)
(* compensation of another upload and no sweep takes the file of a row that counts      *)
(* (POST and DELETE attachments, compensate).                                           *)
RowsKeepFiles == rows \ files \subseteq unanswered

(* A file without a row is on its way into a row or out of storage, is named by a job   *)
(* that is pending or failed where an operator sees it, or was forgotten by a crash or  *)
(* a failed queue write (the compensation of POST, DELETE attachments and DELETE item). *)
OrphansAccounted ==
    files \ rows \subseteq leaked
        \union (UNION {assetReq[r].keys : r \in AssetRequests})
        \union {k \in Attachments : jobs[k] \in Pending \union {Failed}}

(* Both: storage and rows, written by no one transaction, never part for good unseen.   *)
FilesAccounted == RowsKeepFiles /\ OrphansAccounted

(* A row whose file is gone blocks every write to its item, and the sweep ends that     *)
(* (reconcileStorage; itemProof refuses while a file cannot be read).                   *)
DanglingRowsGo == \A k \in Attachments : (k \in rows \ files) ~> (k \notin rows \ files)
=============================================================================
