------------------------------ MODULE SyncFiles ------------------------------
(***************************************************************************)
(* The files of continuous sync on one server: the attachment bytes that a *)
(* cycle or a choice stages beside its transaction (guardedFiles), the     *)
(* content-addressed cache of cloud objects (sync-cache.ts), and the       *)
(* retention that deletes what nothing refers to (sync-retention.ts).      *)
(* Modelled for one attachment; what a cycle decides about it is           *)
(* SyncProtocol, here any decision.  Checks of path names, symbolic links  *)
(* and digests are left out, and so is a crash in the middle of a write.   *)
(***************************************************************************)
EXTENDS Integers, FiniteSets

CONSTANTS
    SyncRequests,   \* cycles and choices
    Contents,       \* what the attachment's bytes may be
    NoContent,      \* no attachment
    NoRequest,      \* a lease_token that is null
    MaxKept,        \* SYNC_RETENTION_MAX_FILES
    MaxKeys,        \* bound: files ever written
    MaxSyncFaults   \* bound: crashes, stalls and lost answers

ASSUME SyncFilesAssumption ==
    /\ MaxKept \in Nat /\ MaxKeys \in Nat /\ MaxSyncFaults \in Nat
    /\ NoContent \notin Contents /\ NoRequest \notin SyncRequests

VARIABLES
    placed,     \* assets.attachments: the storage key of the row and what its bytes should be
    stored,       \* the storage keys that hold a file; later keys are newer files
    uploaded,   \* those the assets app wrote: they are not in the folder sync/
    cache,      \* the objects in .sync
    refs,       \* what sync_bindings and sync_conflicts refer to
    clouds,     \* the content of the cloud head
    holder,     \* lease_token and lease_until of the binding
    syncReq,    \* the requests
    lastKey, syncFaults,
    overran     \* history: a request pruned, or noted conflicts, after another had taken its lease

filesVars == <<placed, stored, uploaded, cache, refs, clouds, holder, syncReq, lastKey, syncFaults, overran>>
bindingVars == <<refs, clouds, holder>>

NoRow == [key |-> 0, content |-> NoContent]
Nobody == [by |-> NoRequest, live |-> FALSE]
SyncRest == [pc |-> "rest", seen |-> NoRow, content |-> NoContent, new |-> 0, old |-> 0,
             settles |-> FALSE, keys |-> {}, objects |-> {}]

FilesInit ==
    /\ placed = NoRow /\ stored = {} /\ uploaded = {} /\ cache = {}
    /\ refs = [head |-> {}, pending |-> {}, disputed |-> {}, unknown |-> FALSE]
    /\ clouds \in Contents \cup {NoContent}
    /\ holder = Nobody
    /\ syncReq = [r \in SyncRequests |-> SyncRest]
    /\ lastKey = 0 /\ syncFaults = 0 /\ overran = FALSE

RequestAt(r, pc) == syncReq[r].pc = pc
Proceed(r, pc) == syncReq' = [syncReq EXCEPT ![r] = [SyncRest EXCEPT !.pc = pc]]
ProceedWith(r, pc, content) == syncReq' = [syncReq EXCEPT ![r] = [SyncRest EXCEPT !.pc = pc, !.content = content]]
HasLease(r) == holder.by = r
MayCallCloud(r) == HasLease(r) /\ holder.live
SyncFault == syncFaults < MaxSyncFaults /\ syncFaults' = syncFaults + 1
Overtaken(r) == overran' = (overran \/ ~HasLease(r))

\* The finally block gives the lease back if it is still this request's.
LeaseBack(r) == holder' = IF HasLease(r) THEN Nobody ELSE holder
Leave(r) == syncReq' = [syncReq EXCEPT ![r] = SyncRest] /\ LeaseBack(r)

\* writeCachedObject: an object that is there already keeps its place.
Cached(objects) == cache \cup objects

-----------------------------------------------------------------------------
(* The attachment in the assets app, and the other devices behind the head. *)
AddAttachment(content) ==
    /\ placed = NoRow /\ lastKey < MaxKeys
    /\ lastKey' = lastKey + 1
    /\ placed' = [key |-> lastKey', content |-> content]
    /\ stored' = stored \cup {lastKey'} /\ uploaded' = uploaded \cup {lastKey'}
    /\ UNCHANGED <<cache, bindingVars, syncReq, syncFaults, overran>>

RemoveAttachment ==
    /\ placed # NoRow
    /\ placed' = NoRow /\ stored' = stored \ {placed.key}
    /\ UNCHANGED <<uploaded, cache, bindingVars, syncReq, lastKey, syncFaults, overran>>

OthersPublish(content) ==
    /\ clouds # content /\ lastKey < MaxKeys
    /\ clouds' = content
    /\ UNCHANGED <<placed, stored, uploaded, cache, refs, holder, syncReq, lastKey, syncFaults, overran>>

-----------------------------------------------------------------------------
(* A cycle reads the head and its objects, from the cache or into it. *)
BeginRequest(r) ==
    /\ RequestAt(r, "rest") /\ ~holder.live
    /\ holder' = [by |-> r, live |-> TRUE]
    /\ \E next \in {"materialize", "choose"} : Proceed(r, next)
    /\ UNCHANGED <<placed, stored, uploaded, cache, refs, clouds, lastKey, syncFaults, overran>>

Materialize(r) ==
    /\ RequestAt(r, "materialize") /\ MayCallCloud(r)
    /\ cache' = Cached({clouds} \ {NoContent})
    /\ \/ /\ clouds # NoContent
          /\ syncReq' = [syncReq EXCEPT ![r] = [@ EXCEPT !.pc = "stage", !.seen = placed, !.content = clouds]]
       \/ /\ clouds = NoContent /\ placed # NoRow
          /\ syncReq' = [syncReq EXCEPT ![r] = [@ EXCEPT !.pc = "remove", !.seen = placed]]
       \/ ProceedWith(r, "remember", clouds)
       \/ placed # NoRow /\ Proceed(r, "put")
       \/ Proceed(r, "finish")
    /\ UNCHANGED <<placed, stored, uploaded, bindingVars, lastKey, syncFaults, overran>>

\* The budget is used up, the lease is gone or the cloud refuses.
StopRequest(r) ==
    /\ syncReq[r].pc \in {"materialize", "choose", "put", "publish"}
    /\ Leave(r)
    /\ UNCHANGED <<placed, stored, uploaded, cache, refs, clouds, lastKey, syncFaults, overran>>

(* resolve, keep-clouds: the bytes that were shown come from the cache. *)
Choose(r, content) ==
    /\ RequestAt(r, "choose") /\ MayCallCloud(r)
    /\ content \in refs.disputed \cap cache
    /\ syncReq' = [syncReq EXCEPT ![r] = [@ EXCEPT !.pc = "stage", !.seen = placed, !.content = content,
                                                   !.settles = TRUE]]
    /\ UNCHANGED <<placed, stored, uploaded, cache, bindingVars, lastKey, syncFaults, overran>>

-----------------------------------------------------------------------------
(***************************************************************************)
(* guardedFiles: the file is staged inside the transaction; a commit that  *)
(* is known retires the key it replaced, a rollback that is known discards *)
(* the staged file, and an unknown outcome keeps both.                     *)
(***************************************************************************)
StageFile(r) ==
    /\ RequestAt(r, "stage") /\ lastKey < MaxKeys
    /\ lastKey' = lastKey + 1
    /\ stored' = stored \cup {lastKey'}
    /\ syncReq' = [syncReq EXCEPT ![r] = [@ EXCEPT !.pc = "commit", !.new = lastKey']]
    /\ UNCHANGED <<placed, uploaded, cache, bindingVars, syncFaults, overran>>

\* The row lock on the binding and the digest of the local rows.
MayCommit(r) == HasLease(r) /\ placed = syncReq[r].seen

Row(r) == IF RequestAt(r, "remove") THEN NoRow ELSE [key |-> syncReq[r].new, content |-> syncReq[r].content]

\* The accepted head is stored in the same transaction, or the conflict is closed.
RefsAfter(r) ==
    IF syncReq[r].settles THEN [refs EXCEPT !.disputed = @ \ {syncReq[r].content}]
    ELSE [refs EXCEPT !.head = {syncReq[r].content} \ {NoContent}]

CommitFiles(r) ==
    /\ syncReq[r].pc \in {"commit", "remove"} /\ MayCommit(r)
    /\ placed' = Row(r)
    /\ refs' = RefsAfter(r)
    /\ syncReq' = [syncReq EXCEPT ![r] = [SyncRest EXCEPT !.pc = "retire", !.old = placed.key,
                       !.settles = syncReq[r].settles, !.content = syncReq[r].content]]
    /\ UNCHANGED <<stored, uploaded, cache, clouds, holder, lastKey, syncFaults, overran>>

RollBack(r) ==
    /\ syncReq[r].pc \in {"commit", "remove"} /\ ~MayCommit(r)
    /\ stored' = stored \ {syncReq[r].new}
    /\ Leave(r)
    /\ UNCHANGED <<placed, uploaded, cache, refs, clouds, lastKey, syncFaults, overran>>

\* Mutant: the staged file is discarded on every error.
DiscardStaged(r) ==
    /\ syncReq[r].pc \in {"commit", "remove"} /\ MayCommit(r) /\ SyncFault
    /\ stored' = stored \ {syncReq[r].new}
    /\ \E committed \in BOOLEAN :
          /\ placed' = IF committed THEN Row(r) ELSE placed
          /\ refs' = [IF committed THEN RefsAfter(r) ELSE refs EXCEPT !.unknown = TRUE]
    /\ Leave(r)
    /\ UNCHANGED <<uploaded, cache, clouds, lastKey, overran>>

\* The answer to COMMIT is lost; marking the phase may fail as well.
OutcomeUnknown(r) ==
    /\ syncReq[r].pc \in {"commit", "remove"} /\ MayCommit(r) /\ SyncFault
    /\ \E committed, marked \in BOOLEAN :
          /\ placed' = IF committed THEN Row(r) ELSE placed
          /\ refs' = [IF committed THEN RefsAfter(r) ELSE refs EXCEPT !.unknown = @ \/ marked]
    /\ Leave(r)
    /\ UNCHANGED <<stored, uploaded, cache, clouds, lastKey, overran>>

\* retireFiles: the replaced file goes unless a row uses it; a failure to delete is ignored.
RetireFile(r) ==
    /\ RequestAt(r, "retire")
    /\ stored' = stored \ ({syncReq[r].old} \ {placed.key})
    /\ IF syncReq[r].settles THEN Leave(r)
       ELSE /\ ProceedWith(r, "remember", syncReq[r].content) \/ Proceed(r, "finish")
            /\ UNCHANGED holder
    /\ UNCHANGED <<placed, uploaded, cache, refs, clouds, lastKey, syncFaults, overran>>

\* rememberConflicts is not tied to the lease.
RememberConflict(r) ==
    /\ RequestAt(r, "remember")
    /\ refs' = [refs EXCEPT !.disputed = {syncReq[r].content} \ {NoContent}]
    /\ \E next \in {"finish", "put"} : (next = "put" => placed # NoRow) /\ Proceed(r, next)
    /\ Overtaken(r)
    /\ UNCHANGED <<placed, stored, uploaded, cache, clouds, holder, lastKey, syncFaults>>

-----------------------------------------------------------------------------
(* A publication: putImmutable keeps the object, the journal names it before the head. *)
PutObject(r) ==
    /\ RequestAt(r, "put") /\ MayCallCloud(r)
    /\ cache' = Cached({placed.content} \ {NoContent})
    /\ ProceedWith(r, "publish", placed.content)
    /\ UNCHANGED <<placed, stored, uploaded, bindingVars, lastKey, syncFaults, overran>>

PublishHead(r) ==
    /\ RequestAt(r, "publish") /\ MayCallCloud(r) /\ placed.content = syncReq[r].content
    /\ clouds' = placed.content
    /\ refs' = [refs EXCEPT !.head = {placed.content} \ {NoContent}, !.pending = {}]
    /\ Proceed(r, "finish")
    /\ UNCHANGED <<placed, stored, uploaded, cache, holder, lastKey, syncFaults, overran>>

PublicationUnknown(r) ==
    /\ RequestAt(r, "publish") /\ MayCallCloud(r) /\ placed.content = syncReq[r].content /\ SyncFault
    /\ clouds' \in {clouds, placed.content}
    /\ refs' = [refs EXCEPT !.pending = {placed.content}]
    /\ Leave(r)
    /\ UNCHANGED <<placed, stored, uploaded, cache, lastKey, overran>>

-----------------------------------------------------------------------------
(***************************************************************************)
(* finish and retainLocal: only the holder of the lease, with no journal   *)
(* and no unknown commit left; then pruneSyncLocalFiles reads the folders  *)
(* and deletes, without looking at the lease again.                        *)
(***************************************************************************)
Finish(r) ==
    /\ RequestAt(r, "finish")
    /\ refs' = IF HasLease(r) /\ refs.pending = {} THEN [refs EXCEPT !.unknown = FALSE] ELSE refs
    /\ IF HasLease(r) /\ refs.pending = {} THEN Proceed(r, "retain") /\ UNCHANGED holder ELSE Leave(r)
    /\ UNCHANGED <<placed, stored, uploaded, cache, clouds, lastKey, syncFaults, overran>>

CollectRefs(r) ==
    /\ RequestAt(r, "retain") /\ HasLease(r)
    /\ syncReq' = [syncReq EXCEPT ![r] = [@ EXCEPT !.pc = "prune", !.keys = {placed.key},
                                                   !.objects = refs.head \cup refs.pending \cup refs.disputed]]
    /\ UNCHANGED <<placed, stored, uploaded, cache, bindingVars, lastKey, syncFaults, overran>>

\* plan: at most MaxKept of what is not protected stay; ages and byte counts say which.
Stale(free) == {stale \in SUBSET free : Cardinality(free \ stale) <= MaxKept}

PlanPrune(r) == \E keys \in Stale((stored \ uploaded) \ syncReq[r].keys),
                   objects \in Stale(cache \ syncReq[r].objects) :
    /\ RequestAt(r, "prune")
    /\ syncReq' = [syncReq EXCEPT ![r] = [@ EXCEPT !.pc = "unlink", !.keys = keys, !.objects = objects]]
    /\ Overtaken(r)
    /\ UNCHANGED <<placed, stored, uploaded, cache, bindingVars, lastKey, syncFaults>>

RemoveStale(r) ==
    /\ RequestAt(r, "unlink")
    /\ stored' = stored \ syncReq[r].keys
    /\ cache' = cache \ syncReq[r].objects
    /\ Overtaken(r)
    /\ Leave(r)
    /\ UNCHANGED <<placed, uploaded, refs, clouds, lastKey, syncFaults>>

-----------------------------------------------------------------------------
(* The process stops, or stalls until the lease has run out. *)
CrashRequest(r) ==
    /\ ~RequestAt(r, "rest") /\ SyncFault
    /\ syncReq' = [syncReq EXCEPT ![r] = SyncRest]
    /\ UNCHANGED <<placed, stored, uploaded, cache, bindingVars, lastKey, overran>>

LeaseRunsOut ==
    /\ holder.live /\ (RequestAt(holder.by, "rest") \/ syncFaults < MaxSyncFaults)
    /\ syncFaults' = IF RequestAt(holder.by, "rest") THEN syncFaults ELSE syncFaults + 1
    /\ holder' = [holder EXCEPT !.live = FALSE]
    /\ UNCHANGED <<placed, stored, uploaded, cache, refs, clouds, syncReq, lastKey, overran>>

RequestStep(r) ==
    \/ BeginRequest(r) \/ Materialize(r) \/ StopRequest(r)
    \/ \E content \in Contents : Choose(r, content)
    \/ StageFile(r) \/ CommitFiles(r) \/ RollBack(r) \/ OutcomeUnknown(r) \/ RetireFile(r)
    \/ RememberConflict(r) \/ PutObject(r) \/ PublishHead(r) \/ PublicationUnknown(r)
    \/ Finish(r) \/ CollectRefs(r) \/ PlanPrune(r) \/ RemoveStale(r) \/ CrashRequest(r)

\* Bound: nothing is followed beyond the first overrun.
FilesNext ==
    /\ ~overran
    /\ \/ \E content \in Contents : AddAttachment(content)
       \/ RemoveAttachment \/ LeaseRunsOut
       \/ \E content \in Contents \cup {NoContent} : OthersPublish(content)
       \/ \E r \in SyncRequests : RequestStep(r)

FilesSpec == FilesInit /\ [][FilesNext]_filesVars

-----------------------------------------------------------------------------
(* However commits, rollbacks, choices, retiring and pruning of several requests mix,   *)
(* and whatever is lost or crashes: the row of an attachment has its file, and the      *)
(* object that a user may choose in an open conflict is in the cache.  Only a request   *)
(* that stalled past its lease may break this, where the code does not look at it.      *)
SyncFilesKept ==
    overran \/ /\ placed = NoRow \/ placed.key \in stored
               /\ refs.disputed \subseteq cache
=============================================================================
