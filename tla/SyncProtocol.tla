---------------------------- MODULE SyncProtocol ----------------------------
(***************************************************************************)
(* The pure decisions of continuous sync: sync-protocol.ts.                *)
(*                                                                         *)
(* A row is what projectRow keeps of a database row: a body (every         *)
(* semantic column, and the attachment bytes where the row has some) and,  *)
(* for a mini game save, a high score.  semanticHash is a SHA-256 of that  *)
(* projection, so two hashes are equal exactly when the projected rows     *)
(* are: a hash is represented by the row itself.                           *)
(***************************************************************************)
EXTENDS Integers, FiniteSets

CONSTANTS
    Keys,          \* sync keys (table and primary key)
    Bodies,        \* the semantic columns of a row
    Scores,        \* the values of high_score, NoScore for a row without one
    None,          \* an absent row, hash, document or holder
    FocusKeys,     \* the keys of focus.sessions
    ActiveBodies   \* bodies whose status is running or paused

NoScore == -1

ASSUME ScoresAssumption == Scores \subseteq Int /\ \A s \in Scores : s >= NoScore
ASSUME FocusAssumption == FocusKeys \subseteq Keys /\ ActiveBodies \subseteq Bodies

Row == [body : Bodies, score : Scores]
MaybeRow == Row \union {None}

(***************************************************************************)
(* Actions.  A conflict keeps both images, which are the captured local    *)
(* row and the row of the remote head, so only its reason is stored.       *)
(***************************************************************************)
ActionTypes == {"none", "unchanged", "apply-remote", "pending-local",
                "publish-tombstone", "adopt-tombstone", "delete-local",
                "raise-high-score", "conflict"}

Act(type) == [type |-> type, row |-> None, high |-> NoScore, reason |-> ""]
ApplyRemote(row) == [Act("apply-remote") EXCEPT !.row = row]
RaiseHighScore(high) == [Act("raise-high-score") EXCEPT !.high = high]
Conflict(reason) == [Act("conflict") EXCEPT !.reason = reason]

MaxScore(S) == CHOOSE s \in S : \A t \in S : s >= t

PreserveHighScore(row, high) ==
    IF row.score = NoScore THEN row ELSE [row EXCEPT !.score = high]

(***************************************************************************)
(* Both sides hold the key and no baseline tells them apart.               *)
(***************************************************************************)
ClassifyBoth(local, remote) ==
    CASE local = remote -> Act("unchanged")
      [] local # remote /\ local.body = remote.body ->
            RaiseHighScore(MaxScore({local.score, remote.score}))
      [] OTHER -> Conflict("diverged")

\* Mutants of ClassifyEstablished: the last reader, or the last writer, wins.
ClassifyRemoteWins(base, baseHigh, local, remote) ==
    IF local = remote THEN Act("unchanged") ELSE ApplyRemote(remote)

ClassifyLocalWins(base, baseHigh, local, remote) ==
    IF local = remote THEN Act("unchanged") ELSE Act("pending-local")

(***************************************************************************)
(* Both sides hold the key after the first anchoring.  baseHigh is the     *)
(* high score stored beside the base hash.                                 *)
(***************************************************************************)
ClassifyEstablished(base, baseHigh, local, remote) ==
    LET high == MaxScore({local.score, remote.score,
                          IF base = None THEN NoScore ELSE baseHigh})
        localRow == PreserveHighScore(local, high)
        remoteRow == PreserveHighScore(remote, high)
    IN  CASE localRow = remoteRow /\ local.score < high /\ local.score # NoScore ->
                RaiseHighScore(high)
          [] localRow = remoteRow /\ local.score \in {high, NoScore}
                /\ remote.score < high /\ remote.score # NoScore -> Act("pending-local")
          [] localRow = remoteRow /\ local.score \in {high, NoScore}
                /\ remote.score \in {high, NoScore} -> Act("unchanged")
          [] localRow # remoteRow /\ base # None /\ local = base -> ApplyRemote(remoteRow)
          [] localRow # remoteRow /\ base # None /\ local # base /\ remote = base ->
                Act("pending-local")
          [] OTHER -> ClassifyBoth(localRow, remoteRow)

(***************************************************************************)
(* The first merge of a replica: nothing is overwritten because one side   *)
(* is new, and an absent key is never a deletion.                          *)
(***************************************************************************)
BootstrapAction(local, remote, gone) ==
    CASE gone /\ local # None -> Conflict("tombstone")
      [] gone /\ local = None -> Act("adopt-tombstone")
      [] ~gone /\ local # None /\ remote # None -> ClassifyBoth(local, remote)
      [] ~gone /\ local # None /\ remote = None -> Act("pending-local")
      [] ~gone /\ local = None /\ remote # None -> ApplyRemote(remote)
      [] OTHER -> Act("none")

(***************************************************************************)
(* Later merges: three-way, against the base hash of the key.  A local     *)
(* tombstone without a hash is an acknowledged absence; with a hash it is  *)
(* a deletion of that reviewed version.                                    *)
(***************************************************************************)
LinkedAction(base, baseHigh, local, remote, gone, tombstoned) ==
    LET localGone == tombstoned \/ base # None
    IN  CASE gone /\ local # None /\ local = base -> Act("delete-local")
          [] gone /\ local # None /\ local # base -> Conflict("tombstone")
          [] gone /\ local = None /\ tombstoned /\ base = None -> Act("unchanged")
          [] gone /\ local = None /\ tombstoned /\ base # None -> Act("publish-tombstone")
          [] gone /\ local = None /\ ~tombstoned -> Act("adopt-tombstone")
          [] ~gone /\ local = None /\ remote # None /\ base = None -> ApplyRemote(remote)
          [] ~gone /\ local = None /\ remote # None /\ base # None /\ remote = base ->
                Act("publish-tombstone")
          [] ~gone /\ local = None /\ remote # None /\ base # None /\ remote # base ->
                Conflict("deleted-locally")
          [] ~gone /\ local = None /\ remote = None /\ localGone -> Act("publish-tombstone")
          [] ~gone /\ local # None /\ remote # None ->
                ClassifyEstablished(base, baseHigh, local, remote)
          [] ~gone /\ local # None /\ remote = None -> Act("pending-local")
          [] OTHER -> Act("none")

KeyAction(established, base, baseHigh, local, remote, gone, tombstoned) ==
    CASE tombstoned /\ local # None -> Conflict("resurrection")
      [] ~(tombstoned /\ local # None) /\ ~established ->
            BootstrapAction(local, remote, gone)
      [] OTHER -> LinkedAction(base, baseHigh, local, remote, gone, tombstoned)

(***************************************************************************)
(* The local focus timer is never stopped by sync, and a second active     *)
(* session is never imported beside it.                                    *)
(***************************************************************************)
IsActive(row) == row # None /\ row.body \in ActiveBodies

UnsafeFocus(key, action, local) ==
    LET active == {k \in FocusKeys : IsActive(local[k])}
    IN  \/ action.type = "delete-local" /\ key \in active
        \/ action.type = "apply-remote" /\ IsActive(action.row) /\ active \ {key} # {}

(***************************************************************************)
(* reconcile: one action for each key.  base, baseHigh, local and remote   *)
(* are functions on Keys, gone and tombs the remote and local tombstones.  *)
(***************************************************************************)
Reconcile(established, base, baseHigh, local, remote, gone, tombs) ==
    [key \in Keys |->
        LET action == KeyAction(established, base[key], baseHigh[key], local[key],
                                remote[key], key \in gone, key \in tombs)
        IN  IF UnsafeFocus(key, action, local) THEN Conflict("focus-active") ELSE action]

(***************************************************************************)
(* reconcile refuses a head that lists a key as live and deleted, and a    *)
(* head that dropped a key of the baseline without a tombstone.            *)
(***************************************************************************)
InvalidHead(established, base, remote, gone) ==
    \/ \E key \in gone : remote[key] # None
    \/ established /\ \E key \in Keys \ gone : base[key] # None /\ remote[key] = None

(***************************************************************************)
(* recoverPublication.  A document is known by its operation token and its *)
(* content; pending is the journal, etag and document what the cloud       *)
(* answered (None: no head), capture the digest of the local rows now.     *)
(***************************************************************************)
Content(document) == [rows |-> document.rows, tombs |-> document.tombs]

SameHead(document, other) ==
    /\ document # None
    /\ other # None
    /\ document.op = other.op
    /\ Content(document) = Content(other)

RecoverPublication(pending, document, etag, capture) ==
    LET moved == capture # pending.capture
        remoteIsPending == SameHead(document, pending.doc)
        remoteIsParent == SameHead(document, pending.parent) /\ etag = pending.parentEtag
    IN  CASE remoteIsPending /\ pending.applied /\ ~moved -> "commit-remote"
          [] remoteIsPending /\ (~pending.applied \/ moved) -> "retain-pending"
          [] ~remoteIsPending /\ moved -> "retain-pending"
          [] ~remoteIsPending /\ ~moved /\ remoteIsParent -> "retry-same"
          [] ~remoteIsPending /\ ~moved /\ ~remoteIsParent
                /\ document # None /\ document.op # pending.doc.op -> "lost-race"
          [] OTHER -> "retry-same"
=============================================================================
