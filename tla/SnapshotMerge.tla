--------------------------- MODULE SnapshotMerge ----------------------------
(***************************************************************************)
(* Merging a chosen backup into the data of one user (snapshot.ts merge):  *)
(* one transaction under table locks inserts what is missing, keeps every  *)
(* row that exists, and follows a tag that exists under another id by its  *)
(* name; new attachment files are staged on disk while the transaction     *)
(* runs.  The connection may drop before or after the commit, the process  *)
(* may end, and a staged file may refuse to go.  Categories of items merge *)
(* as tags of notes do; both are one relation here.                        *)
(***************************************************************************)
EXTENDS Integers

CONSTANTS MergeTags,     \* tag ids
          MergeNames,    \* tag names, unique per user
          MergeFiles,    \* attachment ids
          StagedKeys,    \* storage keys: random, never drawn twice
          MaxUserEdits,  \* bound: the user's own changes
          NoKey

ASSUME MergeAssumption == MaxUserEdits \in Nat /\ NoKey \notin StagedKeys

VARIABLES db,       \* tags with their names, tags of the note, attachments with their keys
          disk,     \* storage keys that hold a file
          drawn,    \* keys drawn so far
          chosen,   \* the backup under import: tags, tags of the note, attachments
          import,   \* where the import stands, the rows it would commit, what it staged
          retryable, \* history: the backup was committed and nothing changed since
          userEdits

mergeVars == <<db, disk, drawn, chosen, import, retryable, userEdits>>

Unnamed == "none"
Namings == {n \in [MergeTags -> MergeNames \cup {Unnamed}] :
              \A s, t \in MergeTags : (s # t /\ n[s] # Unnamed) => n[s] # n[t]}
Named(n) == {t \in MergeTags : n[t] # Unnamed}
\* validateEnvelope and validateSourceRelations: unique keys and names, parents present.
ValidBackups == {b \in [names : Namings, links : SUBSET MergeTags, files : SUBSET MergeFiles] :
                   b.links \subseteq Named(b.names)}
NoBackup == [names |-> [t \in MergeTags |-> Unnamed], links |-> {}, files |-> {}]
EmptyRows == [names |-> NoBackup.names, links |-> {}, keys |-> [f \in MergeFiles |-> NoKey]]
NotImporting == [pc |-> "idle", rows |-> EmptyRows, staged |-> {}]

MergeInit ==
    /\ db = EmptyRows /\ disk = {} /\ drawn = {} /\ chosen = NoBackup
    /\ import = NotImporting /\ retryable = FALSE /\ userEdits = 0

Unlocked == import.pc \in {"idle", "cleanup"}

\* The user's own routes wait while the import holds its table locks.
UserEdits(rows, keep) ==
    /\ Unlocked /\ userEdits < MaxUserEdits /\ rows # db
    /\ db' = rows /\ disk' = keep
    /\ userEdits' = userEdits + 1 /\ retryable' = FALSE
    /\ UNCHANGED <<chosen, import>>
UserNames == \E n \in Namings :
    UserEdits([db EXCEPT !.names = n, !.links = @ \cap Named(n)], disk) /\ UNCHANGED drawn
UserLinks == \E s \in SUBSET Named(db.names) : UserEdits([db EXCEPT !.links = s], disk) /\ UNCHANGED drawn
UserAttaches == \E f \in MergeFiles, k \in StagedKeys \ drawn :
    /\ db.keys[f] = NoKey
    /\ UserEdits([db EXCEPT !.keys[f] = k], disk \cup {k}) /\ drawn' = drawn \cup {k}
UserDetaches == \E f \in MergeFiles :
    UserEdits([db EXCEPT !.keys[f] = NoKey], disk \ {db.keys[f]}) /\ UNCHANGED drawn

ChooseBackup == \E b \in ValidBackups :
    /\ import.pc = "idle" /\ b # NoBackup /\ b # chosen
    /\ chosen' = b /\ retryable' = FALSE
    /\ UNCHANGED <<db, disk, drawn, import, userEdits>>

\* The row a tag of the backup stands for: its id, else its name, else a new row.
TargetTag(rows, b, t) ==
    LET same == {u \in MergeTags : rows.names[u] = b.names[t]}
    IN  IF rows.names[t] = Unnamed /\ same # {} THEN CHOOSE u \in same : TRUE ELSE t

\* The rows after the merge; keys gives each new attachment its storage key.
Merged(rows, b, keys) ==
    [names |-> [t \in MergeTags |-> IF t \in Named(b.names) /\ rows.names[t] = Unnamed
                                       /\ TargetTag(rows, b, t) = t
                                    THEN b.names[t] ELSE rows.names[t]],
     links |-> rows.links \cup {TargetTag(rows, b, t) : t \in b.links},
     keys  |-> [f \in MergeFiles |-> IF rows.keys[f] = NoKey THEN keys[f] ELSE rows.keys[f]]]
Missing(rows, b) == {f \in b.files : rows.keys[f] = NoKey}

\* The body of the transaction: each new attachment is written under a key of its own.
MergeBody == \E keys \in [MergeFiles -> StagedKeys \cup {NoKey}] :
    LET new == Missing(db, chosen)
        staged == {keys[f] : f \in new}
    IN  /\ import.pc = "idle" /\ chosen # NoBackup
        /\ \A f \in MergeFiles : IF f \in new THEN keys[f] \in StagedKeys \ drawn ELSE keys[f] = NoKey
        /\ \A f, g \in new : keys[f] = keys[g] => f = g
        /\ import' = [pc |-> "committing", rows |-> Merged(db, chosen, keys), staged |-> staged]
        /\ disk' = disk \cup staged /\ drawn' = drawn \cup staged
        /\ UNCHANGED <<db, chosen, retryable, userEdits>>

MergeCommits ==
    /\ import.pc = "committing" /\ db' = import.rows /\ import' = NotImporting /\ retryable' = TRUE
    /\ UNCHANGED <<disk, drawn, chosen, userEdits>>

\* After a failed body the staged files go; after a lost commit answer they stay.
CleansAlways(outcome) == import.staged
Cleans(outcome) == IF outcome = "failed" THEN import.staged ELSE {}

\* The answer to COMMIT is lost: import_outcome_unknown, committed or not.
CommitUnknown == \E rows \in {db, import.rows} :
    /\ import.pc = "committing"
    /\ db' = rows /\ retryable' = (rows = import.rows)
    /\ import' = [NotImporting EXCEPT !.pc = "cleanup", !.staged = Cleans("unknown")]
    /\ UNCHANGED <<disk, drawn, chosen, userEdits>>

\* A conflict (an id of another account, a second active session), a lock timeout, a full
\* disk or a preview: the transaction rolls back.
BodyFails ==
    /\ import.pc = "committing"
    /\ import' = [NotImporting EXCEPT !.pc = "cleanup", !.staged = Cleans("failed")]
    /\ UNCHANGED <<db, disk, drawn, chosen, retryable, userEdits>>

\* A file that cannot be unlinked is reported: import_cleanup_required.
Cleanup == \E stuck \in SUBSET import.staged :
    /\ import.pc = "cleanup" /\ disk' = disk \ (import.staged \ stuck) /\ import' = NotImporting
    /\ UNCHANGED <<db, drawn, chosen, retryable, userEdits>>

\* The process ends while the transaction is open: PostgreSQL rolls back.
MergeCrash ==
    /\ import.pc # "idle" /\ import' = NotImporting
    /\ UNCHANGED <<db, disk, drawn, chosen, retryable, userEdits>>

MergeNext ==
    \/ UserNames \/ UserLinks \/ UserAttaches \/ UserDetaches \/ ChooseBackup
    \/ MergeBody \/ MergeCommits \/ CommitUnknown \/ BodyFails \/ Cleanup \/ MergeCrash
MergeSpec == MergeInit /\ [][MergeNext]_mergeVars

-----------------------------------------------------------------------------
(* "Retrying the same snapshot is safe" (snapshot.ts merge): however an import   *)
(* ended, every attachment row has its file, tag names stay unique, and merging  *)
(* a committed backup again would add nothing.                                   *)
RetrySafe ==
    /\ \A f \in MergeFiles : db.keys[f] = NoKey \/ db.keys[f] \in disk
    /\ db.names \in Namings /\ db.links \subseteq Named(db.names)
    /\ retryable => Missing(db, chosen) = {} /\ Merged(db, chosen, db.keys) = db
=============================================================================
