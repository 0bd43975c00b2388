---------------------------- MODULE RecordEditor ----------------------------
(***************************************************************************)
(* An open editor of a record that other pages and the sync service write  *)
(* too: shared/sync-guard-client.ts and useAsync.ts with the four editors  *)
(* built on them (notes, tasks, alarms, items).  The editor keeps the hash  *)
(* it loaded while its draft is dirty, takes a refreshed record while it   *)
(* is clean, and shows a notice with a reload button otherwise.  The hash   *)
(* of a record is its content.                                             *)
(***************************************************************************)
EXTENDS Naturals

CONSTANTS EditorKinds,     \* among "note", "task", "alarm", "item"
          MaxOthers        \* bound: writes of others

ASSUME EditorAssumption ==
    EditorKinds \subseteq {"note", "task", "alarm", "item"} /\ MaxOthers \in Nat

\* "links" stands for the tags of a note and the categories of an item.
Fields == {"own", "links"}

VARIABLES record,     \* the record at the server
          listed,     \* the record as the page last fetched it (useAsync)
          editor,     \* the mounted editor
          fetch,      \* the fetch under way, and whether the reload button waits for it
          saving,     \* the request of the save button
          others,     \* writes of others so far
          clobbered,  \* history: a save changed a field the user had not edited
          lostEdits   \* history: edits were discarded without a reload asked for after them

editorVars == <<record, listed, editor, fetch, saving, others, clobbered, lostEdits>>

NoFetch == [pc |-> "none", waiter |-> FALSE, got |-> [f \in Fields |-> 0]]
NotSaving == [pc |-> "none", sent |-> {}, values |-> [f \in Fields |-> 0],
              base |-> [f \in Fields |-> 0], edited |-> {}]
NoEditor == [kind |-> "none", base |-> [f \in Fields |-> 0], form |-> [f \in Fields |-> 0],
             adopt |-> FALSE, notice |-> FALSE, asked |-> FALSE, edited |-> {}]
Open == editor.kind # "none"

\* The draft is dirty once a field was edited, until a record is adopted.
Dirty(e) == e.edited # {}

\* The editor mounts with the fields and the hash of the record it is given.
Mounted(kind, r) == [NoEditor EXCEPT !.kind = kind, !.base = r, !.form = r]

EditorInit ==
    /\ record = [f \in Fields |-> 0] /\ listed = record /\ others = 0
    /\ editor = NoEditor /\ fetch = NoFetch /\ saving = NotSaving
    /\ clobbered = FALSE /\ lostEdits = FALSE

OpenEditor(kind) ==
    /\ ~Open
    /\ editor' = Mounted(kind, listed)
    /\ UNCHANGED <<record, listed, fetch, saving, others, clobbered, lostEdits>>

\* The editor is cancelled, or its page is left.
CloseEditor ==
    /\ Open /\ saving = NotSaving
    /\ editor' = NoEditor
    /\ UNCHANGED <<record, listed, fetch, saving, others, clobbered, lostEdits>>

\* set, toggleTag, toggleCategory, markDirty.  An edit withdraws the reload that was
\* asked for and has not come.
KeepsAdopt(e) == e
CancelAdopt(e) == [e EXCEPT !.adopt = FALSE]
Type(f) ==
    /\ Open
    /\ editor' = [CancelAdopt(editor) EXCEPT !.asked = FALSE,
                                             !.edited = @ \cup {f}, !.form[f] = 1 - @]
    /\ UNCHANGED <<record, listed, fetch, saving, others, clobbered, lostEdits>>

\* useAsync: a new run takes the place of the one under way, whose waiters are told
\* that it failed: the reload button then withdraws its request.
Rerun(e, waiter) ==
    /\ fetch' = [NoFetch EXCEPT !.pc = "asked", !.waiter = waiter]
    /\ editor' = IF fetch.waiter THEN CancelAdopt(e) ELSE e

\* The reload button of SyncPendingNotice.
ReloadDraft ==
    /\ Open /\ editor.notice
    /\ Rerun([editor EXCEPT !.adopt = TRUE, !.asked = TRUE], TRUE)
    /\ UNCHANGED <<record, listed, saving, others, clobbered, lostEdits>>

\* SYNC_DATA_CHANGED of this user (subscribeOwnDataChanged): a dirty editor only
\* shows the notice, everything else is fetched again.
DataChanged ==
    /\ IF Dirty(editor) THEN editor' = [editor EXCEPT !.notice = TRUE] /\ UNCHANGED fetch
       ELSE Rerun([editor EXCEPT !.notice = FALSE], FALSE)
    /\ UNCHANGED <<record, listed, saving, others, clobbered, lostEdits>>

ServeFetch ==
    /\ fetch.pc = "asked"
    /\ fetch' = [fetch EXCEPT !.pc = "served", !.got = record]
    /\ UNCHANGED <<record, listed, editor, saving, others, clobbered, lostEdits>>

\* useCoherentDraft: fields and hash are taken together, or neither is.
HashOnly(e, r) == [e EXCEPT !.base = r, !.notice = TRUE]
MarkStale(e, r) == [e EXCEPT !.notice = TRUE]
Observed(e, r) ==
    IF e.kind = "none" \/ (r = listed /\ ~e.adopt) THEN e
    ELSE IF e.adopt \/ ~Dirty(e) THEN Mounted(e.kind, r)
    ELSE MarkStale(e, r)

FetchArrives ==
    /\ fetch.pc = "served"
    /\ listed' = fetch.got
    /\ editor' = Observed(editor, fetch.got)
    /\ lostEdits' = (lostEdits \/ (Dirty(editor) /\ ~Dirty(editor') /\ ~editor.asked))
    /\ fetch' = NoFetch
    /\ UNCHANGED <<record, saving, others, clobbered>>

\* The record stays as it was; the reload button withdraws its request.
FetchFails ==
    /\ fetch.pc # "none"
    /\ editor' = IF fetch.waiter THEN CancelAdopt(editor) ELSE editor
    /\ fetch' = NoFetch
    /\ UNCHANGED <<record, listed, saving, others, clobbered, lostEdits>>

\* What each editor puts into its PATCH: a note what differs from the record the page
\* last fetched, an item every column and its categories when they differ.
NoteSends(form) == {f \in Fields : form[f] # listed[f]}
ItemSends(form) == {f \in Fields : f = "own" \/ form[f] # listed[f]}
TaskSends(form) == Fields
AlarmSends(form) == Fields
Sends(e) ==
    CASE e.kind = "note" -> NoteSends(e.form)
      [] e.kind = "item" -> ItemSends(e.form)
      [] e.kind = "task" -> TaskSends(e.form)
      [] e.kind = "alarm" -> AlarmSends(e.form)

\* useMutation: one save at a time.
Save ==
    /\ Open /\ saving = NotSaving
    /\ saving' = [pc |-> "asked", sent |-> Sends(editor), values |-> editor.form,
                  base |-> editor.base, edited |-> editor.edited]
    /\ UNCHANGED <<record, listed, editor, fetch, others, clobbered, lostEdits>>

\* The PATCH at the server: a presented hash is compared, linked or not, under the
\* row locks (assertPresentedHash).
Patched(s) == [f \in Fields |-> IF f \in s.sent THEN s.values[f] ELSE record[f]]
ServeSave ==
    /\ saving.pc = "asked"
    /\ IF saving.base = record
       THEN /\ record' = Patched(saving)
            /\ clobbered' = (clobbered \/ \E f \in Fields \ saving.edited : record'[f] # record[f])
            /\ saving' = [NotSaving EXCEPT !.pc = "done"]
       ELSE saving' = [NotSaving EXCEPT !.pc = "refused"] /\ UNCHANGED <<record, clobbered>>
    /\ UNCHANGED <<listed, editor, fetch, others, lostEdits>>

\* A saved editor closes and its list is fetched again.
SaveDone ==
    /\ saving.pc = "done"
    /\ Rerun(NoEditor, FALSE)
    /\ saving' = NotSaving
    /\ UNCHANGED <<record, listed, others, clobbered, lostEdits>>

\* armPendingIfSyncConflict.
SaveRefused ==
    /\ saving.pc = "refused"
    /\ editor' = [editor EXCEPT !.notice = TRUE]
    /\ saving' = NotSaving
    /\ UNCHANGED <<record, listed, fetch, others, clobbered, lostEdits>>

\* The answer is lost: the editor shows the error and stays.
SaveFails ==
    /\ saving.pc # "none"
    /\ saving' = NotSaving
    /\ UNCHANGED <<record, listed, editor, fetch, others, clobbered, lostEdits>>

\* The status of a listed task or the switch of a listed alarm: a PATCH of its own,
\* with the hash of the list.  The list is fetched again whatever came of it.
QuickPatch ==
    /\ ~Open
    /\ record' = IF listed = record THEN [record EXCEPT !["own"] = 1 - @] ELSE record
    /\ Rerun(editor, FALSE)
    /\ UNCHANGED <<listed, saving, others, clobbered, lostEdits>>

\* Another page, or the sync service, writes the record.
OthersWrite(f) ==
    /\ others < MaxOthers
    /\ record' = [record EXCEPT ![f] = 1 - @]
    /\ others' = others + 1
    /\ UNCHANGED <<listed, editor, fetch, saving, clobbered, lostEdits>>

EditorNext ==
    \/ (\E kind \in EditorKinds : OpenEditor(kind)) \/ CloseEditor
    \/ (\E f \in Fields : Type(f)) \/ ReloadDraft \/ DataChanged
    \/ ServeFetch \/ FetchArrives \/ FetchFails
    \/ Save \/ ServeSave \/ SaveDone \/ SaveRefused \/ SaveFails
    \/ QuickPatch \/ (\E f \in Fields : OthersWrite(f))

EditorSpec == EditorInit /\ [][EditorNext]_editorVars

\* An accepted save changes only fields the user edited in the draft it was made from,
\* whatever was fetched, reloaded or written elsewhere since the editor opened
\* (useCoherentDraft, "Apply a fetched record and its hash together").
SavesOnlyEdits == ~clobbered

\* A fetched record takes the place of an edited draft only when the user asked for the
\* reload after the last edit: neither a refetch nor the late answer of a reload asked for
\* before does ("Dirty editors keep their draft").  Edits that go with the editor, when it
\* is cancelled or when a save closes it, are no matter of this property.
DraftKept == ~lostEdits

\* Both, of what an open editor sends and of what an open editor takes in: a save writes only
\* fields edited in its draft, and no fetched record displaces edits without being asked to.
DraftsHonoured == SavesOnlyEdits /\ DraftKept
=============================================================================
