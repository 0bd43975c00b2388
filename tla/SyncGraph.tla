------------------------------ MODULE SyncGraph ------------------------------
(***************************************************************************)
(* Continuous sync of records that refer to each other: items, categories  *)
(* with a name of their own, and the links between them (notes, tags and   *)
(* note_tags are the same shape).  SyncProtocol decides key by key; here   *)
(* the decisions are made to fit together (interpret), the outbound head   *)
(* is put together around open conflicts (publicationSnapshot) and a user  *)
(* settles conflicts (resolve).  A cycle is one step: what comes between   *)
(* its awaits is ContinuousSync.                                           *)
(*                                                                         *)
(* A key is the tuple of its primary key: <<item>>, <<category>> or        *)
(* <<item, category>>.                                                     *)
(***************************************************************************)
EXTENDS Integers, Sequences, FiniteSets

CONSTANTS
    Devices,        \* servers that share the head
    ItemIds, CategoryIds,
    Texts,          \* what an item says
    Names,          \* the names of categories
    Absent,         \* no row
    MaxGraphEdits   \* bound: edits by users

ItemKeys == {<<i>> : i \in ItemIds}
CategoryKeys == {<<c>> : c \in CategoryIds}
LinkKeys == ItemIds \X CategoryIds
GraphKeys == ItemKeys \cup CategoryKeys \cup LinkKeys

ASSUME GraphAssumption ==
    /\ IsFiniteSet(ItemIds) /\ IsFiniteSet(CategoryIds) /\ ItemIds \cap CategoryIds = {}
    /\ Texts # {} /\ Names # {} /\ MaxGraphEdits \in Nat

Body(text) == [body |-> text, score |-> 0 - 1]
LinkBody == Body("")

ASSUME RowsAssumption == \A text \in Texts \cup Names : Body(text) # Absent

P == INSTANCE SyncProtocol WITH
        Keys <- GraphKeys, Bodies <- Texts \cup Names \cup {""}, Scores <- {0 - 1}, None <- Absent,
        FocusKeys <- {}, ActiveBodies <- {}

VARIABLES
    store,      \* store[d]: the rows of device d
    known,      \* its sync_row_state
    dispute,    \* its open sync_conflicts, by key
    joined,     \* it has a baseline
    current,    \* the head it accepted last is still the head
    head,       \* the rows and tombstones of the cloud head
    given,      \* history: keys a user deleted or gave up in a choice
    graphEdits

graphVars == <<store, known, dispute, joined, current, head, given, graphEdits>>

-----------------------------------------------------------------------------
(* The tables: what a row refers to, and assertRecordGraph. *)
Parents(k) == IF Len(k) = 2 THEN {<<k[1]>>, <<k[2]>>} ELSE {}
RowsIn(rows) == {k \in GraphKeys : rows[k] # Absent}
Children(rows, p) == {k \in RowsIn(rows) : p \in Parents(k)}

WellFormed(rows) ==
    /\ \A k \in RowsIn(rows) : Parents(k) \subseteq RowsIn(rows)
    /\ \A a, b \in CategoryKeys \cap RowsIn(rows) : rows[a] = rows[b] => a = b

Over(changes, rows) == [k \in DOMAIN rows |-> IF k \in DOMAIN changes THEN changes[k] ELSE rows[k]]
Without(rows, gone) == [k \in DOMAIN rows |-> IF k \in gone THEN Absent ELSE rows[k]]

\* ON DELETE CASCADE of the links.
Cascade(rows, k) == {k} \cup Children(rows, k)

-----------------------------------------------------------------------------
(***************************************************************************)
(* interpret: a deletion waits for children that stay, a row for a name    *)
(* that is free and for parents that will be here.  Every round only turns *)
(* decisions into conflicts, so the order within a round does not matter.  *)
(***************************************************************************)
Retiring(acts) == {k \in GraphKeys : acts[k].type \in {"delete-local", "adopt-tombstone"}}
Of(acts, types) == {k \in GraphKeys : acts[k].type \in types}

ParentAvailable(acts, local, remote, p) ==
    \/ acts[p].type = "apply-remote"
    \/ /\ local[p] # Absent
       /\ acts[p].type \notin {"delete-local", "adopt-tombstone", "publish-tombstone", "conflict"}
    \/ local[p] = Absent /\ remote[p] # Absent /\ acts[p].type \in {"none", "unchanged"}

ChildBusy(acts, local, remote, p) ==
    \/ Children(local, p) \ Retiring(acts) # {}
    \/ Children(remote, p) \cap Of(acts, {"conflict"}) # {}

\* The local rows that hold the name of a remote row under another key.
SameName(acts, local, remote, k) ==
    {c \in CategoryKeys \ (Retiring(acts) \cup {k}) : local[c] # Absent /\ local[c] = remote[k]}
Collides(acts, local, remote, k) == k \in CategoryKeys /\ SameName(acts, local, remote, k) # {}

Conflicting(keys, reason) == [k \in keys |-> P!Conflict(reason)]
Busy(acts, local, remote) == {k \in Retiring(acts) : ChildBusy(acts, local, remote, k)}
Clashing(acts, local, remote) ==
    {k \in Of(acts, {"apply-remote"}) : Collides(acts, local, remote, k)}
Orphaned(acts, local, remote) ==
    {k \in Of(acts, {"apply-remote"}) : \E p \in Parents(k) : ~ParentAvailable(acts, local, remote, p)}

\* Mutant: only names and parents are looked at, not what a deletion leaves behind.
DeferRowsOnly(acts, local, remote) ==
    Over(Conflicting(Clashing(acts, local, remote), "natural-key"),
         Over(Conflicting(Orphaned(acts, local, remote), "parent-child"), acts))

Defer(acts, local, remote) ==
    Over(Conflicting(Clashing(acts, local, remote), "natural-key"),
         Over(Conflicting(Busy(acts, local, remote) \cup Orphaned(acts, local, remote), "parent-child"), acts))

\* Passes until one changes nothing; each changes a key for good, so they end.
Interpret(acts, local, remote) ==
    LET pass[n \in 0..Cardinality(GraphKeys)] ==
          IF n = 0 THEN acts ELSE Defer(pass[n - 1], local, remote)
        last == CHOOSE n \in DOMAIN pass : pass[n] = Defer(pass[n], local, remote)
    IN  pass[last]

(* A reviewed deletion that the user took back is published again. *)
Revived(acts, local, remote, revive) ==
    LET reviewed == Of(acts, {"delete-local"}) \cup (Of(acts, {"conflict"}) \ RowsIn(remote))
    IN  Over([k \in revive \cap RowsIn(local) \cap reviewed |-> P!Act("pending-local")], acts)

Interpreted(d) ==
    Interpret(P!Reconcile(joined[d], known[d].base, [k \in GraphKeys |-> P!NoScore], store[d],
                          head.rows, head.tombs, known[d].tombs),
              store[d], head.rows)
Decide(d) == Revived(Interpreted(d), store[d], head.rows, known[d].revive)

Valid(d) == ~P!InvalidHead(joined[d], known[d].base, head.rows, head.tombs)

(* previewApply, which is also what the transaction leaves. *)
Applied(acts, local) ==
    Without(Over([k \in Of(acts, {"apply-remote"}) |-> acts[k].row], local), Retiring(acts))

-----------------------------------------------------------------------------
(***************************************************************************)
(* heldLocalKeys and publicationSnapshot: conflicted keys keep the version *)
(* of the cloud, rows that depend on a disputed local row stay out, and    *)
(* rows whose parent is not published are dropped.                         *)
(***************************************************************************)
\* The key of the local row a conflict shows: another one when names collide.
LocalKey(acts, local, remote, k) ==
    IF acts[k].reason = "natural-key"
    THEN CHOOSE c \in CategoryKeys : c # k /\ local[c] # Absent /\ local[c] = remote[k] ELSE k

DisputedRows(acts, before, remote) ==
    {LocalKey(acts, before, remote, k) : k \in Of(acts, {"conflict"})}

HeldLocalKeys(acts, before, local, remote) ==
    LET disputed == DisputedRows(acts, before, remote) \cap RowsIn(before)
    IN  (disputed \cup UNION {Children(local, p) : p \in disputed}) \ Of(acts, {"conflict"})

Chosen(acts, before, local, remote) ==
    LET out == Of(acts, {"publish-tombstone", "adopt-tombstone"})
               \cup HeldLocalKeys(acts, before, local, remote)
    IN  Without(Over([k \in Of(acts, {"pending-local"}) |-> local[k]], remote), out)

Stripped(rows) == {k \in RowsIn(rows) : ~(Parents(k) \subseteq RowsIn(rows))}

Publication(acts, before, local, tombs, remote, revive) ==
    LET chosen == Chosen(acts, before, local, remote)
        stripped == Stripped(chosen)
        rows == Without(chosen, stripped)
        dropped == Of(acts, {"publish-tombstone", "adopt-tombstone"})
        absent == {k \in RowsIn(remote) \ RowsIn(rows) : k \notin Of(acts, {"conflict"})}
    IN  [rows |-> rows,
         tombs |-> ((tombs \cup dropped \cup stripped \cup absent) \ RowsIn(rows)) \ revive]

-----------------------------------------------------------------------------
(* The cycle.  Recorded: writeAcceptedHead, and anchor of a first merge. *)
Recorded(state, document, skip) ==
    [state EXCEPT
        !.base = Over([k \in (RowsIn(document.rows) \cup document.tombs) \ skip |-> document.rows[k]], @),
        !.tombs = (@ \cup (document.tombs \ skip)) \ (RowsIn(document.rows) \ skip)]

Image(d, acts, k) ==
    LET l == LocalKey(acts, store[d], head.rows, k)
    IN  [reason |-> acts[k].reason, key |-> l, local |-> store[d][l], remote |-> head.rows[k]]
Remembered(d, acts) == Over([k \in Of(acts, {"conflict"}) |-> Image(d, acts, k)], dispute[d])

Inbound(acts) == Of(acts, {"apply-remote", "delete-local", "adopt-tombstone"})
Outbound(acts) == Of(acts, {"pending-local", "publish-tombstone"}) # {}

Cycle(d) ==
    LET acts == Decide(d)
        skip == Of(acts, {"conflict"})
        local == Applied(acts, store[d])
        \* acceptInboundHead returns early on the head that was accepted before.
        inbound == IF joined[d] /\ current[d] /\ Inbound(acts) = {} THEN known[d]
                   ELSE Recorded(known[d], head, skip)
        next == Publication(acts, store[d], local, head.tombs, head.rows, known[d].revive)
        publishes == joined[d] /\ Outbound(acts) /\ WellFormed(next.rows)
    IN  /\ Valid(d) /\ WellFormed(local)
        /\ store' = [store EXCEPT ![d] = local]
        /\ dispute' = [dispute EXCEPT ![d] = Remembered(d, acts)]
        /\ joined' = [joined EXCEPT ![d] = TRUE]
        /\ head' = IF publishes THEN next ELSE head
        /\ current' = IF publishes /\ next # head THEN [e \in Devices |-> e = d]
                      ELSE [current EXCEPT ![d] = TRUE]
        /\ known' = [known EXCEPT ![d] =
              IF publishes THEN [Recorded(inbound, next, skip) EXCEPT !.revive = @ \cap skip] ELSE inbound]
        /\ UNCHANGED <<given, graphEdits>>

-----------------------------------------------------------------------------
(* Users edit through the apps, which keep their own tables well formed. *)
UserWrites(d, rows, gone) ==
    /\ graphEdits < MaxGraphEdits /\ WellFormed(rows) /\ rows # store[d]
    /\ store' = [store EXCEPT ![d] = rows]
    /\ given' = given \cup gone
    /\ graphEdits' = graphEdits + 1
    /\ UNCHANGED <<known, dispute, joined, current, head>>

Write(d, k) ==
    \E text \in (IF k \in ItemKeys THEN Texts ELSE IF k \in CategoryKeys THEN Names ELSE {""}) :
        UserWrites(d, [store[d] EXCEPT ![k] = Body(text)], {})

Delete(d, k) ==
    store[d][k] # Absent
    /\ UserWrites(d, Without(store[d], Cascade(store[d], k)), Cascade(store[d], k))

-----------------------------------------------------------------------------
(***************************************************************************)
(* resolve.  The choice counts while the local row is the one that was     *)
(* shown and the cloud still holds the version that was shown.             *)
(***************************************************************************)
MayResolve(d, k) ==
    LET c == dispute[d][k]
        shown == IF store[d][k] # Absent THEN k ELSE c.key
    IN  /\ c # Absent
        /\ store[d][shown] = c.local /\ (c.local # Absent => shown = c.key)
        /\ current[d] \/ head.rows[k] = c.remote

Close(d, keys) == dispute' = [dispute EXCEPT ![d] = Without(@, keys)]

(* captureRetarget: the links on the losing category and the deferred links on either. *)
LinksOn(d, c) == {k \in LinkKeys : k[2] = c /\ store[d][k] # Absent}
Deferred(d, from, to) ==
    {k \in LinkKeys : /\ k[2] \in {from, to} /\ dispute[d][k] # Absent
                      /\ dispute[d][k].reason = "parent-child" /\ dispute[d][k].remote # Absent}

(* deleteCapturedLinks and restoreCapturedLinks, the losing and winning rows in rows. *)
Moved(d, rows, from, to) ==
    LET moves == LinksOn(d, from) \cup Deferred(d, from, to)
        kept == {<<m[1], to>> : m \in moves}
    IN  Over([k \in {l \in kept : Parents(l) \subseteq RowsIn(rows)} |-> LinkBody], Without(rows, moves))

TombedLinks(d, from, to) == {k \in Deferred(d, from, to) : k[2] = from}

\* The old keys of deferred links are deletions of the version that was shown.
SettledAs(state, keys, base) ==
    [state EXCEPT !.base = Over([k \in keys |-> base[k]], @), !.tombs = @ \cup keys, !.revive = @ \ keys]

KeepRemote(d, k) ==
    LET c == dispute[d][k]
        other == c.local # Absent /\ c.key # k
        from == c.key[1]
        rows == [Without(store[d], IF other THEN Cascade(store[d], c.key) ELSE {}) EXCEPT ![k] = c.remote]
    IN  /\ MayResolve(d, k) /\ c.remote # Absent
        \* The foreign keys and the unique name: otherwise the transaction rolls back.
        /\ WellFormed(rows)
        /\ store' = [store EXCEPT ![d] = IF other THEN Moved(d, rows, from, k[1]) ELSE rows]
        /\ known' = [known EXCEPT ![d] =
              IF other THEN SettledAs(@, TombedLinks(d, from, k[1]), head.rows) ELSE @]
        /\ Close(d, {k} \cup IF other THEN Deferred(d, from, k[1]) ELSE {})
        /\ given' = given \cup IF other THEN Cascade(store[d], c.key) \cup TombedLinks(d, from, k[1]) ELSE {}
        /\ UNCHANGED <<joined, current, head, graphEdits>>

KeepDeletion(d, k) ==
    /\ MayResolve(d, k) /\ dispute[d][k].remote = Absent
    /\ store' = [store EXCEPT ![d] = Without(@, Cascade(@, k))]
    /\ known' = [known EXCEPT ![d] = SettledAs(@, {k}, [h \in GraphKeys |-> Absent])]
    /\ Close(d, {k})
    /\ given' = given \cup Cascade(store[d], k)
    /\ UNCHANGED <<joined, current, head, graphEdits>>

Revive(d, k) ==
    /\ MayResolve(d, k) /\ dispute[d][k].remote = Absent
    /\ known' = [known EXCEPT ![d] = [@ EXCEPT !.base[k] = Absent, !.tombs = @ \ {k}, !.revive = @ \cup {k}]]
    /\ Close(d, {k})
    /\ UNCHANGED <<store, joined, current, head, given, graphEdits>>

KeepLocal(d, k) ==
    LET c == dispute[d][k]
        other == c.local # Absent /\ c.key # k
        to == c.key[1]
    IN  /\ MayResolve(d, k) /\ c.remote # Absent
        /\ store' = [store EXCEPT ![d] = IF other THEN Moved(d, @, k[1], to) ELSE @]
        /\ known' = [known EXCEPT ![d] =
              IF other THEN SettledAs(@, {k} \cup TombedLinks(d, k[1], to),
                                    [head.rows EXCEPT ![k] = c.remote])
              ELSE [@ EXCEPT !.base[k] = c.remote, !.tombs = @ \ {k}, !.revive = @ \ {k}]]
        /\ Close(d, {k} \cup IF other THEN Deferred(d, k[1], to) ELSE {})
        /\ given' = given \cup
              IF other THEN {k} \cup LinksOn(d, k[1]) \cup TombedLinks(d, k[1], to)
              ELSE IF c.local = Absent THEN {k} ELSE {}
        /\ UNCHANGED <<joined, current, head, graphEdits>>

-----------------------------------------------------------------------------
(* A first device has published its rows, if any; another has joined, or is about to. *)
NoRows == [k \in GraphKeys |-> Absent]
Knows(rows) == [base |-> rows, tombs |-> {}, revive |-> {}]
LinkedRows(i, c) == [NoRows EXCEPT ![<<i>>] = Body(CHOOSE t \in Texts : TRUE),
                                   ![<<c>>] = Body(CHOOSE n \in Names : TRUE), ![<<i, c>>] = LinkBody]

GraphInit ==
    /\ \E rows \in {NoRows} \cup {LinkedRows(i, c) : i \in ItemIds, c \in CategoryIds} :
          head = [rows |-> rows, tombs |-> {}]
    /\ joined \in {[d \in Devices |-> TRUE]} \cup {[d \in Devices |-> d = first] : first \in Devices}
    /\ current = joined
    /\ store = [d \in Devices |-> IF joined[d] THEN head.rows ELSE NoRows]
    /\ known = [d \in Devices |-> Knows(store[d])]
    /\ dispute = [d \in Devices |-> NoRows]
    /\ given = {} /\ graphEdits = 0

DeviceStep(d) ==
    \/ Cycle(d)
    \/ \E k \in GraphKeys :
          Write(d, k) \/ Delete(d, k) \/ KeepRemote(d, k) \/ KeepDeletion(d, k) \/ Revive(d, k) \/ KeepLocal(d, k)

GraphNext == \E d \in Devices : DeviceStep(d)
GraphSpec == GraphInit /\ [][GraphNext]_graphVars

-----------------------------------------------------------------------------
\* The mark of a deletion taken back stays when the row comes back from the cloud,
\* and is found there when somebody deletes the row again.
MarkedAgain(d) == \E k \in known[d].revive : Interpreted(d)[k].type = "delete-local"

(* What interpret leaves never fails assertRecordGraph: a cycle that may read its head  *)
(* can apply it (applyInbound would answer 422, and so would every later cycle).        *)
(* Excepted is a mark that outlived its review, which takes back a deletion that        *)
(* interpret counted on.                                                                *)
Appliable ==
    \A d \in Devices : Valid(d) /\ ~MarkedAgain(d) => WellFormed(Applied(Decide(d), store[d]))

(* A key is published as deleted only after a user deleted it or gave it up: conflicts  *)
(* and the rows that depend on them only stay out of the outbound head.                 *)
OnlyUsersDelete == head.tombs \subseteq given
=============================================================================
