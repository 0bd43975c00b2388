--------------------------- MODULE ContinuousSync ---------------------------
(***************************************************************************)
(* Continuous WebDAV sync of one cloud identity: class ContinuousSync of   *)
(* sync-service.ts, running on several servers (replicas) that share one   *)
(* mutable head object in a WebDAV collection.                             *)
(*                                                                         *)
(* A replica is one account on one server with its own PostgreSQL.  A      *)
(* worker is one request to that server (a cycle or a resolve) and is      *)
(* split at every await where another request, another replica, a crash    *)
(* or the expiry of the lease can come between.                            *)
(***************************************************************************)
EXTENDS SyncProtocol, Sequences

CONSTANTS
    Replicas,      \* accounts bound to the identity, one per server
    Workers,       \* concurrent requests
    Home,          \* Home[w]: the replica worker w runs on
    Faults,        \* the kinds of fault a run may meet
    MaxAttempts,   \* MAX_ATTEMPTS, retries of one journaled operation
    MaxPasses,     \* lost compare-and-swaps in one cycle
    MaxEdits,      \* bound: edits and deletions by users
    MaxOps,        \* bound: publications built
    MaxFaults      \* bound: faults met

FaultKinds == {"network", "lost-request", "lost-ack", "lost-commit", "crash", "stall",
               "pause", "unlink", "rollback", "cloud-loss"}

ASSUME HomeAssumption == Home \in [Workers -> Replicas]
ASSUME FaultsAssumption == Faults \subseteq FaultKinds
ASSUME BoundsAssumption == /\ MaxAttempts \in Nat \ {0} /\ MaxPasses \in Nat \ {0}
                           /\ MaxEdits \in Nat /\ MaxOps \in Nat /\ MaxFaults \in Nat

\* Rows without a high score: raising a score is covered by SyncProtocol alone.
ASSUME ScorelessAssumption == Scores = {NoScore}

VARIABLES
    heads,     \* every head the collection ever stored, in order; its ETag is the index
    cur,       \* ETag of the stored head, 0 when there is none
    rows,      \* rows[r]: the owned rows of replica r
    rowState,  \* core.sync_row_state of r: base hash, tombstoned, revive
    open,      \* open core.sync_conflicts of r, by key
    binding,   \* the core.sync_bindings row of r, its lease apart
    lease,     \* lease_token and whether lease_until is still ahead
    run,       \* what the request of a worker holds in memory
    edits, minted, spent

vars == <<heads, cur, rows, rowState, open, binding, lease, run, edits, minted, spent>>
cloud == <<heads, cur>>
bounds == <<edits, minted, spent>>

-----------------------------------------------------------------------------
(***************************************************************************)
(* Documents, bindings and requests.                                       *)
(***************************************************************************)
Table == [Keys -> MaybeRow]

\* A sync head with the objects it refers to.  by is not stored by the code:
\* it records which replica built the document.
Doc == [op : Nat, gen : Nat, parent : Nat \union {None}, rows : Table,
        tombs : SUBSET Keys, by : Replicas]
MaybeDoc == Doc \union {None}

ASSUME NoneAssumption ==
    None \notin Nat /\ None \notin Workers /\ None \notin Keys /\ None \notin Doc

ContentSet == [rows : Table, tombs : SUBSET Keys]
Capture == [rows : Table, tombs : SUBSET Keys]

Baseline == [content : ContentSet, gen : Nat \union {None}]

Pending == [doc : Doc, capture : Capture, applied : BOOLEAN,
            parent : MaybeDoc, parentEtag : Nat, attempts : Nat]
ASSUME JournalAssumption == None \notin Pending

Phases == {"unlinked", "probing", "bootstrap", "linked", "publication_unknown"}

Binding == [phase : Phases, enabled : BOOLEAN, origin : {"create", "join"},
            etag : Nat, head : MaybeDoc,
            baseline : Baseline \union {None}, pending : Pending \union {None}]

Unlinked == [phase |-> "unlinked", enabled |-> FALSE, origin |-> "create",
             etag |-> 0, head |-> None, baseline |-> None, pending |-> None]

RowState == [base : Table, tombs : SUBSET Keys, revive : SUBSET Keys]
NoRowState == [base |-> [k \in Keys |-> None], tombs |-> {}, revive |-> {}]

ConflictImages == [local : MaybeRow, remote : MaybeRow]

\* A live lease has a holder; one that ran out keeps it until somebody takes it.
FreeLease == [holder |-> None, live |-> FALSE]
Lease == [holder : Workers, live : BOOLEAN] \union {FreeLease}

Steps == {"idle", "fetch", "plan", "apply", "remember", "accept", "anchor", "build",
          "journal", "put", "confirm", "settle", "retry-put", "retry-confirm",
          "retry-commit", "finish", "resolve-lease", "resolve-fetch", "resolve-write"}

Reply == [doc : MaybeDoc, etag : Nat]
NoReply == [doc |-> None, etag |-> 0]

NoCapture == [rows |-> [k \in Keys |-> None], tombs |-> {}]
NoPlan == [k \in Keys |-> "none"]

Run == [pc : Steps,                          \* the await the request stands at
        seen : Binding,                      \* the binding read at the top of the loop
        remote : Reply,                      \* what the head GET answered
        cap : Capture,                       \* the last capture
        plan : [Keys -> ActionTypes],        \* the interpreted actions
        doc : MaybeDoc,                      \* the document being published
        skip : SUBSET Keys,                  \* conflict keys the baseline leaves alone
        sent : BOOLEAN,                      \* headAttempted
        passes : 0..MaxPasses,               \* casPasses
        key : Keys \union {None},            \* resolve: the conflict
        choice : {"keep-local", "keep-remote"},
        images : ConflictImages \union {None}]

IdleRun == [pc |-> "idle", seen |-> Unlinked, remote |-> NoReply, cap |-> NoCapture,
            plan |-> NoPlan, doc |-> None, skip |-> {}, sent |-> FALSE, passes |-> 0,
            key |-> None, choice |-> "keep-local", images |-> None]

TypeOK ==
    /\ heads \in Seq(Doc)
    /\ cur \in Nat /\ cur <= Len(heads)
    /\ rows \in [Replicas -> Table]
    /\ rowState \in [Replicas -> RowState]
    /\ open \in [Replicas -> [Keys -> ConflictImages \union {None}]]
    /\ binding \in [Replicas -> Binding]
    /\ lease \in [Replicas -> Lease]
    /\ run \in [Workers -> Run]
    /\ edits \in Nat /\ minted \in Nat /\ spent \in Nat

Init ==
    /\ heads = <<>>
    /\ cur = 0
    /\ rows = [r \in Replicas |-> [k \in Keys |-> None]]
    /\ rowState = [r \in Replicas |-> NoRowState]
    /\ open = [r \in Replicas |-> [k \in Keys |-> None]]
    /\ binding = [r \in Replicas |-> Unlinked]
    /\ lease = [r \in Replicas |-> FreeLease]
    /\ run = [w \in Workers |-> IdleRun]
    /\ edits = 0 /\ minted = 0 /\ spent = 0

-----------------------------------------------------------------------------
(***************************************************************************)
(* Helpers.                                                                *)
(***************************************************************************)
Local(r) == [rows |-> rows[r], tombs |-> rowState[r].tombs]

\* sessions_one_active_idx, the unique index of the focus app.
OneActive(table) == Cardinality({k \in FocusKeys : IsActive(table[k])}) <= 1

Linked(r) == binding[r].phase \notin {"unlinked", "probing"}

At(w, pc) == run[w].pc = pc

Holds(w) == lease[Home[w]].holder = w

\* gate: enabled, own lease token, lease not expired.
Gate(w) == Holds(w) /\ lease[Home[w]].live /\ binding[Home[w]].enabled

\* Mutant: the transaction forgets to compare the token.
GuardedByEnabled(w) == binding[Home[w]].enabled

\* The anchoring transactions test the token and enabled under FOR UPDATE.
Guarded(w) == Holds(w) /\ binding[Home[w]].enabled

Fault(kind) == kind \in Faults /\ spent < MaxFaults /\ spent' = spent + 1

Goto(w, pc) == run' = [run EXCEPT ![w].pc = pc]

\* Mutant: the token is cleared, lease_until stays.
ReleasedUnexpired(w) == IF Holds(w) THEN [lease EXCEPT ![Home[w]].holder = None] ELSE lease

Released(w) == IF Holds(w) THEN [lease EXCEPT ![Home[w]] = FreeLease] ELSE lease

\* The finally block: the request is over and gives back its own lease.
End(w) == /\ run' = [run EXCEPT ![w] = IdleRun]
          /\ lease' = Released(w)

\* noteFailure: after the head was attempted the phase says so.
Noted(w) == IF run[w].sent /\ binding[Home[w]].phase # "unlinked"
            THEN [binding EXCEPT ![Home[w]].phase = "publication_unknown"]
            ELSE binding

Fail(w) == End(w) /\ binding' = Noted(w)

\* Mutant: the stored document stands for every answer.
HeadReplyCached(b) ==
    IF cur = 0 THEN NoReply ELSE [doc |-> IF b.head # None THEN b.head ELSE heads[cur], etag |-> cur]

\* The conditional GET: 304 answers with the stored head document.
HeadReply(b) ==
    IF cur = 0 THEN NoReply
    ELSE [doc |-> IF b.etag = cur THEN b.head ELSE heads[cur], etag |-> cur]

\* Mutant: only the baseline counts.
MarksOfBaseline(b) ==
    {m \in {[gen |-> IF b.baseline = None THEN None ELSE b.baseline.gen,
             content |-> IF b.baseline = None THEN None ELSE b.baseline.content]} :
        m.gen # None}

\* acceptedHeadRegressed.
Marks(b) ==
    {m \in {[gen |-> IF b.baseline = None THEN None ELSE b.baseline.gen,
             content |-> IF b.baseline = None THEN None ELSE b.baseline.content],
            [gen |-> IF b.head = None THEN None ELSE b.head.gen,
             content |-> IF b.head = None THEN None ELSE Content(b.head)]} :
        m.gen # None}

Regressed(b, document) ==
    \/ \E m \in Marks(b) : document.gen < m.gen
    \/ /\ \E m \in Marks(b) : document.gen = m.gen
       /\ \A m \in Marks(b) : document.gen = m.gen => Content(document) # m.content

RefusedReply(b, reply) ==
    \/ reply.doc = None /\ (reply.etag # 0 \/ b.origin = "join" \/ b.baseline # None)
    \/ reply.doc # None /\ Regressed(b, reply.doc)

KeysOf(plan, types) == {k \in Keys : plan[k] \in types}

Inbound == {"apply-remote", "delete-local", "adopt-tombstone", "raise-high-score"}
Outbound == {"pending-local", "publish-tombstone", "raise-high-score"}

\* sync_row_state after the rows and tombstones of a document are recorded.
Recorded(state, document, skip) ==
    [state EXCEPT
        !.base = [k \in Keys |->
            IF k \in skip THEN state.base[k]
            ELSE IF document.rows[k] # None THEN document.rows[k]
            ELSE IF k \in document.tombs THEN None ELSE state.base[k]],
        !.tombs = {k \in Keys :
            IF k \notin skip /\ document.rows[k] # None THEN FALSE
            ELSE k \in state.tombs \/ (k \notin skip /\ k \in document.tombs)}]

\* writeAcceptedHead: an established baseline moves with the head, an unset one
\* stays unset; neither generation may go back.
Accepted(b, reply) ==
    [b EXCEPT !.etag = reply.etag, !.head = reply.doc,
              !.baseline = IF @ = None THEN None
                           ELSE [content |-> Content(reply.doc), gen |-> reply.doc.gen]]

MayAccept(b, document) == \A m \in Marks(b) : m.gen <= document.gen

\* anchorPublished and commitBaseline clear the journal.
Anchored(b, content, gen) ==
    [b EXCEPT !.baseline = [content |-> content, gen |-> gen],
              !.phase = "linked", !.pending = None]

-----------------------------------------------------------------------------
(***************************************************************************)
(* Users: edits of rows, the write fence having let them through, and the  *)
(* settings of the link.  configure and unlink are refused while the lease *)
(* is live.                                                                *)
(***************************************************************************)
UserWrites(r, k, row) ==
    /\ edits < MaxEdits
    /\ rows[r][k] # row
    /\ OneActive([rows[r] EXCEPT ![k] = row])
    /\ rows' = [rows EXCEPT ![r][k] = row]
    /\ edits' = edits + 1
    /\ UNCHANGED <<cloud, rowState, open, binding, lease, run, minted, spent>>

Edit(r, k) == \E row \in Row : UserWrites(r, k, row)

Remove(r, k) == rows[r][k] # None /\ UserWrites(r, k, None)

\* create makes a fresh identity, so there is no head and no other member yet;
\* join needs the head.  clearProbe drops an unfinished probe first.
LinkBegin(r, origin) ==
    /\ binding[r].phase \in {"unlinked", "probing"}
    /\ origin = "create" => heads = <<>> /\ \A q \in Replicas \ {r} : binding[q] = Unlinked
    /\ binding' = [binding EXCEPT ![r] =
                      [Unlinked EXCEPT !.phase = "probing", !.origin = origin]]
    /\ UNCHANGED <<cloud, rows, rowState, open, lease, run, bounds>>

LinkDone(r) ==
    /\ binding[r].phase = "probing"
    /\ binding[r].origin = "join" <=> cur # 0
    /\ binding' = [binding EXCEPT ![r].phase = "bootstrap"]
    /\ UNCHANGED <<cloud, rows, rowState, open, lease, run, bounds>>

LinkAbort(r) ==
    /\ binding[r].phase = "probing"
    /\ binding' = [binding EXCEPT ![r] = Unlinked]
    /\ UNCHANGED <<cloud, rows, rowState, open, lease, run, bounds>>

Enable(r) ==
    /\ Linked(r) /\ ~lease[r].live /\ ~binding[r].enabled
    /\ binding' = [binding EXCEPT ![r].enabled = TRUE]
    /\ UNCHANGED <<cloud, rows, rowState, open, lease, run, bounds>>

Pause(r) ==
    /\ Linked(r) /\ ~lease[r].live /\ binding[r].enabled
    /\ Fault("pause")
    /\ binding' = [binding EXCEPT ![r].enabled = FALSE]
    /\ UNCHANGED <<cloud, rows, rowState, open, lease, run, edits, minted>>

Unlink(r) ==
    /\ binding[r].phase # "unlinked" /\ ~lease[r].live
    /\ Fault("unlink")
    /\ binding' = [binding EXCEPT ![r] = Unlinked]
    /\ lease' = [lease EXCEPT ![r] = FreeLease]
    /\ rowState' = [rowState EXCEPT ![r] = NoRowState]
    /\ open' = [open EXCEPT ![r] = [k \in Keys |-> None]]
    /\ UNCHANGED <<cloud, rows, run, edits, minted>>

-----------------------------------------------------------------------------
(***************************************************************************)
(* A cycle: take the lease, read the head, decide.                         *)
(***************************************************************************)
LeaseFree(r) == lease[r].holder = None \/ ~lease[r].live

StartCycle(w) ==
    /\ At(w, "idle")
    /\ Linked(Home[w]) /\ binding[Home[w]].enabled /\ LeaseFree(Home[w])
    /\ lease' = [lease EXCEPT ![Home[w]] = [holder |-> w, live |-> TRUE]]
    /\ Goto(w, "fetch")
    /\ UNCHANGED <<cloud, rows, rowState, open, binding, bounds>>

FetchHead(w) ==
    LET r == Home[w]
        reply == HeadReply(binding[r])
    IN  /\ At(w, "fetch")
        /\ IF Gate(w) /\ ~RefusedReply(binding[r], reply)
           THEN /\ run' = [run EXCEPT ![w] = [@ EXCEPT !.pc = "plan", !.remote = reply,
                                                       !.seen = binding[r]]]
                /\ UNCHANGED <<binding, lease>>
           ELSE Fail(w)
        /\ UNCHANGED <<cloud, rows, rowState, open, bounds>>

\* decideRecovery on the journal of the binding read at the top of the loop.
Recovery(b, reply, capture) ==
    CASE b.pending = None -> "none"
      [] b.pending # None /\ SameHead(reply.doc, b.pending.doc)
            /\ capture = b.pending.capture -> "commit-remote"
      [] OTHER -> RecoverPublication(b.pending, reply.doc, reply.etag, capture)

Retriable(b) == b.pending.attempts < MaxAttempts /\ b.pending.parentEtag # 0

\* The journaled operation is the head and the rows it captured are still here.
PlanRecommit(w) ==
    LET r == Home[w]
    IN  /\ At(w, "plan")
        /\ Recovery(run[w].seen, run[w].remote, Local(r)) = "commit-remote"
        /\ run' = [run EXCEPT ![w] = [@ EXCEPT !.pc = "settle",
                                               !.skip = {k \in Keys : open[r][k] # None}]]
        /\ UNCHANGED <<cloud, rows, rowState, open, binding, lease, bounds>>

PlanRetry(w) ==
    /\ At(w, "plan")
    /\ Recovery(run[w].seen, run[w].remote, Local(Home[w])) = "retry-same"
    /\ Retriable(run[w].seen)
    /\ run' = [run EXCEPT ![w] = [@ EXCEPT !.pc = "retry-put", !.sent = TRUE]]
    /\ UNCHANGED <<cloud, rows, rowState, open, binding, lease, bounds>>

\* Mutant: only deletions are published.
OnwardDeletions(x) ==
    IF x.remote.doc = None \/ KeysOf(x.plan, {"publish-tombstone"}) # {} THEN "build" ELSE "finish"

\* Where the cycle goes once its inbound rows are in.
Onward(x) ==
    IF x.remote.doc = None \/ KeysOf(x.plan, Outbound) # {} THEN "build" ELSE "finish"

FirstRemote(x) == x.seen.baseline = None /\ x.remote.doc # None

AfterRemember(x) ==
    CASE FirstRemote(x) -> "anchor"
      [] ~FirstRemote(x) /\ (KeysOf(x.plan, Inbound) # {} \/ x.remote.doc = None) -> Onward(x)
      [] OTHER -> "accept"

AfterApply(x) == IF x.skip # {} THEN "remember" ELSE AfterRemember(x)

AfterPlan(x) == IF KeysOf(x.plan, Inbound) # {} THEN "apply" ELSE AfterApply(x)

\* What the plan reconstructs of the fetched head.
Remote(x) == IF x.remote.doc = None THEN NoCapture ELSE Content(x.remote.doc)

\* reconcile, then the rewrite of reviewed deletions that keep-local revives.
Merged(r, x) ==
    LET remote == Remote(x)
        state == rowState[r]
        actions == Reconcile(x.seen.baseline # None, state.base, [k \in Keys |-> NoScore],
                             rows[r], remote.rows, remote.tombs, state.tombs)
        Reviewed(k) == \/ actions[k].type = "delete-local"
                       \/ actions[k].type = "conflict" /\ remote.rows[k] = None
    IN  [k \in Keys |-> IF k \in state.revive /\ rows[r][k] # None /\ Reviewed(k)
                        THEN "pending-local" ELSE actions[k].type]

PlanMerge(w) ==
    LET r == Home[w]
        x == run[w]
        remote == Remote(x)
        decision == Recovery(x.seen, x.remote, Local(r))
        plan == Merged(r, x)
        next == [x EXCEPT !.cap = Local(r), !.plan = plan,
                          !.skip = KeysOf(plan, {"conflict"})]
    IN  /\ At(w, "plan")
        /\ decision # "commit-remote"
        /\ decision = "retry-same" => ~Retriable(x.seen)
        /\ IF InvalidHead(x.seen.baseline # None, rowState[r].base, remote.rows, remote.tombs)
           THEN Fail(w)
           ELSE /\ run' = [run EXCEPT ![w] = [next EXCEPT !.pc = AfterPlan(next)]]
                /\ UNCHANGED <<binding, lease>>
        /\ UNCHANGED <<cloud, rows, rowState, open, bounds>>

-----------------------------------------------------------------------------
(***************************************************************************)
(* Inbound: one transaction applies the rows and accepts the head.         *)
(***************************************************************************)
AppliedRows(x, table) ==
    [k \in Keys |-> CASE x.plan[k] = "apply-remote" -> x.remote.doc.rows[k]
                      [] x.plan[k] \in {"delete-local", "adopt-tombstone"} -> None
                      [] OTHER -> table[k]]

\* Mutant: the rows of now are not compared with the capture.
MayApplyBlind(w) ==
    /\ OneActive(AppliedRows(run[w], rows[Home[w]]))
    /\ Guarded(w)
    /\ MayAccept(binding[Home[w]], run[w].remote.doc)

\* Local drift, a lost lease, an older head or a second active focus session rolls
\* the transaction back.
MayApply(w) ==
    /\ Local(Home[w]) = run[w].cap
    /\ OneActive(AppliedRows(run[w], rows[Home[w]]))
    /\ Guarded(w)
    /\ MayAccept(binding[Home[w]], run[w].remote.doc)

Committed(w) ==
    LET r == Home[w]
        x == run[w]
    IN  /\ rows' = [rows EXCEPT ![r] = AppliedRows(x, @)]
        /\ rowState' = [rowState EXCEPT ![r] = Recorded(@, x.remote.doc, x.skip)]

Apply(w) ==
    LET r == Home[w]
        x == run[w]
    IN  /\ At(w, "apply")
        /\ IF MayApply(w)
           THEN /\ Committed(w)
                /\ binding' = [binding EXCEPT ![r] = Accepted(@, x.remote)]
                /\ Goto(w, AfterApply(x))
                /\ UNCHANGED lease
           ELSE Fail(w) /\ UNCHANGED <<rows, rowState>>
        /\ UNCHANGED <<cloud, open, bounds>>

\* The transaction commits and its acknowledgement is lost.
ApplyAckLost(w) ==
    LET r == Home[w]
    IN  /\ At(w, "apply") /\ MayApply(w) /\ Fault("lost-commit")
        /\ Committed(w)
        /\ binding' = [binding EXCEPT ![r] = [Accepted(@, run[w].remote) EXCEPT
                          !.phase = "publication_unknown"]]
        /\ End(w)
        /\ UNCHANGED <<cloud, open, edits, minted>>

\* rememberConflicts opens a conflict or replaces the images of the open one.
Remember(w) ==
    LET r == Home[w]
        x == run[w]
        Image(k) == [local |-> x.cap.rows[k],
                     remote |-> Remote(x).rows[k]]
    IN  /\ At(w, "remember")
        /\ open' = [open EXCEPT ![r] = [k \in Keys |-> IF k \in x.skip THEN Image(k) ELSE @[k]]]
        /\ Goto(w, AfterRemember(x))
        /\ UNCHANGED <<cloud, rows, rowState, binding, lease, bounds>>

\* acceptInboundHead: nothing to write when this head is already the accepted one.
SameAccepted(b, reply) ==
    LET mark == [content |-> Content(reply.doc), gen |-> reply.doc.gen]
    IN  /\ b.etag = reply.etag /\ b.head # None
        /\ Content(b.head) = mark.content /\ b.head.gen = mark.gen
        /\ b.baseline \in {None, mark}

Accept(w) ==
    LET r == Home[w]
        x == run[w]
    IN  /\ At(w, "accept")
        /\ CASE Holds(w) /\ SameAccepted(binding[r], x.remote) ->
                    Goto(w, Onward(x)) /\ UNCHANGED <<rowState, binding, lease>>
             [] Guarded(w) /\ ~SameAccepted(binding[r], x.remote)
                  /\ MayAccept(binding[r], x.remote.doc) ->
                    /\ rowState' = [rowState EXCEPT ![r] = Recorded(@, x.remote.doc, x.skip)]
                    /\ binding' = [binding EXCEPT ![r] = Accepted(@, x.remote)]
                    /\ Goto(w, Onward(x))
                    /\ UNCHANGED lease
             [] OTHER -> Fail(w) /\ UNCHANGED rowState
        /\ UNCHANGED <<cloud, rows, open, bounds>>

\* anchor: the first merge sets the baseline, and only the binding row is guarded
\* by the lease.
Anchor(w) ==
    LET r == Home[w]
        x == run[w]
        waiting == KeysOf(x.plan, {"pending-local", "conflict"})
        Linking(b) == [Anchored(b, Content(x.remote.doc), x.remote.doc.gen) EXCEPT
                         !.etag = x.remote.etag, !.head = x.remote.doc, !.pending = b.pending,
                         !.phase = IF waiting = {} THEN "linked" ELSE "bootstrap"]
    IN  /\ At(w, "anchor")
        /\ rowState' = [rowState EXCEPT ![r] = Recorded(@, x.remote.doc, waiting)]
        /\ binding' = IF Holds(w) THEN [binding EXCEPT ![r] = Linking(@)] ELSE binding
        /\ Goto(w, "finish")
        /\ UNCHANGED <<cloud, rows, open, lease, bounds>>

-----------------------------------------------------------------------------
(***************************************************************************)
(* Outbound: publicationSnapshot and buildSyncDocument, the journal, the   *)
(* compare-and-swap of the head, its confirmation, the new baseline.       *)
(***************************************************************************)
PublishedRows(x, local) ==
    [k \in Keys |->
        CASE x.plan[k] \in {"publish-tombstone", "adopt-tombstone"} -> None
          [] x.plan[k] \in {"pending-local", "raise-high-score"} -> local[k]
          [] x.remote.doc = None /\ x.plan[k] \in {"none", "unchanged"} -> local[k]
          [] OTHER -> Remote(x).rows[k]]

\* Deletions of the head and of this cycle; a key that simply vanished from the
\* chosen rows is a deletion too, unless it is in conflict.
PublishedTombs(x, published, revive) ==
    LET dropped == KeysOf(x.plan, {"publish-tombstone", "adopt-tombstone"})
        vanished == {k \in Keys \ x.skip : Remote(x).rows[k] # None}
    IN  {k \in (Remote(x).tombs \union dropped \union vanished) \ revive : published[k] = None}

Built(w) ==
    LET r == Home[w]
        x == run[w]
        known == IF x.seen.head = None THEN 0 ELSE x.seen.head.gen
        published == PublishedRows(x, rows[r])
    IN  [op |-> minted + 1,
         gen |-> 1 + IF x.remote.doc = None THEN known ELSE x.remote.doc.gen,
         parent |-> IF x.remote.doc = None THEN None ELSE x.remote.doc.op,
         rows |-> published,
         tombs |-> PublishedTombs(x, published, rowState[r].revive),
         by |-> r]

Build(w) ==
    /\ At(w, "build")
    /\ minted < MaxOps
    /\ minted' = minted + 1
    /\ run' = [run EXCEPT ![w] = [@ EXCEPT !.pc = "journal", !.doc = Built(w),
                                          !.cap = Local(Home[w])]]
    /\ UNCHANGED <<cloud, rows, rowState, open, binding, lease, edits, spent>>

\* A partial upload: the request budget is used up (or MaxOps is reached).
BuildStops(w) ==
    /\ At(w, "build")
    /\ minted = MaxOps
    /\ End(w)
    /\ UNCHANGED <<cloud, rows, rowState, open, binding, bounds>>

\* Mutant: the head is put without a journal.
JournalSkipped(w) ==
    /\ At(w, "journal")
    /\ run' = [run EXCEPT ![w] = [@ EXCEPT !.pc = "put", !.sent = TRUE]]
    /\ UNCHANGED <<cloud, rows, rowState, open, binding, lease, bounds>>

Journal(w) ==
    LET r == Home[w]
        x == run[w]
        entry == [doc |-> x.doc, capture |-> x.cap, applied |-> FALSE,
                  parent |-> x.remote.doc, parentEtag |-> x.remote.etag, attempts |-> 0]
    IN  /\ At(w, "journal")
        /\ IF Local(r) = x.cap
           THEN /\ binding' = IF Holds(w) THEN [binding EXCEPT ![r].pending = entry] ELSE binding
                /\ run' = [run EXCEPT ![w] = [@ EXCEPT !.pc = "put", !.sent = TRUE]]
                /\ UNCHANGED lease
           ELSE End(w) /\ UNCHANGED binding
        /\ UNCHANGED <<cloud, rows, rowState, open, bounds>>

\* The server replaces the head only when the etag still matches (or, without
\* one, when there is none).
Stored(document) == heads' = Append(heads, document) /\ cur' = Len(heads) + 1

\* Mutant: a PUT without If-Match.
PutHeadUnconditional(w) ==
    /\ At(w, "put") /\ Gate(w)
    /\ Stored(run[w].doc)
    /\ Goto(w, "confirm")
    /\ UNCHANGED <<rows, rowState, open, binding, lease, bounds>>

PutHead(w) ==
    /\ At(w, "put") /\ Gate(w) /\ run[w].remote.etag = cur
    /\ Stored(run[w].doc)
    /\ Goto(w, "confirm")
    /\ UNCHANGED <<rows, rowState, open, binding, lease, bounds>>

PutHeadAckLost(w) ==
    /\ At(w, "put") /\ Gate(w) /\ run[w].remote.etag = cur
    /\ Fault("lost-ack")
    /\ Stored(run[w].doc)
    /\ Fail(w)
    /\ UNCHANGED <<rows, rowState, open, edits, minted>>

\* 412: the journal is dropped and the cycle starts over, MaxPasses times.
PutHeadLost(w) ==
    LET r == Home[w]
        passes == run[w].passes + 1
    IN  /\ At(w, "put") /\ Gate(w) /\ run[w].remote.etag # cur
        /\ binding' = [binding EXCEPT ![r].pending = None]
        /\ IF passes < MaxPasses
           THEN /\ run' = [run EXCEPT ![w] = [IdleRun EXCEPT !.pc = "fetch", !.passes = passes]]
                /\ UNCHANGED lease
           ELSE End(w)
        /\ UNCHANGED <<cloud, rows, rowState, open, bounds>>

PutHeadStopped(w) ==
    /\ At(w, "put") /\ ~Gate(w)
    /\ Fail(w)
    /\ UNCHANGED <<cloud, rows, rowState, open, bounds>>

\* The confirming GET, then the binding is marked.  Another replica's head there
\* leaves the outcome to the recovery of a later cycle.
Confirm(w) ==
    LET r == Home[w]
        x == run[w]
        Marked(b) == [b EXCEPT !.etag = cur, !.head = x.doc,
                               !.pending = IF @ = None THEN None ELSE [@ EXCEPT !.applied = TRUE]]
    IN  /\ At(w, "confirm")
        /\ CASE Gate(w) /\ cur # 0 /\ heads[cur] = x.doc ->
                    /\ binding' = [binding EXCEPT ![r] = Marked(@)]
                    /\ run' = [run EXCEPT ![w] = [@ EXCEPT !.pc = "settle",
                                    !.remote = [doc |-> x.doc, etag |-> cur]]]
                    /\ UNCHANGED lease
             [] Gate(w) /\ cur # 0 /\ heads[cur] # x.doc -> End(w) /\ UNCHANGED binding
             [] OTHER -> Fail(w)
        /\ UNCHANGED <<cloud, rows, rowState, open, bounds>>

\* anchorPublished: the baseline moves to the published document.
Settled(state, document, skip) ==
    LET kept == {k \in Keys \ skip : document.rows[k] # None}
        deleted == {k \in document.tombs \ skip : document.rows[k] = None}
    IN  [base |-> [k \in Keys |-> CASE k \in kept -> document.rows[k]
                                    [] k \in deleted -> None
                                    [] OTHER -> state.base[k]],
         tombs |-> (state.tombs \ kept) \union deleted,
         revive |-> state.revive \intersect skip]

Settle(w) ==
    LET r == Home[w]
        x == run[w]
        document == x.remote.doc
    IN  /\ At(w, "settle")
        /\ IF Guarded(w)
           THEN /\ rowState' = [rowState EXCEPT ![r] = Settled(@, document, x.skip)]
                /\ binding' = [binding EXCEPT ![r] =
                      [Anchored(@, Content(document), document.gen) EXCEPT
                        !.etag = x.remote.etag, !.head = document]]
                /\ Goto(w, "finish")
                /\ UNCHANGED lease
           ELSE Fail(w) /\ UNCHANGED rowState
        /\ UNCHANGED <<cloud, rows, open, bounds>>

\* finish clears an unknown outcome that a completed cycle has settled.
Finish(w) ==
    LET r == Home[w]
        Cleared(b) == IF b.phase = "publication_unknown" /\ b.pending = None
                      THEN [b EXCEPT !.phase = IF b.baseline = None THEN "bootstrap" ELSE "linked"]
                      ELSE b
    IN  /\ At(w, "finish")
        /\ binding' = IF Holds(w) THEN [binding EXCEPT ![r] = Cleared(@)] ELSE binding
        /\ End(w)
        /\ UNCHANGED <<cloud, rows, rowState, open, bounds>>

-----------------------------------------------------------------------------
(***************************************************************************)
(* Recovery of a journaled head that is not known to be stored.  Its       *)
(* requests are not gated; the cycle deadline ends before the lease.       *)
(***************************************************************************)
InTime(w) == Holds(w) /\ lease[Home[w]].live

RetryPut(w) ==
    LET journal == run[w].seen.pending
    IN  /\ At(w, "retry-put") /\ InTime(w) /\ journal.parentEtag = cur
        /\ Stored(journal.doc)
        /\ Goto(w, "retry-confirm")
        /\ UNCHANGED <<rows, rowState, open, binding, lease, bounds>>

RetryPutAckLost(w) ==
    LET journal == run[w].seen.pending
    IN  /\ At(w, "retry-put") /\ InTime(w) /\ journal.parentEtag = cur
        /\ Fault("lost-ack")
        /\ Stored(journal.doc)
        /\ Fail(w)
        /\ UNCHANGED <<rows, rowState, open, edits, minted>>

\* A 412 here is an error of the cycle; past the deadline the cycle just stops.
RetryPutStopped(w) ==
    /\ At(w, "retry-put")
    /\ \/ InTime(w) /\ run[w].seen.pending.parentEtag # cur /\ Fail(w)
       \/ ~InTime(w) /\ End(w) /\ UNCHANGED binding
    /\ UNCHANGED <<cloud, rows, rowState, open, bounds>>
\* A confirmed retry marks the journal and the etag, not the head; the decision is
\* made again on the binding as it now is.
RetryConfirm(w) ==
    LET r == Home[w]
        x == run[w]
        document == x.seen.pending.doc
        Confirmed(b) == IF b.pending = None THEN [b EXCEPT !.etag = cur]
                        ELSE [b EXCEPT !.etag = cur, !.pending.applied = TRUE]
        Counted(b) == IF b.pending = None THEN b
                      ELSE [b EXCEPT !.pending.attempts = @ + 1]
        marked == IF Holds(w) THEN Confirmed(binding[r]) ELSE binding[r]
        reply == [doc |-> document, etag |-> cur]
    IN  /\ At(w, "retry-confirm") /\ InTime(w)
        /\ CASE cur # 0 /\ heads[cur] = document
                  /\ Recovery(marked, reply, Local(r)) = "commit-remote" ->
                    /\ binding' = [binding EXCEPT ![r] = marked]
                    /\ run' = [run EXCEPT ![w] = [@ EXCEPT !.pc = "retry-commit",
                                                          !.seen = marked]]
                    /\ UNCHANGED lease
             [] cur # 0 /\ heads[cur] = document
                  /\ Recovery(marked, reply, Local(r)) # "commit-remote" ->
                    binding' = [binding EXCEPT ![r] = Counted(marked)] /\ End(w)
             [] cur # 0 /\ heads[cur] # document ->
                    binding' = [binding EXCEPT ![r] = Counted(@)] /\ End(w)
             [] OTHER -> Fail(w)
        /\ UNCHANGED <<cloud, rows, rowState, open, bounds>>

RetryConfirmLate(w) ==
    /\ At(w, "retry-confirm") /\ ~InTime(w)
    /\ End(w)
    /\ UNCHANGED <<cloud, rows, rowState, open, binding, bounds>>

\* commitBaseline: the local rows of now become the base; only the binding row is
\* guarded by the lease.
Rebased(state, local, tombs, skip) ==
    LET deleted == (IF tombs = {} THEN state.tombs ELSE tombs) \ skip
        present == {k \in Keys \ skip : local[k] # None}
    IN  [base |-> [k \in Keys |-> CASE k \in deleted -> None
                                    [] k \in present \ deleted -> local[k]
                                    [] k \in skip \/ k \in state.tombs -> state.base[k]
                                    [] OTHER -> None],
         tombs |-> (state.tombs \ present) \union deleted,
         revive |-> state.revive \intersect (skip \union state.tombs)]

RetryCommit(w) ==
    LET r == Home[w]
        b == run[w].seen
        conflicts == {k \in Keys : open[r][k] # None}
        accepted == IF b.head = None THEN b.pending.doc ELSE b.head
        gen == IF b.head # None THEN b.head.gen
               ELSE IF b.baseline # None THEN b.baseline.gen ELSE None
    IN  /\ At(w, "retry-commit")
        /\ IF Local(r) = b.pending.capture
           THEN /\ rowState' = [rowState EXCEPT ![r] =
                      Rebased(@, rows[r], b.pending.doc.tombs, conflicts)]
                /\ binding' = IF Holds(w)
                      THEN [binding EXCEPT ![r] = Anchored(@, Content(accepted), gen)]
                      ELSE binding
                /\ Goto(w, "finish")
                /\ UNCHANGED lease
           ELSE Fail(w) /\ UNCHANGED rowState
        /\ UNCHANGED <<cloud, rows, open, bounds>>

-----------------------------------------------------------------------------
(***************************************************************************)
(* resolve: the user chooses a side of an open conflict.  The binding is   *)
(* read before the lease is taken, the conflict after.  Errors leave the   *)
(* phase alone.                                                            *)
(***************************************************************************)
StartResolve(w, k, choice) ==
    LET b == binding[Home[w]]
    IN  /\ At(w, "idle")
        /\ b.enabled /\ open[Home[w]][k] # None
        /\ run' = [run EXCEPT ![w] = [IdleRun EXCEPT !.pc = "resolve-lease", !.seen = b,
                                                      !.key = k, !.choice = choice]]
        /\ UNCHANGED <<cloud, rows, rowState, open, binding, lease, bounds>>

ResolveLease(w) ==
    LET r == Home[w]
        conflict == open[r][run[w].key]
    IN  /\ At(w, "resolve-lease")
        /\ IF binding[r].enabled /\ LeaseFree(r) /\ conflict # None
           THEN /\ lease' = [lease EXCEPT ![r] = [holder |-> w, live |-> TRUE]]
                /\ run' = [run EXCEPT ![w] = [@ EXCEPT !.pc = "resolve-fetch",
                                                      !.images = conflict]]
           ELSE run' = [run EXCEPT ![w] = IdleRun] /\ UNCHANGED lease
        /\ UNCHANGED <<cloud, rows, rowState, open, binding, bounds>>

\* The stored remote image is compared with the head only when the head is not the
\* one the binding read.
RemoteStale(x, reply) ==
    \/ reply.doc = None
    \/ /\ reply.etag # x.seen.etag \/ x.seen.head = None \/ Content(reply.doc) # Content(x.seen.head)
       /\ reply.doc.rows[x.key] # x.images.remote

ResolveFetch(w) ==
    LET x == run[w]
    IN  /\ At(w, "resolve-fetch")
        /\ IF Gate(w) /\ ~RemoteStale(x, HeadReply(x.seen))
           THEN Goto(w, "resolve-write") /\ UNCHANGED lease
           ELSE End(w)
        /\ UNCHANGED <<cloud, rows, rowState, open, binding, bounds>>

\* Mutant: keep-local records the local hash as the base.
ChosenOwn(state, k, choice, image) ==
    IF choice = "keep-remote" THEN state ELSE [state EXCEPT !.base[k] = image.local]

\* What the choice leaves in sync_row_state.
Chosen(state, k, choice, image) ==
    LET Row3(base, gone, revived) ==
            [base |-> [state.base EXCEPT ![k] = base],
             tombs |-> IF gone THEN state.tombs \union {k} ELSE state.tombs \ {k},
             revive |-> IF revived THEN state.revive \union {k} ELSE state.revive \ {k}]
    IN  CASE choice = "keep-remote" /\ image.remote # None -> state
          [] choice = "keep-remote" /\ image.remote = None -> Row3(None, TRUE, FALSE)
          [] choice = "keep-local" /\ image.remote = None -> Row3(None, FALSE, TRUE)
          [] OTHER -> Row3(image.remote, FALSE, FALSE)

MayResolve(w) ==
    LET x == run[w]
        r == Home[w]
        image == open[r][x.key]
    IN  /\ Guarded(w) /\ image # None /\ rows[r][x.key] = x.images.local
        /\ x.choice = "keep-remote" => OneActive([rows[r] EXCEPT ![x.key] = image.remote])

Resolved(w) ==
    LET r == Home[w]
        x == run[w]
        image == open[r][x.key]
    IN  /\ rows' = IF x.choice = "keep-remote"
                   THEN [rows EXCEPT ![r][x.key] = image.remote] ELSE rows
        /\ rowState' = [rowState EXCEPT ![r] = Chosen(@, x.key, x.choice, image)]
        /\ open' = [open EXCEPT ![r][x.key] = None]

ResolveWrite(w) ==
    /\ At(w, "resolve-write")
    /\ IF MayResolve(w) THEN Resolved(w) ELSE UNCHANGED <<rows, rowState, open>>
    /\ End(w)
    /\ UNCHANGED <<cloud, binding, bounds>>

\* As for an inbound transaction, the acknowledgement of the commit is lost.
ResolveAckLost(w) ==
    /\ At(w, "resolve-write") /\ MayResolve(w) /\ Fault("lost-commit")
    /\ Resolved(w)
    /\ binding' = [binding EXCEPT ![Home[w]].phase = "publication_unknown"]
    /\ End(w)
    /\ UNCHANGED <<cloud, edits, minted>>

-----------------------------------------------------------------------------
(***************************************************************************)
(* Faults.                                                                 *)
(***************************************************************************)
\* A request to the cloud fails before it reaches the server, or the budget of the
\* cycle is used up (BudgetStop, which is not noted as a failure).  The head PUT has
\* its own kind, because losing it leaves a journaled head that was never stored.
RequestFails(w) ==
    /\ run[w].pc \in {"fetch", "plan", "build", "confirm", "retry-confirm", "resolve-fetch"}
    /\ Fault("network")
    /\ \/ End(w) /\ UNCHANGED binding
       \/ run[w].pc # "resolve-fetch" /\ Fail(w)
    /\ UNCHANGED <<cloud, rows, rowState, open, edits, minted>>

PutFails(w) ==
    /\ run[w].pc \in {"put", "retry-put"}
    /\ Fault("lost-request")
    /\ \/ End(w) /\ UNCHANGED binding
       \/ Fail(w)
    /\ UNCHANGED <<cloud, rows, rowState, open, edits, minted>>

\* The server of r stops: its requests are gone, its database and its lease stay.
Crash(r) ==
    /\ \E w \in Workers : Home[w] = r /\ ~At(w, "idle")
    /\ Fault("crash")
    /\ run' = [w \in Workers |-> IF Home[w] = r THEN IdleRun ELSE run[w]]
    /\ UNCHANGED <<cloud, rows, rowState, open, binding, lease, edits, minted>>

\* Nine minutes pass: after a crash, or while a request is stalled.
Expire(r) ==
    /\ lease[r].live
    /\ IF At(lease[r].holder, "idle") THEN UNCHANGED spent ELSE Fault("stall")
    /\ lease' = [lease EXCEPT ![r].live = FALSE]
    /\ UNCHANGED <<cloud, rows, rowState, open, binding, run, edits, minted>>

\* The WebDAV server restores an older head, or loses it.
CloudRollback ==
    /\ cur # 0
    /\ Fault("rollback")
    /\ \E e \in 1..(cur - 1) : heads[e] # heads[cur] /\ Stored(heads[e])
    /\ UNCHANGED <<rows, rowState, open, binding, lease, run, edits, minted>>

CloudLoss ==
    /\ cur # 0
    /\ Fault("cloud-loss")
    /\ cur' = 0
    /\ UNCHANGED <<heads, rows, rowState, open, binding, lease, run, edits, minted>>

-----------------------------------------------------------------------------
UserStep(r) ==
    \/ \E k \in Keys : Edit(r, k) \/ Remove(r, k)
    \/ Enable(r) \/ Pause(r) \/ Unlink(r)

LinkStep(r) ==
    \/ \E origin \in {"create", "join"} : LinkBegin(r, origin)
    \/ LinkDone(r) \/ LinkAbort(r)

CycleStep(w) ==
    \/ FetchHead(w)
    \/ PlanRecommit(w) \/ PlanRetry(w) \/ PlanMerge(w)
    \/ Apply(w) \/ Remember(w) \/ Accept(w) \/ Anchor(w)
    \/ Build(w) \/ BuildStops(w) \/ Journal(w)
    \/ PutHead(w) \/ PutHeadLost(w) \/ PutHeadStopped(w) \/ Confirm(w)
    \/ RetryPut(w) \/ RetryPutStopped(w)
    \/ RetryConfirm(w) \/ RetryConfirmLate(w) \/ RetryCommit(w)
    \/ Settle(w) \/ Finish(w)

ResolveStart(w) ==
    \E k \in Keys, choice \in {"keep-local", "keep-remote"} : StartResolve(w, k, choice)

ResolveStep(w) == ResolveLease(w) \/ ResolveFetch(w) \/ ResolveWrite(w)

FaultStep ==
    \/ \E w \in Workers :
          \/ RequestFails(w) \/ PutFails(w) \/ PutHeadAckLost(w) \/ RetryPutAckLost(w)
          \/ ApplyAckLost(w) \/ ResolveAckLost(w)
    \/ \E r \in Replicas : Crash(r)
    \/ CloudRollback \/ CloudLoss

Next ==
    \/ \E r \in Replicas : UserStep(r) \/ LinkStep(r) \/ Expire(r)
    \/ \E w \in Workers : StartCycle(w) \/ CycleStep(w) \/ ResolveStart(w) \/ ResolveStep(w)
    \/ FaultStep

Spec == Init /\ [][Next]_vars

(***************************************************************************)
(* Fairness: an open, signed-in page starts a cycle every interval, and a  *)
(* request that is not stopped goes on.  A lease runs out by the clock.    *)
(***************************************************************************)
Abandoned(r) == lease[r].live /\ At(lease[r].holder, "idle") /\ Expire(r)

Fairness ==
    /\ \A w \in Workers : WF_vars(StartCycle(w)) /\ WF_vars(CycleStep(w)) /\ WF_vars(ResolveStep(w))
    /\ \A r \in Replicas : WF_vars(Abandoned(r))

FairSpec == Spec /\ Fairness

=============================================================================
