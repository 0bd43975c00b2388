------------------------ MODULE ContinuousSyncProofs ------------------------
(***************************************************************************)
(* TypeOK and AcceptedMonotone, for any number of replicas, requests,      *)
(* edits, publications and faults.                                         *)
(***************************************************************************)
EXTENDS SyncInvariants, TLAPS

-----------------------------------------------------------------------------
(***************************************************************************)
(* What reconcile returns.                                                 *)
(***************************************************************************)
\* Every classification is one of the known actions.
LEMMA ActionType ==
    ASSUME NEW established, NEW base, NEW baseHigh, NEW local, NEW remote,
           NEW gone, NEW tombstoned
    PROVE  KeyAction(established, base, baseHigh, local, remote, gone, tombstoned).type
               \in ActionTypes
<1>1. \A x, y : ClassifyBoth(x, y).type \in ActionTypes
  BY DEF ClassifyBoth, Act, RaiseHighScore, Conflict, ActionTypes
<1>2. ClassifyEstablished(base, baseHigh, local, remote).type \in ActionTypes
  BY <1>1 DEF ClassifyEstablished, Act, RaiseHighScore, ApplyRemote, ActionTypes
<1>3. BootstrapAction(local, remote, gone).type \in ActionTypes
  BY <1>1 DEF BootstrapAction, Act, ApplyRemote, Conflict, ActionTypes
<1>4. LinkedAction(base, baseHigh, local, remote, gone, tombstoned).type \in ActionTypes
  BY <1>2 DEF LinkedAction, Act, ApplyRemote, Conflict, ActionTypes
<1> QED BY <1>3, <1>4 DEF KeyAction, Act, Conflict, ActionTypes

\* Without a head, nothing comes in.
LEMMA NothingInbound ==
    ASSUME NEW established, NEW base, NEW baseHigh, NEW local, NEW tombstoned
    PROVE  KeyAction(established, base, baseHigh, local, None, FALSE, tombstoned).type
               \notin Inbound
<1>1. BootstrapAction(local, None, FALSE).type \notin Inbound
  BY DEF BootstrapAction, Act, Inbound
<1>2. LinkedAction(base, baseHigh, local, None, FALSE, tombstoned).type \notin Inbound
  BY DEF LinkedAction, Act, Inbound
<1> QED BY <1>1, <1>2 DEF KeyAction, Act, Conflict, Inbound

LEMMA MergedType ==
    ASSUME NEW r \in Replicas, NEW x
    PROVE  /\ Merged(r, x) \in [Keys -> ActionTypes]
           /\ x.remote.doc = None => KeysOf(Merged(r, x), Inbound) = {}
<1> DEFINE A == Reconcile(x.seen.baseline # None, rowState[r].base, [k \in Keys |-> NoScore],
                          rows[r], Remote(x).rows, Remote(x).tombs, rowState[r].tombs)
<1>1. \A k \in Keys : A[k].type \in ActionTypes
  BY ActionType DEF Reconcile, Conflict, Act, ActionTypes
<1>2. ASSUME x.remote.doc = None, NEW k \in Keys
      PROVE  A[k].type \notin Inbound
  <2>1. Remote(x).rows[k] = None /\ (k \in Remote(x).tombs) = FALSE
    BY <1>2 DEF Remote, NoCapture
  <2> DEFINE P(gone, remote) == KeyAction(x.seen.baseline # None, rowState[r].base[k], NoScore,
                             rows[r][k], remote, gone, k \in rowState[r].tombs)
  <2>2. A[k] \in {Conflict("focus-active"), P(k \in Remote(x).tombs, Remote(x).rows[k])}
    BY DEF Reconcile
  <2>3. P(FALSE, None).type \notin Inbound
    BY NothingInbound
  <2>4. P(k \in Remote(x).tombs, Remote(x).rows[k]) = P(FALSE, None)
    BY <2>1
  <2>5. Conflict("focus-active").type \notin Inbound
    BY DEF Conflict, Act, Inbound
  <2> QED BY <2>2, <2>3, <2>4, <2>5
<1>3. \A k \in Keys : Merged(r, x)[k] \in {"pending-local", A[k].type}
  BY DEF Merged
<1>4. Merged(r, x) \in [Keys -> ActionTypes]
  <2> QED BY <1>1, <1>3 DEF ActionTypes, Merged
<1>5. x.remote.doc = None => KeysOf(Merged(r, x), Inbound) = {}
  BY <1>2, <1>3 DEF KeysOf, Inbound
<1> QED BY <1>4, <1>5

-----------------------------------------------------------------------------
(***************************************************************************)
(* The helpers return what they should.                                    *)
(***************************************************************************)
LEMMA HomeType == \A w \in Workers : Home[w] \in Replicas /\ w # None
BY HomeAssumption, NoneAssumption

LEMMA ContentType == \A d \in Doc : Content(d) \in ContentSet
BY DEF Doc, Content, ContentSet

LEMMA LocalType ==
    ASSUME TypeOK, NEW r \in Replicas
    PROVE  Local(r) \in Capture
BY DEF TypeOK, Local, Capture, RowState

LEMMA UnlinkedType == Unlinked \in Binding
BY DEF Unlinked, Binding, Phases, MaybeDoc

LEMMA PhaseType == \A b \in Binding, phase \in Phases : [b EXCEPT !.phase = phase] \in Binding
BY DEF Binding

LEMMA NoRowStateType == NoRowState \in RowState
BY DEF NoRowState, RowState, Table, MaybeRow

LEMMA IdleRunType == IdleRun \in Run /\ RequestOK(IdleRun)
<1>1. 0 \in 0..MaxPasses
  BY BoundsAssumption
<1>2. NoReply \in Reply
  BY DEF NoReply, Reply, MaybeDoc
<1>3. NoCapture \in Capture
  BY DEF NoCapture, Capture, Table, MaybeRow
<1>4. NoPlan \in [Keys -> ActionTypes]
  BY DEF NoPlan, ActionTypes
<1>5. IdleRun \in Run
  BY <1>1, <1>2, <1>3, <1>4, UnlinkedType DEF IdleRun, Run, Steps, MaybeDoc
<1> QED BY <1>5 DEF IdleRun, RequestOK

LEMMA FreeLeaseType == FreeLease \in Lease
BY DEF FreeLease, Lease

LEMMA ReplyType ==
    ASSUME TypeOK, NEW b \in Binding
    PROVE  HeadReply(b) \in Reply
<1>1. cur # 0 => heads[cur] \in Doc
  BY DEF TypeOK
<1> QED BY <1>1 DEF HeadReply, NoReply, Reply, TypeOK, Binding, MaybeDoc

LEMMA AcceptedType ==
    ASSUME NEW b \in Binding, NEW reply \in Reply, reply.doc # None
    PROVE  Accepted(b, reply) \in Binding
<1>1. reply.doc \in Doc /\ reply.etag \in Nat
  BY DEF Reply, MaybeDoc
<1>2. [content |-> Content(reply.doc), gen |-> reply.doc.gen] \in Baseline
  BY <1>1, ContentType DEF Baseline, Doc
<1> QED BY <1>1, <1>2 DEF Accepted, Binding, MaybeDoc

LEMMA AnchoredType ==
    ASSUME NEW b \in Binding, NEW content \in ContentSet, NEW gen \in Nat \union {None}
    PROVE  Anchored(b, content, gen) \in Binding
BY DEF Anchored, Binding, Baseline, Phases

LEMMA RecordedType ==
    ASSUME NEW state \in RowState, NEW d \in Doc, NEW skip
    PROVE  Recorded(state, d, skip) \in RowState
BY DEF Recorded, RowState, Doc, Table, MaybeRow

LEMMA SettledType ==
    ASSUME NEW state \in RowState, NEW d \in Doc, NEW skip
    PROVE  Settled(state, d, skip) \in RowState
BY DEF Settled, RowState, Doc, Table, MaybeRow

LEMMA RebasedType ==
    ASSUME NEW state \in RowState, NEW local \in Table, NEW tombs \in SUBSET Keys, NEW skip
    PROVE  Rebased(state, local, tombs, skip) \in RowState
BY DEF Rebased, RowState, Table, MaybeRow

LEMMA ChosenType ==
    ASSUME NEW state \in RowState, NEW k \in Keys, NEW choice, NEW image \in ConflictImages
    PROVE  Chosen(state, k, choice, image) \in RowState
BY DEF Chosen, RowState, ConflictImages, Table, MaybeRow

LEMMA AppliedType ==
    ASSUME NEW x, x.remote.doc \in Doc, NEW table \in Table
    PROVE  AppliedRows(x, table) \in Table
BY DEF AppliedRows, Doc, Table, MaybeRow

LEMMA RemoteType ==
    ASSUME NEW x \in Run
    PROVE  Remote(x) \in ContentSet
BY ContentType DEF Remote, Run, Reply, MaybeDoc, NoCapture, ContentSet, Table, MaybeRow

LEMMA BuiltType ==
    ASSUME TypeOK, NEW w \in Workers
    PROVE  Built(w) \in Doc
<1> DEFINE r == Home[w]
           x == run[w]
           published == PublishedRows(x, rows[r])
           known == IF x.seen.head = None THEN 0 ELSE x.seen.head.gen
<1>1. r \in Replicas /\ x \in Run /\ minted \in Nat /\ rows[r] \in Table
  BY HomeType DEF TypeOK
<1>2. Remote(x) \in ContentSet
  BY <1>1, RemoteType
<1>3. published \in Table
  BY <1>1, <1>2 DEF PublishedRows, ContentSet, Table, MaybeRow
<1>4. PublishedTombs(x, published, rowState[r].revive) \in SUBSET Keys
  BY <1>2 DEF PublishedTombs, ContentSet, KeysOf
<1>5. known \in Nat
  BY <1>1 DEF Run, Binding, MaybeDoc, Doc
<1>6. x.remote.doc # None => x.remote.doc \in Doc
  BY <1>1 DEF Run, Reply, MaybeDoc
<1>7. (1 + IF x.remote.doc = None THEN known ELSE x.remote.doc.gen) \in Nat
  BY <1>5, <1>6 DEF Doc
<1>8. (IF x.remote.doc = None THEN None ELSE x.remote.doc.op) \in Nat \union {None}
  BY <1>6 DEF Doc
<1> HIDE DEF published, known
<1> QED BY <1>1, <1>3, <1>4, <1>7, <1>8 DEF Built, Doc, published, known

LEMMA NotedType ==
    ASSUME TypeOK, NEW w \in Workers
    PROVE  Noted(w) \in [Replicas -> Binding]
<1>1. \A b \in Binding : [b EXCEPT !.phase = "publication_unknown"] \in Binding
  BY PhaseType DEF Phases
<1> QED BY <1>1, HomeType DEF TypeOK, Noted

LEMMA EndType ==
    ASSUME TypeOK, RequestsOK, NEW w \in Workers, End(w)
    PROVE  run' \in [Workers -> Run] /\ RequestsOK' /\ lease' \in [Replicas -> Lease]
<1>1. lease' \in [Replicas -> Lease]
  BY FreeLeaseType DEF TypeOK, End, Released
<1>2. run' = [run EXCEPT ![w] = IdleRun] /\ run \in [Workers -> Run]
  BY DEF TypeOK, End
<1> QED BY <1>1, <1>2, IdleRunType DEF RequestsOK

LEMMA FailType ==
    ASSUME TypeOK, RequestsOK, NEW w \in Workers, Fail(w)
    PROVE  /\ run' \in [Workers -> Run] /\ RequestsOK' /\ lease' \in [Replicas -> Lease]
           /\ binding' \in [Replicas -> Binding]
BY EndType, NotedType DEF Fail

\* A request that moves on has what its next step needs.
LEMMA RunUpdate ==
    ASSUME TypeOK, RequestsOK, NEW w \in Workers, NEW y \in Run, RequestOK(y),
           run' = [run EXCEPT ![w] = y]
    PROVE  run' \in [Workers -> Run] /\ RequestsOK'
BY DEF TypeOK, RequestsOK

LEMMA GotoType ==
    ASSUME TypeOK, RequestsOK, NEW w \in Workers, NEW pc \in Steps, Goto(w, pc),
           RequestOK([run[w] EXCEPT !.pc = pc])
    PROVE  run' \in [Workers -> Run] /\ RequestsOK'
<1>1. [run[w] EXCEPT !.pc = pc] \in Run
  BY DEF TypeOK, Run
<1>2. run' = [run EXCEPT ![w] = [run[w] EXCEPT !.pc = pc]]
  BY DEF Goto, TypeOK
<1> QED BY <1>1, <1>2, RunUpdate

-----------------------------------------------------------------------------
(***************************************************************************)
(* Every action keeps TypeOK and RequestsOK.                               *)
(***************************************************************************)
LEMMA UserTypes ==
    ASSUME TypeOK, RequestsOK, NEW r \in Replicas, UserStep(r)
    PROVE  TypeOK' /\ RequestsOK'
<1>1. ASSUME NEW k \in Keys, NEW row \in MaybeRow, UserWrites(r, k, row)
      PROVE  TypeOK' /\ RequestsOK'
  BY <1>1 DEF UserWrites, TypeOK, RequestsOK, Table, cloud
<1>2. CASE \E k \in Keys : Edit(r, k) \/ Remove(r, k)
  BY <1>1, <1>2 DEF Edit, Remove, MaybeRow
<1>3. CASE Enable(r)
  <2>1. \A b \in Binding : [b EXCEPT !.enabled = TRUE] \in Binding
    BY DEF Binding
  <2> QED BY <1>3, <2>1 DEF Enable, TypeOK, RequestsOK, cloud, bounds
<1>4. CASE Pause(r)
  <2>1. \A b \in Binding : [b EXCEPT !.enabled = FALSE] \in Binding
    BY DEF Binding
  <2> QED BY <1>4, <2>1 DEF Pause, Fault, TypeOK, RequestsOK, cloud
<1>5. CASE Unlink(r)
  <2>1. open' \in [Replicas -> [Keys -> ConflictImages \union {None}]]
    BY <1>5 DEF Unlink, TypeOK
  <2>2. binding' \in [Replicas -> Binding] /\ lease' \in [Replicas -> Lease]
        /\ rowState' \in [Replicas -> RowState]
    BY <1>5, UnlinkedType, NoRowStateType, FreeLeaseType DEF Unlink, TypeOK
  <2> QED BY <1>5, <2>1, <2>2 DEF Unlink, Fault, TypeOK, RequestsOK, cloud
<1> QED BY <1>2, <1>3, <1>4, <1>5 DEF UserStep

LEMMA LinkTypes ==
    ASSUME TypeOK, RequestsOK, NEW r \in Replicas, LinkStep(r)
    PROVE  TypeOK' /\ RequestsOK'
<1>1. binding' \in [Replicas -> Binding]
  <2>1. \A origin \in {"create", "join"} :
            [Unlinked EXCEPT !.phase = "probing", !.origin = origin] \in Binding
    BY UnlinkedType DEF Binding, Phases
  <2>2. \A b \in Binding : [b EXCEPT !.phase = "bootstrap"] \in Binding
    BY PhaseType DEF Phases
  <2> QED BY <2>1, <2>2, UnlinkedType
          DEF LinkStep, LinkBegin, LinkDone, LinkAbort, TypeOK
<1>2. UNCHANGED <<cloud, rows, rowState, open, lease, run, bounds>>
  BY DEF LinkStep, LinkBegin, LinkDone, LinkAbort
<1> QED BY <1>1, <1>2 DEF TypeOK, RequestsOK, cloud, bounds

LEMMA ExpireTypes ==
    ASSUME TypeOK, RequestsOK, NEW r \in Replicas, Expire(r)
    PROVE  TypeOK' /\ RequestsOK'
<1>1. [lease[r] EXCEPT !.live = FALSE] \in Lease
  <2>1. lease[r] \in [holder : Workers, live : BOOLEAN]
    BY DEF Expire, TypeOK, Lease, FreeLease
  <2> QED BY <2>1 DEF Lease
<1>2. lease' \in [Replicas -> Lease]
  BY <1>1 DEF Expire, TypeOK
<1> QED BY <1>2 DEF Expire, Fault, TypeOK, RequestsOK, cloud

LEMMA FaultTypes ==
    ASSUME TypeOK, RequestsOK,
           \/ \E w \in Workers : RequestFails(w) \/ PutFails(w)
           \/ \E r \in Replicas : Crash(r)
           \/ CloudRollback \/ CloudLoss
    PROVE  TypeOK' /\ RequestsOK'
<1>1. ASSUME NEW w \in Workers, RequestFails(w) \/ PutFails(w)
      PROVE  TypeOK' /\ RequestsOK'
  <2>1. /\ run' \in [Workers -> Run] /\ RequestsOK'
        /\ lease' \in [Replicas -> Lease] /\ binding' \in [Replicas -> Binding]
    BY <1>1, EndType, FailType DEF RequestFails, PutFails, TypeOK
  <2> QED BY <1>1, <2>1 DEF RequestFails, PutFails, Fault, TypeOK, cloud
<1>2. ASSUME NEW r \in Replicas, Crash(r)
      PROVE  TypeOK' /\ RequestsOK'
  BY <1>2, IdleRunType DEF Crash, Fault, TypeOK, RequestsOK, cloud
<1>3. CASE CloudRollback
  <2>1. PICK e \in 1..(cur - 1) : Stored(heads[e])
    BY <1>3 DEF CloudRollback
  <2>2. heads[e] \in Doc
    BY <2>1 DEF TypeOK
  <2> QED BY <1>3, <2>1, <2>2 DEF CloudRollback, Stored, Fault, TypeOK, RequestsOK
<1>4. CASE CloudLoss
  BY <1>4 DEF CloudLoss, Fault, TypeOK, RequestsOK
<1> QED BY <1>1, <1>2, <1>3, <1>4

LEMMA StartCycleTypes ==
    ASSUME TypeOK, RequestsOK, NEW w \in Workers, StartCycle(w)
    PROVE  TypeOK' /\ RequestsOK'
<1>1. lease' \in [Replicas -> Lease]
  BY HomeType DEF StartCycle, TypeOK, Lease
<1>2. run' \in [Workers -> Run] /\ RequestsOK'
  BY GotoType DEF StartCycle, RequestOK, Steps
<1> QED BY <1>1, <1>2 DEF StartCycle, TypeOK, cloud, bounds

LEMMA FetchHeadTypes ==
    ASSUME TypeOK, RequestsOK, NEW w \in Workers, FetchHead(w)
    PROVE  TypeOK' /\ RequestsOK'
<1> DEFINE r == Home[w]
           reply == HeadReply(binding[r])
           y == [run[w] EXCEPT !.pc = "plan", !.remote = reply, !.seen = binding[r]]
<1>1. binding[r] \in Binding /\ reply \in Reply
  BY HomeType, ReplyType DEF TypeOK
<1>2. CASE run' = [run EXCEPT ![w] = y] /\ UNCHANGED <<binding, lease>>
  <2>1. y \in Run
    <3>1. run[w] \in Run
      BY DEF TypeOK
    <3> HIDE DEF reply
    <3> QED BY <1>1, <3>1 DEF Run, Steps
  <2>2. RequestOK(y)
    BY <2>1 DEF RequestOK, Run
  <2> QED BY <1>2, <2>1, <2>2, RunUpdate DEF FetchHead, TypeOK, cloud, bounds
<1>3. CASE Fail(w)
  BY <1>3, FailType DEF FetchHead, TypeOK, cloud, bounds
<1> QED BY <1>2, <1>3 DEF FetchHead

LEMMA PlanTypes ==
    ASSUME TypeOK, RequestsOK, NEW w \in Workers,
           PlanRecommit(w) \/ PlanRetry(w) \/ PlanMerge(w)
    PROVE  TypeOK' /\ RequestsOK'
<1> DEFINE r == Home[w]
           x == run[w]
<1>1. x \in Run /\ r \in Replicas
  BY HomeType DEF TypeOK
<1>2. CASE PlanRecommit(w)
  <2> DEFINE y == [x EXCEPT !.pc = "settle", !.skip = {k \in Keys : open[r][k] # None}]
  <2>1. x.remote.doc # None
    BY <1>2 DEF PlanRecommit, Recovery, RecoverPublication, SameHead
  <2>2. y \in Run
    BY <1>1 DEF Run, Steps
  <2>3. RequestOK(y)
    BY <1>1, <2>1 DEF RequestOK, Run
  <2> QED BY <1>2, <2>2, <2>3, RunUpdate DEF PlanRecommit, TypeOK, cloud, bounds
<1>3. CASE PlanRetry(w)
  <2> DEFINE y == [x EXCEPT !.pc = "retry-put", !.sent = TRUE]
  <2>1. x.seen.pending # None
    BY <1>3 DEF PlanRetry, Recovery
  <2>2. y \in Run
    BY <1>1 DEF Run, Steps
  <2>3. RequestOK(y)
    BY <1>1, <2>1 DEF RequestOK, Run
  <2> QED BY <1>3, <2>2, <2>3, RunUpdate DEF PlanRetry, TypeOK, cloud, bounds
<1>4. CASE PlanMerge(w)
  <2> DEFINE plan == Merged(r, x)
             next == [x EXCEPT !.cap = Local(r), !.plan = plan,
                               !.skip = KeysOf(plan, {"conflict"})]
             y == [next EXCEPT !.pc = AfterPlan(next)]
  <2>1. plan \in [Keys -> ActionTypes]
    BY <1>1, MergedType
  <2>2. next \in Run
    BY <1>1, <2>1, LocalType DEF Run, KeysOf
  <2>3. AfterPlan(next) \in {"apply", "remember", "anchor", "accept", "build", "finish"}
    BY DEF AfterPlan, AfterApply, AfterRemember, Onward
  <2>4. y \in Run
    BY <2>2, <2>3 DEF Run, Steps
  <2>5. RequestOK(y)
    <3>1. y.remote = x.remote /\ y.pc = AfterPlan(next) /\ next.remote = x.remote
          /\ next.plan = plan
      BY <1>1, <2>2 DEF Run
    <3>2. AfterPlan(next) \in {"apply", "anchor", "accept"} => x.remote.doc # None
      BY <1>1, <3>1, MergedType DEF AfterPlan, AfterApply, AfterRemember, Onward, FirstRemote
    <3> HIDE DEF y, next
    <3> QED BY <2>3, <3>1, <3>2 DEF RequestOK
  <2>6. CASE run' = [run EXCEPT ![w] = y] /\ UNCHANGED <<binding, lease>>
    <3> HIDE DEF y
    <3> QED BY <1>4, <2>4, <2>5, <2>6, RunUpdate DEF PlanMerge, TypeOK, cloud, bounds
  <2>7. CASE Fail(w)
    BY <1>4, <2>7, FailType DEF PlanMerge, TypeOK, cloud, bounds
  <2> QED BY <1>4, <2>6, <2>7 DEF PlanMerge
<1> QED BY <1>2, <1>3, <1>4

\* What a request at one of these steps holds.
LEMMA RequestTypes ==
    ASSUME TypeOK, RequestsOK, NEW w \in Workers
    PROVE  /\ run[w] \in Run /\ Home[w] \in Replicas /\ binding[Home[w]] \in Binding
           /\ rowState[Home[w]] \in RowState /\ rows[Home[w]] \in Table
           /\ run[w].pc \in {"apply", "accept", "anchor", "settle"} =>
                  run[w].remote \in Reply /\ run[w].remote.doc # None /\ run[w].remote.doc \in Doc
           /\ run[w].pc \in {"journal", "put", "confirm"} =>
                  run[w].doc # None /\ run[w].doc \in Doc
           /\ run[w].pc \in {"retry-put", "retry-confirm", "retry-commit"} =>
                  run[w].seen.pending # None /\ run[w].seen.pending \in Pending
           /\ run[w].pc \in {"resolve-lease", "resolve-fetch", "resolve-write"} =>
                  run[w].key \in Keys
<1>1. run[w] \in Run /\ RequestOK(run[w])
  BY DEF TypeOK, RequestsOK
<1>2. /\ Home[w] \in Replicas /\ binding[Home[w]] \in Binding
      /\ rowState[Home[w]] \in RowState /\ rows[Home[w]] \in Table
  BY HomeType DEF TypeOK
<1>3. /\ run[w].remote \in Reply /\ run[w].doc \in Doc \union {None}
      /\ run[w].remote.doc \in Doc \union {None}
      /\ run[w].key \in Keys \union {None} /\ run[w].seen.pending \in Pending \union {None}
  BY <1>1 DEF Run, Reply, MaybeDoc, Binding
<1> QED BY <1>1, <1>2, <1>3 DEF RequestOK

LEMMA ApplyTypes ==
    ASSUME TypeOK, RequestsOK, NEW w \in Workers, Apply(w) \/ ApplyAckLost(w)
    PROVE  TypeOK' /\ RequestsOK'
<1> DEFINE r == Home[w]
           x == run[w]
<1>1. /\ x \in Run /\ r \in Replicas /\ binding[r] \in Binding
      /\ rowState[r] \in RowState /\ rows[r] \in Table
      /\ x.remote \in Reply /\ x.remote.doc # None /\ x.remote.doc \in Doc
  BY RequestTypes DEF Apply, ApplyAckLost, At
<1>2. ASSUME Committed(w)
      PROVE  rows' \in [Replicas -> Table] /\ rowState' \in [Replicas -> RowState]
  <2>1. AppliedRows(x, rows[r]) \in Table
    BY <1>1, AppliedType
  <2>2. Recorded(rowState[r], x.remote.doc, x.skip) \in RowState
    BY <1>1, RecordedType
  <2> QED BY <1>1, <1>2, <2>1, <2>2 DEF Committed, TypeOK
<1>3. Accepted(binding[r], x.remote) \in Binding
  BY <1>1, AcceptedType
<1>4. CASE Apply(w) /\ MayApply(w)
  <2>1. AfterApply(x) \in {"remember", "anchor", "accept", "build", "finish"}
    BY DEF AfterApply, AfterRemember, Onward
  <2>2. RequestOK([x EXCEPT !.pc = AfterApply(x)])
    BY <1>1, <2>1 DEF RequestOK, Run
  <2>3. run' \in [Workers -> Run] /\ RequestsOK'
    BY <1>4, <2>1, <2>2, GotoType DEF Apply, Steps
  <2>4. binding' \in [Replicas -> Binding]
    BY <1>1, <1>3, <1>4 DEF Apply, TypeOK
  <2> QED BY <1>2, <1>4, <2>3, <2>4 DEF Apply, TypeOK, cloud, bounds
<1>5. CASE Apply(w) /\ ~MayApply(w)
  BY <1>5, FailType DEF Apply, TypeOK, cloud, bounds
<1>6. CASE ApplyAckLost(w)
  <2>1. [Accepted(binding[r], x.remote) EXCEPT !.phase = "publication_unknown"] \in Binding
    BY <1>3, PhaseType DEF Phases
  <2>2. binding' \in [Replicas -> Binding]
    BY <1>1, <1>6, <2>1 DEF ApplyAckLost, TypeOK
  <2> QED BY <1>2, <1>6, <2>2, EndType DEF ApplyAckLost, Fault, TypeOK, cloud
<1> QED BY <1>4, <1>5, <1>6

LEMMA RememberTypes ==
    ASSUME TypeOK, RequestsOK, NEW w \in Workers, Remember(w)
    PROVE  TypeOK' /\ RequestsOK'
<1> DEFINE r == Home[w]
           x == run[w]
<1>1. x \in Run /\ r \in Replicas /\ x.cap \in Capture /\ Remote(x) \in ContentSet
  BY RequestTypes, RemoteType DEF Run
<1>2. \A k \in Keys : [local |-> x.cap.rows[k], remote |-> Remote(x).rows[k]]
                          \in ConflictImages
  BY <1>1 DEF Capture, ContentSet, Table, ConflictImages
<1>3. open' \in [Replicas -> [Keys -> ConflictImages \union {None}]]
  BY <1>1, <1>2 DEF Remember, TypeOK
<1>4. AfterRemember(x) \in {"anchor", "build", "finish", "accept"}
  BY DEF AfterRemember, Onward
<1>5. AfterRemember(x) \in {"anchor", "accept"} => x.remote.doc # None
  BY DEF AfterRemember, Onward, FirstRemote
<1>6. RequestOK([x EXCEPT !.pc = AfterRemember(x)])
  BY <1>1, <1>4, <1>5 DEF RequestOK, Run
<1>7. run' \in [Workers -> Run] /\ RequestsOK'
  BY <1>4, <1>6, GotoType DEF Remember, Steps
<1> QED BY <1>3, <1>7 DEF Remember, TypeOK, cloud, bounds

LEMMA AcceptTypes ==
    ASSUME TypeOK, RequestsOK, NEW w \in Workers, Accept(w) \/ Anchor(w)
    PROVE  TypeOK' /\ RequestsOK'
<1> DEFINE r == Home[w]
           x == run[w]
<1>1. /\ x \in Run /\ r \in Replicas /\ binding[r] \in Binding /\ rowState[r] \in RowState
      /\ x.remote \in Reply /\ x.remote.doc # None /\ x.remote.doc \in Doc
  BY RequestTypes DEF Accept, Anchor, At
<1>2. ASSUME NEW pc \in {"build", "finish"}, Goto(w, pc)
      PROVE  run' \in [Workers -> Run] /\ RequestsOK'
  <2>1. RequestOK([x EXCEPT !.pc = pc])
    BY <1>1, <1>2 DEF RequestOK, Run
  <2> QED BY <1>2, <2>1, GotoType DEF Steps
<1>3. Onward(x) \in {"build", "finish"}
  BY DEF Onward
<1>4. \A skip : Recorded(rowState[r], x.remote.doc, skip) \in RowState
  BY <1>1, RecordedType
<1>5. CASE Accept(w) /\ Goto(w, Onward(x)) /\ UNCHANGED <<rowState, binding, lease>>
  BY <1>2, <1>3, <1>5 DEF Accept, TypeOK, cloud, bounds
<1>6. CASE Accept(w) /\ Fail(w) /\ UNCHANGED rowState
  BY <1>6, FailType DEF Accept, TypeOK, cloud, bounds
<1>7. CASE /\ Accept(w) /\ Goto(w, Onward(x)) /\ UNCHANGED lease
           /\ rowState' = [rowState EXCEPT ![r] = Recorded(@, x.remote.doc, x.skip)]
           /\ binding' = [binding EXCEPT ![r] = Accepted(@, x.remote)]
  <2>1. Accepted(binding[r], x.remote) \in Binding
    BY <1>1, AcceptedType
  <2>2. binding' \in [Replicas -> Binding] /\ rowState' \in [Replicas -> RowState]
    BY <1>1, <1>4, <1>7, <2>1 DEF TypeOK
  <2> QED BY <1>2, <1>3, <1>7, <2>2 DEF Accept, TypeOK, cloud, bounds
<1>8. CASE Anchor(w)
  <2> DEFINE b == binding[r]
             a == Anchored(b, Content(x.remote.doc), x.remote.doc.gen)
  <2>1. a \in Binding
    BY <1>1, AnchoredType, ContentType DEF Doc
  <2>2. \A phase \in {"linked", "bootstrap"} :
            [a EXCEPT !.etag = x.remote.etag, !.head = x.remote.doc,
                      !.pending = b.pending, !.phase = phase] \in Binding
    <3> HIDE DEF a
    <3> QED BY <1>1, <2>1 DEF Binding, MaybeDoc, Phases, Reply
  <2>3. binding' \in [Replicas -> Binding]
    <3> HIDE DEF a
    <3>1. \A c \in Binding : [binding EXCEPT ![r] = c] \in [Replicas -> Binding]
      BY DEF TypeOK
    <3>2. binding \in [Replicas -> Binding]
      BY DEF TypeOK
    <3> QED BY <1>1, <1>8, <2>2, <3>1, <3>2 DEF Anchor, a
  <2>4. rowState' \in [Replicas -> RowState]
    BY <1>1, <1>4, <1>8 DEF Anchor, TypeOK
  <2> QED BY <1>2, <1>8, <2>3, <2>4 DEF Anchor, TypeOK, cloud, bounds
<1> QED BY <1>5, <1>6, <1>7, <1>8 DEF Accept

LEMMA BuildTypes ==
    ASSUME TypeOK, RequestsOK, NEW w \in Workers, Build(w) \/ BuildStops(w)
    PROVE  TypeOK' /\ RequestsOK'
<1> DEFINE r == Home[w]
           x == run[w]
           y == [x EXCEPT !.pc = "journal", !.doc = Built(w), !.cap = Local(r)]
<1>1. CASE Build(w)
  <2>1. x \in Run /\ Built(w) \in Doc /\ Local(r) \in Capture
    BY RequestTypes, BuiltType, LocalType, HomeType
  <2>2. y \in Run
    BY <2>1 DEF Run, Steps, MaybeDoc
  <2>3. Built(w) # None
    BY <2>1, NoneAssumption
  <2>4. RequestOK(y)
    BY <2>1, <2>3 DEF RequestOK, Run
  <2>5. run' \in [Workers -> Run] /\ RequestsOK'
    <3> HIDE DEF y
    <3>1. run' = [run EXCEPT ![w] = y]
      BY <1>1 DEF Build, y
    <3> QED BY <2>2, <2>4, <3>1, RunUpdate
  <2>6. minted' \in Nat
    BY <1>1 DEF Build, TypeOK
  <2> QED BY <1>1, <2>5, <2>6 DEF Build, TypeOK, cloud
<1>2. CASE BuildStops(w)
  BY <1>2, EndType DEF BuildStops, TypeOK, cloud, bounds
<1> QED BY <1>1, <1>2

LEMMA JournalTypes ==
    ASSUME TypeOK, RequestsOK, NEW w \in Workers, Journal(w)
    PROVE  TypeOK' /\ RequestsOK'
<1> DEFINE r == Home[w]
           x == run[w]
           entry == [doc |-> x.doc, capture |-> x.cap, applied |-> FALSE,
                     parent |-> x.remote.doc, parentEtag |-> x.remote.etag, attempts |-> 0]
           y == [x EXCEPT !.pc = "put", !.sent = TRUE]
<1>1. x \in Run /\ r \in Replicas /\ binding[r] \in Binding /\ x.doc \in Doc /\ x.doc # None
  BY RequestTypes DEF Journal, At
<1>2. CASE Local(r) = x.cap
  <2>1. entry \in Pending
    BY <1>1 DEF Pending, Run, Reply
  <2>2. [binding[r] EXCEPT !.pending = entry] \in Binding
    BY <1>1, <2>1 DEF Binding
  <2>3. binding' \in [Replicas -> Binding]
    BY <1>1, <1>2, <2>2 DEF Journal, TypeOK
  <2>4. y \in Run /\ RequestOK(y)
    BY <1>1 DEF Run, Steps, RequestOK
  <2>5. run' \in [Workers -> Run] /\ RequestsOK'
    <3> HIDE DEF y
    <3>1. run' = [run EXCEPT ![w] = y]
      BY <1>2 DEF Journal, y
    <3> QED BY <2>4, <3>1, RunUpdate
  <2> QED BY <1>2, <2>3, <2>5 DEF Journal, TypeOK, cloud, bounds
<1>3. CASE Local(r) # x.cap
  BY <1>3, EndType DEF Journal, TypeOK, cloud, bounds
<1> QED BY <1>2, <1>3

LEMMA StoredType ==
    ASSUME TypeOK, NEW d \in Doc, Stored(d)
    PROVE  heads' \in Seq(Doc) /\ cur' \in Nat /\ cur' <= Len(heads')
BY DEF TypeOK, Stored

LEMMA PutTypes ==
    ASSUME TypeOK, RequestsOK, NEW w \in Workers,
           PutHead(w) \/ PutHeadAckLost(w) \/ PutHeadLost(w) \/ PutHeadStopped(w)
    PROVE  TypeOK' /\ RequestsOK'
<1> DEFINE r == Home[w]
           x == run[w]
<1>1. /\ x \in Run /\ r \in Replicas /\ binding[r] \in Binding
      /\ x.doc \in Doc /\ x.doc # None /\ x.pc = "put"
  BY RequestTypes DEF PutHead, PutHeadAckLost, PutHeadLost, PutHeadStopped, At
<1>2. CASE PutHead(w)
  <2>1. RequestOK([x EXCEPT !.pc = "confirm"])
    BY <1>1 DEF RequestOK, Run
  <2>2. run' \in [Workers -> Run] /\ RequestsOK'
    BY <1>2, <2>1, GotoType DEF PutHead, Steps
  <2> QED BY <1>1, <1>2, <2>2, StoredType DEF PutHead, TypeOK, bounds
<1>3. CASE PutHeadAckLost(w)
  BY <1>1, <1>3, StoredType, FailType DEF PutHeadAckLost, Fault, TypeOK
<1>4. CASE PutHeadLost(w)
  <2> DEFINE passes == x.passes + 1
             y == [IdleRun EXCEPT !.pc = "fetch", !.passes = passes]
  <2>1. [binding[r] EXCEPT !.pending = None] \in Binding
    BY <1>1 DEF Binding
  <2>2. binding' \in [Replicas -> Binding]
    BY <1>1, <1>4, <2>1 DEF PutHeadLost, TypeOK
  <2>3. CASE passes < MaxPasses
    <3>1. passes \in 0..MaxPasses
      BY <1>1, <2>3, BoundsAssumption DEF Run
    <3>2. y \in Run /\ RequestOK(y)
      <4> HIDE DEF passes
      <4> QED BY <3>1, IdleRunType DEF Run, Steps, RequestOK
    <3>3. run' = [run EXCEPT ![w] = y] /\ UNCHANGED lease
      BY <1>4, <2>3 DEF PutHeadLost
    <3> HIDE DEF y
    <3>4. run' \in [Workers -> Run] /\ RequestsOK'
      BY <3>2, <3>3, RunUpdate
    <3> QED BY <1>4, <2>2, <3>3, <3>4 DEF PutHeadLost, TypeOK, cloud, bounds
  <2>4. CASE ~(passes < MaxPasses)
    BY <1>4, <2>2, <2>4, EndType DEF PutHeadLost, TypeOK, cloud, bounds
  <2> QED BY <2>3, <2>4
<1>5. CASE PutHeadStopped(w)
  BY <1>5, FailType DEF PutHeadStopped, TypeOK, cloud, bounds
<1> QED BY <1>2, <1>3, <1>4, <1>5

LEMMA ConfirmTypes ==
    ASSUME TypeOK, RequestsOK, NEW w \in Workers, Confirm(w)
    PROVE  TypeOK' /\ RequestsOK'
<1> DEFINE r == Home[w]
           x == run[w]
           Marked(b) == [b EXCEPT !.etag = cur, !.head = x.doc,
                            !.pending = IF @ = None THEN None ELSE [@ EXCEPT !.applied = TRUE]]
           y == [x EXCEPT !.pc = "settle", !.remote = [doc |-> x.doc, etag |-> cur]]
<1>1. /\ x \in Run /\ r \in Replicas /\ binding[r] \in Binding /\ cur \in Nat
      /\ x.doc \in Doc /\ x.doc # None
  BY RequestTypes DEF Confirm, At, TypeOK
<1>2. CASE run' = [run EXCEPT ![w] = y] /\ UNCHANGED lease
           /\ binding' = [binding EXCEPT ![r] = Marked(@)]
  <2>1. \A p \in Pending : [p EXCEPT !.applied = TRUE] \in Pending
    BY DEF Pending
  <2>2. Marked(binding[r]) \in Binding
    BY <1>1, <2>1 DEF Binding, MaybeDoc
  <2>3. y \in Run /\ RequestOK(y)
    BY <1>1 DEF Run, Steps, RequestOK, Reply, MaybeDoc
  <2>4. binding' \in [Replicas -> Binding]
    BY <1>1, <1>2, <2>2 DEF TypeOK
  <2> HIDE DEF y
  <2>5. run' \in [Workers -> Run] /\ RequestsOK'
    BY <1>2, <2>3, RunUpdate
  <2> QED BY <1>2, <2>4, <2>5 DEF Confirm, TypeOK, cloud, bounds
<1>3. CASE End(w) /\ UNCHANGED binding
  BY <1>3, EndType DEF Confirm, TypeOK, cloud, bounds
<1>4. CASE Fail(w)
  BY <1>4, FailType DEF Confirm, TypeOK, cloud, bounds
<1> QED BY <1>2, <1>3, <1>4 DEF Confirm

LEMMA SettleTypes ==
    ASSUME TypeOK, RequestsOK, NEW w \in Workers, Settle(w) \/ Finish(w)
    PROVE  TypeOK' /\ RequestsOK'
<1> DEFINE r == Home[w]
           x == run[w]
           b == binding[r]
<1>1. x \in Run /\ r \in Replicas /\ b \in Binding /\ rowState[r] \in RowState
  BY RequestTypes
<1>2. CASE Settle(w) /\ Guarded(w)
  <2> DEFINE a == Anchored(b, Content(x.remote.doc), x.remote.doc.gen)
  <2>1. x.remote \in Reply /\ x.remote.doc # None /\ x.remote.doc \in Doc
    BY <1>2, RequestTypes DEF Settle, At
  <2>2. a \in Binding
    BY <1>1, <2>1, AnchoredType, ContentType DEF Doc
  <2>3. [a EXCEPT !.etag = x.remote.etag, !.head = x.remote.doc] \in Binding
    <3> HIDE DEF a
    <3> QED BY <2>1, <2>2 DEF Binding, MaybeDoc, Reply
  <2>4. binding' \in [Replicas -> Binding]
    BY <1>1, <1>2, <2>3 DEF Settle, TypeOK
  <2>5. rowState' \in [Replicas -> RowState]
    BY <1>1, <1>2, <2>1, SettledType DEF Settle, TypeOK
  <2>6. run' \in [Workers -> Run] /\ RequestsOK'
    <3>1. RequestOK([x EXCEPT !.pc = "finish"])
      BY <1>1 DEF RequestOK, Run
    <3> QED BY <1>2, <3>1, GotoType DEF Settle, Steps
  <2> QED BY <1>2, <2>4, <2>5, <2>6 DEF Settle, TypeOK, cloud, bounds
<1>3. CASE Settle(w) /\ ~Guarded(w)
  BY <1>3, FailType DEF Settle, TypeOK, cloud, bounds
<1>4. CASE Finish(w)
  <2>1. \A phase \in {"bootstrap", "linked"} : [b EXCEPT !.phase = phase] \in Binding
    BY <1>1, PhaseType DEF Phases
  <2>2. binding' \in [Replicas -> Binding]
    BY <1>1, <1>4, <2>1 DEF Finish, TypeOK
  <2> QED BY <1>4, <2>2, EndType DEF Finish, TypeOK, cloud, bounds
<1> QED BY <1>2, <1>3, <1>4

LEMMA RetryPutTypes ==
    ASSUME TypeOK, RequestsOK, NEW w \in Workers,
           RetryPut(w) \/ RetryPutAckLost(w) \/ RetryPutStopped(w) \/ RetryConfirmLate(w)
    PROVE  TypeOK' /\ RequestsOK'
<1> DEFINE x == run[w]
<1>1. CASE RetryPut(w)
  <2>1. x \in Run /\ x.seen.pending # None /\ x.seen.pending \in Pending
    BY <1>1, RequestTypes DEF RetryPut, At
  <2>2. x.seen.pending.doc \in Doc
    BY <2>1 DEF Pending
  <2>3. RequestOK([x EXCEPT !.pc = "retry-confirm"])
    BY <2>1 DEF RequestOK, Run
  <2>4. run' \in [Workers -> Run] /\ RequestsOK'
    BY <1>1, <2>3, GotoType DEF RetryPut, Steps
  <2> QED BY <1>1, <2>2, <2>4, StoredType DEF RetryPut, TypeOK, bounds
<1>2. CASE RetryPutAckLost(w)
  <2>1. x.seen.pending.doc \in Doc
    BY <1>2, RequestTypes DEF RetryPutAckLost, At, Pending
  <2> QED BY <1>2, <2>1, StoredType, FailType DEF RetryPutAckLost, Fault, TypeOK
<1>3. CASE RetryPutStopped(w)
  BY <1>3, FailType, EndType DEF RetryPutStopped, TypeOK, cloud, bounds
<1>4. CASE RetryConfirmLate(w)
  BY <1>4, EndType DEF RetryConfirmLate, TypeOK, cloud, bounds
<1> QED BY <1>1, <1>2, <1>3, <1>4

LEMMA RetryConfirmTypes ==
    ASSUME TypeOK, RequestsOK, NEW w \in Workers, RetryConfirm(w)
    PROVE  TypeOK' /\ RequestsOK'
<1> DEFINE r == Home[w]
           x == run[w]
           document == x.seen.pending.doc
           Confirmed(b) == IF b.pending = None THEN [b EXCEPT !.etag = cur]
                           ELSE [b EXCEPT !.etag = cur, !.pending.applied = TRUE]
           Counted(b) == IF b.pending = None THEN b
                         ELSE [b EXCEPT !.pending.attempts = @ + 1]
           marked == IF Holds(w) THEN Confirmed(binding[r]) ELSE binding[r]
           reply == [doc |-> document, etag |-> cur]
           y == [x EXCEPT !.pc = "retry-commit", !.seen = marked]
<1>1. /\ x \in Run /\ r \in Replicas /\ binding[r] \in Binding /\ cur \in Nat
      /\ binding \in [Replicas -> Binding]
  BY RequestTypes DEF TypeOK
<1>2. \A b \in Binding : Confirmed(b) \in Binding
  <2>1. \A p \in Pending : [p EXCEPT !.applied = TRUE] \in Pending
    BY DEF Pending
  <2> QED BY <1>1, <2>1 DEF Binding
<1>3. \A b \in Binding : Counted(b) \in Binding
  <2>1. \A p \in Pending : [p EXCEPT !.attempts = @ + 1] \in Pending
    BY DEF Pending
  <2> QED BY <2>1 DEF Binding
<1>4. marked \in Binding
  BY <1>1, <1>2
<1> HIDE DEF Confirmed, Counted
<1>5. CASE /\ Recovery(marked, reply, Local(r)) = "commit-remote"
           /\ binding' = [binding EXCEPT ![r] = marked]
           /\ run' = [run EXCEPT ![w] = y]
           /\ UNCHANGED lease
  <2>1. marked.pending # None
    BY <1>5 DEF Recovery
  <2> HIDE DEF marked
  <2>2. y \in Run /\ RequestOK(y)
    BY <1>1, <1>4, <2>1 DEF Run, Steps, RequestOK
  <2>3. binding' \in [Replicas -> Binding]
    BY <1>1, <1>4, <1>5
  <2> HIDE DEF y
  <2>4. run' \in [Workers -> Run] /\ RequestsOK'
    BY <1>5, <2>2, RunUpdate
  <2> QED BY <1>5, <2>3, <2>4 DEF RetryConfirm, TypeOK, cloud, bounds
<1>6. CASE binding' = [binding EXCEPT ![r] = Counted(marked)] /\ End(w)
  <2>1. binding' \in [Replicas -> Binding]
    BY <1>1, <1>3, <1>4, <1>6
  <2> QED BY <1>6, <2>1, EndType DEF RetryConfirm, TypeOK, cloud, bounds
<1>7. CASE binding' = [binding EXCEPT ![r] = Counted(@)] /\ End(w)
  <2>1. binding' \in [Replicas -> Binding]
    BY <1>1, <1>3, <1>7
  <2> QED BY <1>7, <2>1, EndType DEF RetryConfirm, TypeOK, cloud, bounds
<1>8. CASE Fail(w)
  BY <1>8, FailType DEF RetryConfirm, TypeOK, cloud, bounds
<1> QED BY <1>5, <1>6, <1>7, <1>8 DEF RetryConfirm, Confirmed, Counted

LEMMA RetryCommitTypes ==
    ASSUME TypeOK, RequestsOK, NEW w \in Workers, RetryCommit(w)
    PROVE  TypeOK' /\ RequestsOK'
<1> DEFINE r == Home[w]
           b == run[w].seen
           conflicts == {k \in Keys : open[r][k] # None}
           accepted == IF b.head = None THEN b.pending.doc ELSE b.head
           gen == IF b.head # None THEN b.head.gen
                  ELSE IF b.baseline # None THEN b.baseline.gen ELSE None
<1>1. /\ run[w] \in Run /\ r \in Replicas /\ binding[r] \in Binding
      /\ rowState[r] \in RowState /\ rows[r] \in Table
      /\ b \in Binding /\ b.pending # None /\ b.pending \in Pending
  <2>1. run[w].pc = "retry-commit"
    BY DEF RetryCommit, At
  <2> QED BY <2>1, RequestTypes DEF Run
<1>2. CASE Local(r) = b.pending.capture
  <2>1. accepted \in Doc
    BY <1>1 DEF Binding, MaybeDoc, Pending
  <2>2. gen \in Nat \union {None}
    BY <1>1 DEF Binding, MaybeDoc, Doc, Baseline
  <2>3. Rebased(rowState[r], rows[r], b.pending.doc.tombs, conflicts) \in RowState
    BY <1>1, RebasedType DEF Pending, Doc
  <2>4. Anchored(binding[r], Content(accepted), gen) \in Binding
    <3> HIDE DEF accepted, gen
    <3> QED BY <1>1, <2>1, <2>2, AnchoredType, ContentType
  <2>5. binding' \in [Replicas -> Binding] /\ rowState' \in [Replicas -> RowState]
    BY <1>1, <1>2, <2>3, <2>4 DEF RetryCommit, TypeOK
  <2>6. run' \in [Workers -> Run] /\ RequestsOK'
    <3>1. RequestOK([run[w] EXCEPT !.pc = "finish"])
      BY <1>1 DEF RequestOK, Run
    <3> QED BY <1>2, <3>1, GotoType DEF RetryCommit, Steps
  <2> QED BY <1>2, <2>5, <2>6 DEF RetryCommit, TypeOK, cloud, bounds
<1>3. CASE Local(r) # b.pending.capture
  BY <1>3, FailType DEF RetryCommit, TypeOK, cloud, bounds
<1> QED BY <1>2, <1>3

LEMMA ResolveTypes ==
    ASSUME TypeOK, RequestsOK, NEW w \in Workers,
           ResolveStart(w) \/ ResolveLease(w) \/ ResolveFetch(w)
    PROVE  TypeOK' /\ RequestsOK'
<1> DEFINE r == Home[w]
           x == run[w]
<1>1. x \in Run /\ r \in Replicas /\ binding[r] \in Binding /\ RequestOK(x)
  BY RequestTypes DEF RequestsOK
<1>2. ASSUME NEW k \in Keys, NEW choice \in {"keep-local", "keep-remote"},
             StartResolve(w, k, choice)
      PROVE  TypeOK' /\ RequestsOK'
  <2> DEFINE y == [IdleRun EXCEPT !.pc = "resolve-lease", !.seen = binding[r],
                                  !.key = k, !.choice = choice]
  <2>1. k # None
    BY <1>2, NoneAssumption
  <2>2. y \in Run /\ RequestOK(y)
    BY <1>1, <2>1, IdleRunType DEF Run, Steps, RequestOK
  <2>3. run' = [run EXCEPT ![w] = y]
    BY <1>2 DEF StartResolve
  <2> HIDE DEF y
  <2> QED BY <1>2, <2>2, <2>3, RunUpdate DEF StartResolve, TypeOK, cloud, bounds
<1>3. CASE ResolveLease(w)
  <2> DEFINE conflict == open[r][x.key]
             y == [x EXCEPT !.pc = "resolve-fetch", !.images = conflict]
  <2>1. x.pc = "resolve-lease" /\ x.key \in Keys /\ x.key # None
    BY <1>1, <1>3, RequestTypes DEF ResolveLease, At, RequestOK
  <2>2. CASE /\ conflict # None
             /\ lease' = [lease EXCEPT ![r] = [holder |-> w, live |-> TRUE]]
             /\ run' = [run EXCEPT ![w] = y]
    <3>1. conflict \in ConflictImages
      BY <1>1, <2>1, <2>2 DEF TypeOK
    <3>2. y \in Run /\ RequestOK(y)
      BY <1>1, <2>1, <2>2, <3>1 DEF Run, Steps, RequestOK
    <3>3. lease' \in [Replicas -> Lease]
      BY <1>1, <2>2 DEF TypeOK, Lease
    <3> HIDE DEF y
    <3> QED BY <1>3, <2>2, <3>2, <3>3, RunUpdate DEF ResolveLease, TypeOK, cloud, bounds
  <2>3. CASE run' = [run EXCEPT ![w] = IdleRun] /\ UNCHANGED lease
    BY <1>3, <2>3, RunUpdate, IdleRunType DEF ResolveLease, TypeOK, cloud, bounds
  <2> QED BY <1>3, <2>2, <2>3 DEF ResolveLease
<1>4. CASE ResolveFetch(w)
  <2>1. CASE Goto(w, "resolve-write") /\ UNCHANGED lease
    <3>1. RequestOK([x EXCEPT !.pc = "resolve-write"])
      BY <1>1, <1>4 DEF ResolveFetch, At, RequestOK, Run
    <3>2. run' \in [Workers -> Run] /\ RequestsOK'
      BY <2>1, <3>1, GotoType DEF Steps
    <3> QED BY <1>4, <2>1, <3>2 DEF ResolveFetch, TypeOK, cloud, bounds
  <2>2. CASE End(w)
    BY <1>4, <2>2, EndType DEF ResolveFetch, TypeOK, cloud, bounds
  <2> QED BY <1>4, <2>1, <2>2 DEF ResolveFetch
<1> QED BY <1>2, <1>3, <1>4 DEF ResolveStart

LEMMA ResolveWriteTypes ==
    ASSUME TypeOK, RequestsOK, NEW w \in Workers, ResolveWrite(w) \/ ResolveAckLost(w)
    PROVE  TypeOK' /\ RequestsOK'
<1> DEFINE r == Home[w]
           x == run[w]
           image == open[r][x.key]
<1>1. /\ x \in Run /\ r \in Replicas /\ binding[r] \in Binding /\ x.key \in Keys
      /\ rowState[r] \in RowState /\ rows[r] \in Table
  BY RequestTypes DEF ResolveWrite, ResolveAckLost, At
<1>2. ASSUME MayResolve(w), Resolved(w)
      PROVE  /\ rows' \in [Replicas -> Table] /\ rowState' \in [Replicas -> RowState]
             /\ open' \in [Replicas -> [Keys -> ConflictImages \union {None}]]
  <2>1. image \in ConflictImages
    BY <1>1, <1>2 DEF MayResolve, TypeOK
  <2>2. rows' \in [Replicas -> Table]
    BY <1>1, <1>2, <2>1 DEF Resolved, ConflictImages, Table, TypeOK
  <2>3. Chosen(rowState[r], x.key, x.choice, image) \in RowState
    BY <1>1, <2>1, ChosenType
  <2>4. rowState' \in [Replicas -> RowState]
    BY <1>1, <1>2, <2>3 DEF Resolved, TypeOK
  <2>5. open' \in [Replicas -> [Keys -> ConflictImages \union {None}]]
    BY <1>1, <1>2 DEF Resolved, TypeOK
  <2> QED BY <2>2, <2>4, <2>5
<1>3. CASE ResolveWrite(w)
  BY <1>2, <1>3, EndType DEF ResolveWrite, TypeOK, cloud, bounds
<1>4. CASE ResolveAckLost(w)
  <2>1. binding' \in [Replicas -> Binding]
    BY <1>1, <1>4, PhaseType DEF ResolveAckLost, TypeOK, Phases
  <2> QED BY <1>2, <1>4, <2>1, EndType DEF ResolveAckLost, Fault, TypeOK, cloud
<1> QED BY <1>3, <1>4

-----------------------------------------------------------------------------
(***************************************************************************)
(* Type correctness.                                                       *)
(***************************************************************************)
LEMMA InitTypes == Init => TypeOK /\ RequestsOK
<1> SUFFICES ASSUME Init PROVE TypeOK /\ RequestsOK
  OBVIOUS
<1>1. heads \in Seq(Doc) /\ cur \in Nat /\ cur <= Len(heads)
  BY DEF Init
<1>2. rows \in [Replicas -> Table] /\ open \in [Replicas -> [Keys -> ConflictImages \union {None}]]
  BY DEF Init, Table, MaybeRow
<1>3. run \in [Workers -> Run] /\ RequestsOK
  BY IdleRunType DEF Init, RequestsOK
<1> QED BY <1>1, <1>2, <1>3, UnlinkedType, NoRowStateType, FreeLeaseType DEF Init, TypeOK

LEMMA NextTypes == TypeOK /\ RequestsOK /\ [Next]_vars => TypeOK' /\ RequestsOK'
<1> SUFFICES ASSUME TypeOK, RequestsOK, [Next]_vars
             PROVE  TypeOK' /\ RequestsOK'
  OBVIOUS
<1>1. CASE UNCHANGED vars
  BY <1>1 DEF vars, TypeOK, RequestsOK
<1>2. ASSUME NEW r \in Replicas, UserStep(r) \/ LinkStep(r) \/ Expire(r)
      PROVE  TypeOK' /\ RequestsOK'
  BY <1>2, UserTypes, LinkTypes, ExpireTypes
<1>3. ASSUME NEW w \in Workers, StartCycle(w) \/ ResolveStart(w) \/ ResolveStep(w)
      PROVE  TypeOK' /\ RequestsOK'
  BY <1>3, StartCycleTypes, ResolveTypes, ResolveWriteTypes DEF ResolveStep
<1>4. ASSUME NEW w \in Workers, CycleStep(w)
      PROVE  TypeOK' /\ RequestsOK'
  BY <1>4, FetchHeadTypes, PlanTypes, ApplyTypes, RememberTypes, AcceptTypes, BuildTypes,
     JournalTypes, PutTypes, ConfirmTypes, SettleTypes, RetryPutTypes, RetryConfirmTypes,
     RetryCommitTypes DEF CycleStep
<1>5. CASE FaultStep
  BY <1>5, FaultTypes, PutTypes, RetryPutTypes, ApplyTypes, ResolveWriteTypes DEF FaultStep
<1> QED BY <1>1, <1>2, <1>3, <1>4, <1>5 DEF Next

\* Whatever the replicas, requests and faults, every variable keeps its type and every
\* request holds what its next step reads: no step works on a head, a document, a journal
\* or a conflict that is not there.
THEOREM TypeCorrect == Spec => [](TypeOK /\ RequestsOK)
<1>1. Init => TypeOK /\ RequestsOK
  BY InitTypes
<1>2. TypeOK /\ RequestsOK /\ [Next]_vars => (TypeOK /\ RequestsOK)'
  BY NextTypes
<1> QED BY <1>1, <1>2, PTL DEF Spec
=============================================================================
