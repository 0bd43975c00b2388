------------------------- MODULE AcceptedHeadProofs -------------------------
(***************************************************************************)
(* AcceptedMonotone for every instance: the accepted head of a linked      *)
(* replica never goes back, whatever is lost, restored, stalled or         *)
(* crashed.                                                                *)
(***************************************************************************)
EXTENDS ContinuousSyncProofs

-----------------------------------------------------------------------------
(***************************************************************************)
(* Steps by what they do to the bindings.                                  *)
(***************************************************************************)
MonotoneStep(b, c) ==
    b.head # None /\ c.phase # "unlinked" =>
        /\ c.head # None
        /\ c.head.gen >= b.head.gen
        /\ c.head.gen = b.head.gen => Content(c.head) = Content(b.head)

Kept == HeadsOK' /\ UnlinkedOK' /\ \A r \in Replicas : MonotoneStep(binding[r], binding'[r])

\* The step leaves the head and the baseline of q alone, and unlinks nobody.
Quiet(q) ==
    /\ binding'[q].head = binding[q].head
    /\ binding'[q].baseline = binding[q].baseline
    /\ \/ Linked(q)'
       \/ binding'[q].phase = binding[q].phase /\ binding'[q].enabled = binding[q].enabled

NoNewHolder == \A q \in Replicas : lease'[q].holder \in {lease[q].holder, None}

LEMMA LinkedHolder ==
    ASSUME TypeOK, UnlinkedOK, NEW w \in Workers, Holds(w)
    PROVE  Linked(Home[w])
BY HomeType DEF UnlinkedOK, Holds

LEMMA Congruence ==
    ASSUME NEW b, NEW c, NEW x, b.head = c.head, b.baseline = c.baseline
    PROVE  /\ HolderOK(b, x) => HolderOK(c, x)
           /\ Consistent(b) => Consistent(c)
BY DEF HolderOK, Consistent, Follows, Precedes

LEMMA SameMonotone ==
    ASSUME TypeOK, NEW r \in Replicas, NEW c, c.head = binding[r].head
    PROVE  MonotoneStep(binding[r], c)
BY DEF MonotoneStep, TypeOK, Binding, MaybeDoc, Doc

LEMMA IdleHolder == \A b : HolderOK(b, IdleRun)
BY DEF HolderOK, IdleRun

\* A step that is quiet everywhere keeps the invariant when the requests it moves still
\* hold what they need.
LEMMA QuietStep ==
    ASSUME Inv, NoNewHolder, \A q \in Replicas : Quiet(q),
           \A v \in Workers : \/ run'[v] = run[v]
                              \/ Holds(v)' => HolderOK(binding[Home[v]], run'[v])
    PROVE  Kept
<1>1. ASSUME NEW q \in Replicas
      PROVE  /\ Consistent(binding'[q]) /\ MonotoneStep(binding[q], binding'[q])
             /\ ~Linked(q)' => /\ binding'[q].head = None
                               /\ ~binding'[q].enabled /\ lease'[q].holder = None
  <2>1. Quiet(q) /\ Consistent(binding[q])
    BY DEF Inv, HeadsOK
  <2>2. Consistent(binding'[q])
    BY <2>1, Congruence DEF Quiet
  <2>3. MonotoneStep(binding[q], binding'[q])
    BY <2>1, SameMonotone DEF Quiet, Inv
  <2>4. ~Linked(q)' => ~Linked(q) /\ binding'[q].enabled = binding[q].enabled
    BY <2>1 DEF Quiet, Linked
  <2>5. ~Linked(q) => /\ binding[q].head = None
                      /\ ~binding[q].enabled /\ lease[q].holder = None
    BY DEF Inv, UnlinkedOK
  <2>6. lease'[q].holder \in {lease[q].holder, None}
    BY DEF NoNewHolder
  <2> QED BY <2>1, <2>2, <2>3, <2>4, <2>5, <2>6 DEF Quiet
<1>2. ASSUME NEW v \in Workers, Holds(v)'
      PROVE  HolderOK(binding'[Home[v]], run'[v])
  <2>1. Home[v] \in Replicas /\ v # None
    BY HomeType
  <2>2. Holds(v)
    BY <1>2, <2>1 DEF NoNewHolder, Holds
  <2>3. HolderOK(binding[Home[v]], run'[v])
    BY <1>2, <2>2 DEF Inv, HeadsOK
  <2> QED BY <2>1, <2>3, Congruence DEF Quiet
<1> QED BY <1>1, <1>2 DEF Kept, HeadsOK, UnlinkedOK

\* Only the holder of the lease moves the head or the baseline of its replica, so what
\* the other holders read is still there.
LEMMA HolderStep ==
    ASSUME Inv, NoNewHolder, NEW w \in Workers, Holds(w),
           \A q \in Replicas \ {Home[w]} : binding'[q] = binding[q],
           \A v \in Workers \ {w} : run'[v] = run[v],
           Linked(Home[w])', Consistent(binding'[Home[w]]),
           HolderOK(binding'[Home[w]], run'[w]),
           MonotoneStep(binding[Home[w]], binding'[Home[w]])
    PROVE  Kept
<1>1. ASSUME NEW q \in Replicas, q # Home[w]
      PROVE  /\ Consistent(binding'[q]) /\ MonotoneStep(binding[q], binding'[q])
             /\ ~Linked(q)' => /\ binding'[q].head = None
                               /\ ~binding'[q].enabled /\ lease'[q].holder = None
  <2>1. binding'[q] = binding[q]
    BY <1>1
  <2>2. Consistent(binding'[q])
    BY <2>1 DEF Inv, HeadsOK
  <2>3. MonotoneStep(binding[q], binding'[q])
    BY <2>1, SameMonotone DEF Inv
  <2>4. ~Linked(q)' => ~Linked(q)
    BY <2>1 DEF Linked
  <2>5. ~Linked(q) => /\ binding[q].head = None
                      /\ ~binding[q].enabled /\ lease[q].holder = None
    BY DEF Inv, UnlinkedOK
  <2>6. lease'[q].holder \in {lease[q].holder, None}
    BY DEF NoNewHolder
  <2> QED BY <2>1, <2>2, <2>3, <2>4, <2>5, <2>6
<1>2. ASSUME NEW v \in Workers, Holds(v)'
      PROVE  HolderOK(binding'[Home[v]], run'[v])
  <2>1. Home[v] \in Replicas /\ v # None
    BY HomeType
  <2>2. Holds(v)
    BY <1>2, <2>1 DEF NoNewHolder, Holds
  <2>3. CASE v = w
    BY <2>3
  <2>4. CASE v # w
    <3>1. Home[v] # Home[w]
      BY <2>2, <2>4 DEF Holds
    <3> QED BY <2>1, <2>2, <2>4, <3>1 DEF Inv, HeadsOK
  <2> QED BY <2>3, <2>4
<1> QED BY <1>1, <1>2 DEF Kept, HeadsOK, UnlinkedOK

\* A request that takes the lease has read nothing yet.
LEMMA TakeLease ==
    ASSUME Inv, NEW w \in Workers, Linked(Home[w]), UNCHANGED binding,
           lease' = [lease EXCEPT ![Home[w]] = [holder |-> w, live |-> TRUE]],
           \A v \in Workers \ {w} : run'[v] = run[v],
           run'[w].pc \in {"fetch", "resolve-fetch"}
    PROVE  Kept
<1>1. Home[w] \in Replicas /\ w # None
  BY HomeType
<1>2. /\ lease'[Home[w]].holder = w
      /\ \A q \in Replicas \ {Home[w]} : lease'[q] = lease[q]
  BY <1>1 DEF Inv, TypeOK
<1>3. ASSUME NEW v \in Workers, Holds(v)'
      PROVE  HolderOK(binding'[Home[v]], run'[v])
  <2>1. CASE v = w
    BY <2>1 DEF HolderOK
  <2>2. CASE v # w
    <3>1. Home[v] # Home[w] /\ Home[v] \in Replicas
      BY <1>2, <1>3, <2>2, HomeType DEF Holds
    <3>2. Holds(v)
      BY <1>2, <1>3, <3>1 DEF Holds
    <3> QED BY <2>2, <3>2 DEF Inv, HeadsOK
  <2> QED BY <2>1, <2>2
<1>4. ASSUME NEW q \in Replicas
      PROVE  /\ Consistent(binding'[q]) /\ MonotoneStep(binding[q], binding'[q])
             /\ ~Linked(q)' => /\ binding'[q].head = None
                               /\ ~binding'[q].enabled /\ lease'[q].holder = None
  <2>1. Consistent(binding[q]) /\ MonotoneStep(binding[q], binding[q])
    BY SameMonotone DEF Inv, HeadsOK
  <2>2. ~Linked(q)' => ~Linked(q) /\ q # Home[w]
    BY DEF Linked
  <2>3. ~Linked(q) => /\ binding[q].head = None
                      /\ ~binding[q].enabled /\ lease[q].holder = None
    BY DEF Inv, UnlinkedOK
  <2> QED BY <1>2, <2>1, <2>2, <2>3
<1> QED BY <1>3, <1>4 DEF Kept, HeadsOK, UnlinkedOK

\* The link of r starts again from nothing.
LEMMA Restart ==
    ASSUME Inv, NEW r \in Replicas, UNCHANGED run,
           NEW b \in Binding, binding' = [binding EXCEPT ![r] = b],
           b.head = None, ~b.enabled, lease'[r].holder = None,
           b.phase = "unlinked" \/ binding[r].head = None,
           \A q \in Replicas \ {r} : lease'[q] = lease[q]
    PROVE  Kept
<1>1. /\ binding'[r] = b
      /\ \A q \in Replicas \ {r} : binding'[q] = binding[q]
  BY DEF Inv, TypeOK
<1>2. ASSUME NEW v \in Workers, Holds(v)'
      PROVE  HolderOK(binding'[Home[v]], run'[v])
  <2>1. Home[v] \in Replicas \ {r}
    BY <1>2, HomeType DEF Holds
  <2>2. Holds(v)
    BY <1>2, <2>1 DEF Holds
  <2> QED BY <1>1, <2>1, <2>2 DEF Inv, HeadsOK
<1>3. ASSUME NEW q \in Replicas
      PROVE  /\ Consistent(binding'[q]) /\ MonotoneStep(binding[q], binding'[q])
             /\ ~Linked(q)' => /\ binding'[q].head = None
                               /\ ~binding'[q].enabled /\ lease'[q].holder = None
  <2>1. CASE q = r
    BY <1>1, <2>1 DEF Consistent, MonotoneStep
  <2>2. CASE q # r
    <3>1. binding'[q] = binding[q] /\ lease'[q] = lease[q]
      BY <1>1, <2>2
    <3>2. Consistent(binding'[q]) /\ MonotoneStep(binding[q], binding'[q])
      BY <3>1, SameMonotone DEF Inv, HeadsOK
    <3>3. ~Linked(q)' => ~Linked(q)
      BY <3>1 DEF Linked
    <3> QED BY <3>1, <3>2, <3>3 DEF Inv, UnlinkedOK
  <2> QED BY <2>1, <2>2
<1> QED BY <1>2, <1>3 DEF Kept, HeadsOK, UnlinkedOK

-----------------------------------------------------------------------------
(***************************************************************************)
(* Quiet steps.                                                            *)
(***************************************************************************)
\* The end of a request, and the note a failed one leaves in the phase.
LEMMA EndIsQuiet ==
    ASSUME Inv, NEW w \in Workers, End(w)
    PROVE  NoNewHolder /\ \A v \in Workers : run'[v] = run[v] \/ HolderOK(binding[Home[v]], run'[v])
<1>1. NoNewHolder
  BY HomeType DEF Inv, TypeOK, End, Released, FreeLease, NoNewHolder
<1>2. \A v \in Workers : run'[v] = run[v] \/ run'[v] = IdleRun
  BY DEF Inv, TypeOK, End
<1> QED BY <1>1, <1>2, IdleHolder

LEMMA FailIsQuiet ==
    ASSUME Inv, NEW w \in Workers, Fail(w)
    PROVE  Kept
<1>1. \A q \in Replicas : Quiet(q)
  BY HomeType DEF Inv, TypeOK, Fail, Noted, Quiet, Linked, Binding
<1> QED BY <1>1, EndIsQuiet, QuietStep DEF Fail

LEMMA EndKept ==
    ASSUME Inv, NEW w \in Workers, End(w), \A q \in Replicas : Quiet(q)
    PROVE  Kept
BY EndIsQuiet, QuietStep

LEMMA StillQuiet ==
    ASSUME UNCHANGED binding
    PROVE  \A q \in Replicas : Quiet(q)
BY DEF Quiet

\* A request that goes on, quietly.
LEMMA MoveKept ==
    ASSUME Inv, NEW w \in Workers, NEW y, run' = [run EXCEPT ![w] = y], UNCHANGED lease,
           \A q \in Replicas : Quiet(q), Holds(w) => HolderOK(binding[Home[w]], y)
    PROVE  Kept
<1>1. NoNewHolder
  BY DEF NoNewHolder
<1>2. \A v \in Workers : \/ run'[v] = run[v]
                         \/ Holds(v)' => HolderOK(binding[Home[v]], run'[v])
  BY DEF Inv, TypeOK, Holds
<1> QED BY <1>1, <1>2, QuietStep

LEMMA UserKept ==
    ASSUME Inv, NEW r \in Replicas, UserStep(r) \/ Expire(r)
    PROVE  Kept
<1>1. CASE UNCHANGED <<binding, run>> /\ NoNewHolder
  BY <1>1, StillQuiet, QuietStep
<1>2. CASE \E k \in Keys : Edit(r, k) \/ Remove(r, k)
  BY <1>1, <1>2 DEF Edit, Remove, UserWrites, NoNewHolder
<1>3. CASE Expire(r)
  <2>1. NoNewHolder
    BY <1>3 DEF Expire, NoNewHolder, Inv, TypeOK, Lease, FreeLease
  <2> QED BY <1>1, <1>3, <2>1 DEF Expire
<1>4. CASE Enable(r) \/ Pause(r)
  <2>1. PICK e \in BOOLEAN : binding' = [binding EXCEPT ![r].enabled = e]
    BY <1>4 DEF Enable, Pause
  <2>2. binding[r] \in Binding /\ Linked(r)
    BY <1>4 DEF Enable, Pause, Inv, TypeOK
  <2>3. /\ binding'[r] = [binding[r] EXCEPT !.enabled = e]
        /\ \A q \in Replicas \ {r} : binding'[q] = binding[q]
    BY <2>1 DEF Inv, TypeOK
  <2>4. \A q \in Replicas : Quiet(q)
    BY <2>2, <2>3 DEF Quiet, Linked, Binding
  <2> QED BY <1>4, <2>4, QuietStep DEF Enable, Pause, NoNewHolder
<1>5. CASE Unlink(r)
  <2>1. lease'[r].holder = None /\ \A q \in Replicas \ {r} : lease'[q] = lease[q]
    BY <1>5 DEF Unlink, FreeLease, Inv, TypeOK
  <2> QED BY <1>5, <2>1, Restart, UnlinkedType DEF Unlink, Unlinked
<1> QED BY <1>2, <1>3, <1>4, <1>5 DEF UserStep

LEMMA LinkKept ==
    ASSUME Inv, NEW r \in Replicas, LinkStep(r)
    PROVE  Kept
<1>1. binding[r].phase \in {"unlinked", "probing"} =>
          binding[r].head = None /\ lease[r].holder = None
  BY DEF Inv, UnlinkedOK, Linked
<1>2. ASSUME NEW origin \in {"create", "join"}, LinkBegin(r, origin)
      PROVE  Kept
  <2> DEFINE b == [Unlinked EXCEPT !.phase = "probing", !.origin = origin]
  <2>1. b \in Binding /\ b.head = None /\ ~b.enabled
    BY UnlinkedType DEF Unlinked, Binding, Phases
  <2> HIDE DEF b
  <2>2. binding' = [binding EXCEPT ![r] = b] /\ UNCHANGED <<lease, run>>
    BY <1>2 DEF LinkBegin, b
  <2> QED BY <1>1, <1>2, <2>1, <2>2, Restart DEF LinkBegin
<1>3. CASE LinkDone(r)
  <2>1. \A q \in Replicas : Quiet(q)
    BY <1>3 DEF LinkDone, Quiet, Linked, Inv, TypeOK, Binding
  <2> QED BY <1>3, <2>1, QuietStep DEF LinkDone, NoNewHolder
<1>4. CASE LinkAbort(r)
  BY <1>1, <1>4, Restart, UnlinkedType DEF LinkAbort, Unlinked
<1> QED BY <1>2, <1>3, <1>4 DEF LinkStep

LEMMA FaultKept ==
    ASSUME Inv,
           \/ \E w \in Workers : RequestFails(w) \/ PutFails(w)
           \/ \E r \in Replicas : Crash(r)
           \/ CloudRollback \/ CloudLoss
    PROVE  Kept
<1>1. ASSUME NEW w \in Workers, RequestFails(w) \/ PutFails(w)
      PROVE  Kept
  BY <1>1, EndKept, StillQuiet, FailIsQuiet DEF RequestFails, PutFails
<1>2. ASSUME NEW r \in Replicas, Crash(r)
      PROVE  Kept
  <2>1. \A v \in Workers : run'[v] = run[v] \/ HolderOK(binding[Home[v]], run'[v])
    BY <1>2, IdleHolder DEF Crash, Inv, TypeOK
  <2> QED BY <1>2, <2>1, StillQuiet, QuietStep DEF Crash, NoNewHolder
<1>3. CASE CloudRollback \/ CloudLoss
  BY <1>3, StillQuiet, QuietStep DEF CloudRollback, CloudLoss, NoNewHolder
<1> QED BY <1>1, <1>2, <1>3

\* A head that has not regressed may follow what is accepted.
LEMMA FetchedFollows ==
    ASSUME NEW b \in Binding, Consistent(b), NEW d \in Doc, ~Regressed(b, d)
    PROVE  Follows(b, d)
<1> DEFINE base == [gen |-> b.baseline.gen, content |-> b.baseline.content]
           head == [gen |-> b.head.gen, content |-> Content(b.head)]
<1>1. /\ b.head # None => b.head \in Doc /\ b.head.gen \in Nat /\ b.head.gen # None
      /\ b.baseline # None => b.baseline \in Baseline
      /\ b.baseline # None /\ b.baseline.gen # None => b.baseline.gen \in Nat
      /\ d.gen \in Nat
  BY NoneAssumption DEF Binding, MaybeDoc, Doc, Baseline
<1>2. /\ b.head # None => head \in Marks(b)
      /\ b.baseline # None /\ b.baseline.gen # None => base \in Marks(b)
      /\ \A m \in Marks(b) : \/ b.head # None /\ m = head
                             \/ b.baseline # None /\ b.baseline.gen # None /\ m = base
  BY <1>1 DEF Marks
<1>3. \A m \in Marks(b) : ~(d.gen < m.gen)
  BY DEF Regressed
<1>4. (\E m \in Marks(b) : d.gen = m.gen)
         => \E m \in Marks(b) : d.gen = m.gen /\ Content(d) = m.content
  BY DEF Regressed
<1>5. b.head # None => b.head.gen <= d.gen
  BY <1>1, <1>2, <1>3
<1>6. b.baseline # None /\ b.baseline.gen # None => b.baseline.gen <= d.gen
  BY <1>1, <1>2, <1>3
<1>7. b.head # None /\ b.head.gen = d.gen => Content(b.head) = Content(d)
  BY <1>2, <1>4 DEF Consistent
<1>8. b.baseline # None /\ b.baseline.gen # None /\ b.baseline.gen = d.gen
          => b.baseline.content = Content(d)
  BY <1>2, <1>4 DEF Consistent
<1> QED BY <1>5, <1>6, <1>7, <1>8 DEF Follows

LEMMA FetchKept ==
    ASSUME Inv, NEW w \in Workers, FetchHead(w)
    PROVE  Kept
<1> DEFINE r == Home[w]
           b == binding[r]
           reply == HeadReply(b)
           y == [run[w] EXCEPT !.pc = "plan", !.remote = reply, !.seen = b]
<1>1. b \in Binding /\ Consistent(b) /\ reply \in Reply /\ run[w] \in Run
  BY HomeType, ReplyType DEF Inv, TypeOK, HeadsOK
<1>2. CASE ~RefusedReply(b, reply) /\ run' = [run EXCEPT ![w] = y] /\ UNCHANGED <<binding, lease>>
  <2> HIDE DEF b, reply
  <2>1. y.pc = "plan" /\ y.remote = reply /\ y.seen = b
    BY <1>1 DEF Run
  <2>2. reply.doc # None => Follows(b, reply.doc)
    BY <1>1, <1>2, FetchedFollows DEF RefusedReply, Reply, MaybeDoc
  <2>3. reply.doc = None => b.baseline = None
    BY <1>2 DEF RefusedReply
  <2> HIDE DEF y
  <2>4. HolderOK(b, y)
    BY <2>1, <2>2, <2>3 DEF HolderOK
  <2> QED BY <1>2, <2>4, MoveKept, StillQuiet DEF b
<1>3. CASE Fail(w)
  BY <1>3, FailIsQuiet
<1> QED BY <1>2, <1>3 DEF FetchHead

\* What the holder of the lease knows at its step.
LEMMA HolderKnows ==
    ASSUME Inv, NEW w \in Workers, Holds(w)
    PROVE  HolderOK(binding[Home[w]], run[w])
BY DEF Inv, HeadsOK

LEMMA PlanKept ==
    ASSUME Inv, NEW w \in Workers, PlanRecommit(w) \/ PlanRetry(w) \/ PlanMerge(w)
    PROVE  Kept
<1> DEFINE r == Home[w]
           x == run[w]
<1>1. x \in Run /\ x.pc = "plan" /\ (Holds(w) => HolderOK(binding[r], x))
  BY HolderKnows DEF Inv, TypeOK, PlanRecommit, PlanRetry, PlanMerge, At
<1>2. CASE PlanRecommit(w)
  <2> DEFINE y == [x EXCEPT !.pc = "settle", !.skip = {k \in Keys : open[r][k] # None}]
  <2>1. x.remote.doc # None
    BY <1>2 DEF PlanRecommit, Recovery, RecoverPublication, SameHead
  <2>2. y.pc = "settle" /\ y.remote = x.remote
    BY <1>1 DEF Run
  <2>3. run' = [run EXCEPT ![w] = y]
    BY <1>2 DEF PlanRecommit
  <2> HIDE DEF y
  <2>4. Holds(w) => HolderOK(binding[r], y)
    BY <1>1, <2>1, <2>2 DEF HolderOK
  <2> QED BY <1>2, <2>3, <2>4, MoveKept, StillQuiet DEF PlanRecommit
<1>3. CASE PlanRetry(w)
  <2> DEFINE y == [x EXCEPT !.pc = "retry-put", !.sent = TRUE]
  <2>1. y.pc = "retry-put"
    BY <1>1 DEF Run
  <2>2. run' = [run EXCEPT ![w] = y]
    BY <1>3 DEF PlanRetry
  <2> HIDE DEF y
  <2>3. HolderOK(binding[r], y)
    BY <2>1 DEF HolderOK
  <2> QED BY <1>3, <2>2, <2>3, MoveKept, StillQuiet DEF PlanRetry
<1>4. CASE PlanMerge(w)
  <2> DEFINE plan == Merged(r, x)
             next == [x EXCEPT !.cap = Local(r), !.plan = plan,
                               !.skip = KeysOf(plan, {"conflict"})]
             y == [next EXCEPT !.pc = AfterPlan(next)]
  <2>1. AfterPlan(next) \in {"apply", "remember", "anchor", "accept", "build", "finish"}
    BY DEF AfterPlan, AfterApply, AfterRemember, Onward
  <2>2. y.pc = AfterPlan(next) /\ y.remote = x.remote /\ y.seen = x.seen
    BY <1>1 DEF Run
  <2>3. CASE run' = [run EXCEPT ![w] = y] /\ UNCHANGED <<binding, lease>>
    <3> HIDE DEF y, next
    <3>1. Holds(w) => HolderOK(binding[r], y)
      BY <1>1, <2>1, <2>2 DEF HolderOK
    <3> QED BY <2>3, <3>1, MoveKept, StillQuiet
  <2>4. CASE Fail(w)
    BY <2>4, FailIsQuiet
  <2> QED BY <1>4, <2>3, <2>4 DEF PlanMerge
<1> QED BY <1>2, <1>3, <1>4

LEMMA RememberKept ==
    ASSUME Inv, NEW w \in Workers, Remember(w)
    PROVE  Kept
<1> DEFINE x == run[w]
           y == [x EXCEPT !.pc = AfterRemember(x)]
<1>1. x \in Run /\ x.pc = "remember" /\ (Holds(w) => HolderOK(binding[Home[w]], x))
  BY HolderKnows DEF Inv, TypeOK, Remember, At
<1>2. AfterRemember(x) \in {"anchor", "build", "finish", "accept"}
  BY DEF AfterRemember, Onward
<1>3. y.pc = AfterRemember(x) /\ y.remote = x.remote /\ y.seen = x.seen
  BY <1>1 DEF Run
<1>4. run' = [run EXCEPT ![w] = y]
  BY DEF Remember, Goto, Inv, TypeOK
<1> HIDE DEF y
<1>5. Holds(w) => HolderOK(binding[Home[w]], y)
  BY <1>1, <1>2, <1>3 DEF HolderOK
<1> QED BY <1>4, <1>5, MoveKept, StillQuiet DEF Remember

\* The document of a cycle is newer than everything its replica has accepted.
LEMMA BuildKept ==
    ASSUME Inv, NEW w \in Workers, Build(w) \/ BuildStops(w)
    PROVE  Kept
<1> DEFINE r == Home[w]
           x == run[w]
           b == binding[r]
           y == [x EXCEPT !.pc = "journal", !.doc = Built(w), !.cap = Local(r)]
<1>1. /\ x \in Run /\ x.pc = "build" /\ b \in Binding
      /\ Holds(w) => HolderOK(b, x)
  BY HolderKnows, HomeType DEF Inv, TypeOK, Build, BuildStops, At
<1>2. ASSUME Holds(w)
      PROVE  Precedes(b, Built(w))
  <2>1. Built(w).gen = 1 + IF x.remote.doc = None
                          THEN (IF x.seen.head = None THEN 0 ELSE x.seen.head.gen)
                          ELSE x.remote.doc.gen
    BY DEF Built
  <2>2. /\ b.head # None => b.head.gen \in Nat
        /\ b.baseline # None /\ b.baseline.gen # None => b.baseline.gen \in Nat
    BY <1>1 DEF Binding, MaybeDoc, Doc, Baseline
  <2>3. CASE x.remote.doc # None
    <3>1. x.remote.doc.gen \in Nat /\ Follows(b, x.remote.doc)
      BY <1>1, <1>2, <2>3 DEF HolderOK, Run, Reply, MaybeDoc, Doc
    <3> QED BY <2>1, <2>2, <2>3, <3>1 DEF Follows, Precedes
  <2>4. CASE x.remote.doc = None
    <3>1. b.baseline = None /\ x.seen.head = b.head
      BY <1>1, <1>2, <2>4 DEF HolderOK
    <3> QED BY <2>1, <2>2, <2>4, <3>1 DEF Precedes
  <2> QED BY <2>3, <2>4
<1>3. CASE Build(w)
  <2>1. y.pc = "journal" /\ y.doc = Built(w)
    BY <1>1 DEF Run
  <2>2. run' = [run EXCEPT ![w] = y]
    BY <1>3 DEF Build
  <2> HIDE DEF y
  <2>3. Holds(w) => HolderOK(b, y)
    BY <1>2, <2>1 DEF HolderOK
  <2> QED BY <1>3, <2>2, <2>3, MoveKept, StillQuiet DEF Build
<1>4. CASE BuildStops(w)
  BY <1>4, EndKept, StillQuiet DEF BuildStops
<1> QED BY <1>3, <1>4

\* Only the journal of the binding changes.
LEMMA JournalQuiet ==
    ASSUME Inv, NEW r \in Replicas, NEW pending,
           binding' = [binding EXCEPT ![r].pending = pending] \/ UNCHANGED binding
    PROVE  \A q \in Replicas : Quiet(q)
<1>1. binding[r] \in Binding /\ binding \in [Replicas -> Binding]
  BY DEF Inv, TypeOK
<1> QED BY <1>1 DEF Quiet, Binding

LEMMA JournalKept ==
    ASSUME Inv, NEW w \in Workers, Journal(w)
    PROVE  Kept
<1> DEFINE r == Home[w]
           x == run[w]
           y == [x EXCEPT !.pc = "put", !.sent = TRUE]
<1>1. x \in Run /\ x.pc = "journal" /\ (Holds(w) => HolderOK(binding[r], x))
  BY HolderKnows DEF Inv, TypeOK, Journal, At
<1>2. \A q \in Replicas : Quiet(q)
  BY JournalQuiet, HomeType DEF Journal, End
<1>3. CASE Local(r) = x.cap
  <2>1. y.pc = "put" /\ y.doc = x.doc
    BY <1>1 DEF Run
  <2>2. run' = [run EXCEPT ![w] = y] /\ UNCHANGED lease
    BY <1>3 DEF Journal
  <2> HIDE DEF y
  <2>3. Holds(w) => HolderOK(binding[r], y)
    BY <1>1, <2>1 DEF HolderOK
  <2> QED BY <1>2, <2>2, <2>3, MoveKept
<1>4. CASE Local(r) # x.cap
  BY <1>2, <1>4, EndKept DEF Journal
<1> QED BY <1>3, <1>4

LEMMA PutKept ==
    ASSUME Inv, NEW w \in Workers,
           PutHead(w) \/ PutHeadAckLost(w) \/ PutHeadLost(w) \/ PutHeadStopped(w)
    PROVE  Kept
<1> DEFINE r == Home[w]
           x == run[w]
<1>1. x \in Run /\ x.pc = "put" /\ (Holds(w) => HolderOK(binding[r], x))
  BY HolderKnows DEF Inv, TypeOK, PutHead, PutHeadAckLost, PutHeadLost, PutHeadStopped, At
<1>2. CASE PutHead(w)
  <2> DEFINE y == [x EXCEPT !.pc = "confirm"]
  <2>1. y.pc = "confirm" /\ y.doc = x.doc
    BY <1>1 DEF Run
  <2>2. run' = [run EXCEPT ![w] = y]
    BY <1>2 DEF PutHead, Goto, Inv, TypeOK
  <2> HIDE DEF y
  <2>3. Holds(w) => HolderOK(binding[r], y)
    BY <1>1, <2>1 DEF HolderOK
  <2> QED BY <1>2, <2>2, <2>3, MoveKept, StillQuiet DEF PutHead
<1>3. CASE PutHeadLost(w)
  <2> DEFINE passes == x.passes + 1
             y == [IdleRun EXCEPT !.pc = "fetch", !.passes = passes]
  <2>1. \A q \in Replicas : Quiet(q)
    BY <1>3, JournalQuiet, HomeType DEF PutHeadLost
  <2>2. HolderOK(binding[r], y)
    BY DEF HolderOK, IdleRun
  <2>3. \/ run' = [run EXCEPT ![w] = y] /\ UNCHANGED lease
        \/ End(w)
    BY <1>3 DEF PutHeadLost
  <2> HIDE DEF y
  <2> QED BY <2>1, <2>2, <2>3, MoveKept, EndKept
<1>4. CASE PutHeadAckLost(w) \/ PutHeadStopped(w)
  BY <1>4, FailIsQuiet DEF PutHeadAckLost, PutHeadStopped
<1> QED BY <1>2, <1>3, <1>4

LEMMA StartKept ==
    ASSUME Inv, NEW w \in Workers, StartCycle(w) \/ ResolveLease(w)
    PROVE  Kept
<1>1. run[w] \in Run /\ Home[w] \in Replicas
  BY HomeType DEF Inv, TypeOK
<1>2. CASE StartCycle(w)
  <2>1. run' = [run EXCEPT ![w].pc = "fetch"]
    BY <1>2 DEF StartCycle, Goto
  <2>2. run'[w].pc = "fetch" /\ \A v \in Workers \ {w} : run'[v] = run[v]
    BY <1>1, <2>1 DEF Inv, TypeOK, Run
  <2> QED BY <1>2, <2>2, TakeLease DEF StartCycle
<1>3. CASE ResolveLease(w) /\ ~UNCHANGED lease
  <2> DEFINE conflict == open[Home[w]][run[w].key]
             y == [run[w] EXCEPT !.pc = "resolve-fetch", !.images = conflict]
  <2>1. /\ binding[Home[w]].enabled /\ UNCHANGED binding
        /\ lease' = [lease EXCEPT ![Home[w]] = [holder |-> w, live |-> TRUE]]
        /\ run' = [run EXCEPT ![w] = y]
    BY <1>3 DEF ResolveLease
  <2>2. Linked(Home[w])
    BY <1>1, <2>1 DEF Inv, UnlinkedOK
  <2>3. y.pc = "resolve-fetch"
    BY <1>1 DEF Run
  <2> HIDE DEF y
  <2>4. run'[w].pc = "resolve-fetch" /\ \A v \in Workers \ {w} : run'[v] = run[v]
    BY <2>1, <2>3 DEF Inv, TypeOK
  <2> QED BY <2>1, <2>2, <2>4, TakeLease
<1>4. CASE ResolveLease(w) /\ UNCHANGED lease
  <2>1. CASE run' = [run EXCEPT ![w] = IdleRun]
    BY <1>4, <2>1, IdleHolder, MoveKept, StillQuiet DEF ResolveLease
  <2>2. CASE run' = [run EXCEPT ![w] = [run[w] EXCEPT !.pc = "resolve-fetch",
                                        !.images = open[Home[w]][run[w].key]]]
    <3> DEFINE y == [run[w] EXCEPT !.pc = "resolve-fetch",
                                   !.images = open[Home[w]][run[w].key]]
    <3>1. HolderOK(binding[Home[w]], y)
      BY <1>1 DEF Run, HolderOK
    <3> HIDE DEF y
    <3> QED BY <1>4, <2>2, <3>1, MoveKept, StillQuiet DEF ResolveLease, y
  <2> QED BY <1>4, <2>1, <2>2 DEF ResolveLease
<1> QED BY <1>2, <1>3, <1>4

-----------------------------------------------------------------------------
(***************************************************************************)
(* Steps by which the holder of the lease moves the head or the baseline.  *)
(***************************************************************************)
LEMMA HolderWrites ==
    ASSUME Inv, NoNewHolder, NEW w \in Workers, Holds(w),
           NEW c, binding' = [binding EXCEPT ![Home[w]] = c],
           c.phase \notin {"unlinked", "probing"}, Consistent(c),
           NEW y, run' = [run EXCEPT ![w] = y], HolderOK(c, y),
           MonotoneStep(binding[Home[w]], c)
    PROVE  Kept
<1>1. /\ binding'[Home[w]] = c
      /\ \A q \in Replicas \ {Home[w]} : binding'[q] = binding[q]
  BY HomeType DEF Inv, TypeOK
<1>2. run'[w] = y /\ \A v \in Workers \ {w} : run'[v] = run[v]
  BY DEF Inv, TypeOK
<1>3. Linked(Home[w])'
  BY <1>1 DEF Linked
<1> QED BY <1>1, <1>2, <1>3, HolderStep

LEMMA AcceptedFollows ==
    ASSUME NEW b \in Binding, NEW reply \in Reply, reply.doc # None, Follows(b, reply.doc)
    PROVE  LET c == Accepted(b, reply)
           IN  /\ c.phase = b.phase
               /\ Consistent(c) /\ Follows(c, reply.doc) /\ MonotoneStep(b, c)
<1> DEFINE c == Accepted(b, reply)
<1>1. reply.doc \in Doc /\ reply.doc.gen \in Nat
  BY DEF Reply, MaybeDoc, Doc
<1>2. /\ c.head = reply.doc /\ c.phase = b.phase
      /\ c.baseline # None => /\ c.baseline.content = Content(reply.doc)
                              /\ c.baseline.gen = reply.doc.gen
  BY DEF Accepted, Binding
<1> HIDE DEF c
<1> QED BY <1>1, <1>2 DEF Consistent, Follows, MonotoneStep, c

LEMMA ApplyKept ==
    ASSUME Inv, NEW w \in Workers, Apply(w) \/ ApplyAckLost(w)
    PROVE  Kept
<1> DEFINE r == Home[w]
           x == run[w]
           b == binding[r]
           c == Accepted(b, x.remote)
<1>1. /\ x \in Run /\ b \in Binding /\ x.remote \in Reply /\ x.remote.doc # None
      /\ x.pc = "apply" /\ r \in Replicas
  BY HomeType DEF Inv, TypeOK, RequestsOK, RequestOK, Apply, ApplyAckLost, At, Run
<1>2. ASSUME MayApply(w)
      PROVE  /\ Holds(w) /\ Linked(r) /\ c.phase = b.phase
             /\ Consistent(c) /\ Follows(c, x.remote.doc) /\ MonotoneStep(b, c)
  <2>1. Holds(w) /\ Linked(r)
    BY <1>2, LinkedHolder DEF MayApply, Guarded, Inv
  <2>2. Follows(b, x.remote.doc)
    BY <1>1, <2>1, HolderKnows DEF HolderOK
  <2> QED BY <1>1, <2>1, <2>2, AcceptedFollows
<1>3. CASE Apply(w) /\ MayApply(w)
  <2> DEFINE y == [x EXCEPT !.pc = AfterApply(x)]
  <2>1. AfterApply(x) \in {"remember", "anchor", "accept", "build", "finish"}
    BY DEF AfterApply, AfterRemember, Onward
  <2>2. y.pc = AfterApply(x) /\ y.remote = x.remote
    BY <1>1 DEF Run
  <2>3. binding' = [binding EXCEPT ![r] = c] /\ UNCHANGED lease
    BY <1>3 DEF Apply, Inv, TypeOK
  <2>4. run' = [run EXCEPT ![w] = y]
    BY <1>3 DEF Apply, Goto, Inv, TypeOK
  <2> HIDE DEF y, c
  <2>5. HolderOK(c, y)
    BY <1>1, <1>2, <1>3, <2>1, <2>2 DEF HolderOK
  <2> QED BY <1>2, <1>3, <2>3, <2>4, <2>5, HolderWrites DEF NoNewHolder, Linked
<1>4. CASE Apply(w) /\ ~MayApply(w)
  BY <1>4, FailIsQuiet DEF Apply
<1>5. CASE ApplyAckLost(w)
  <2> DEFINE d == [c EXCEPT !.phase = "publication_unknown"]
  <2>1. d.phase = "publication_unknown" /\ d.head = c.head /\ d.baseline = c.baseline
    BY <1>1, AcceptedType DEF Binding
  <2>2. binding' = [binding EXCEPT ![r] = d]
    BY <1>5 DEF ApplyAckLost, Inv, TypeOK
  <2> HIDE DEF d, c
  <2>3. Consistent(d) /\ MonotoneStep(b, d)
    <3>1. Consistent(c) /\ MonotoneStep(b, c) /\ c.phase # "unlinked"
      BY <1>2, <1>5 DEF ApplyAckLost, Linked
    <3> QED BY <2>1, <3>1 DEF Consistent, MonotoneStep
  <2>4. run' = [run EXCEPT ![w] = IdleRun] /\ NoNewHolder
    BY <1>5, EndIsQuiet DEF ApplyAckLost, End
  <2> QED BY <1>2, <1>5, <2>1, <2>2, <2>3, <2>4, IdleHolder, HolderWrites DEF ApplyAckLost
<1> QED BY <1>3, <1>4, <1>5

LEMMA AcceptKept ==
    ASSUME Inv, NEW w \in Workers, Accept(w)
    PROVE  Kept
<1> DEFINE r == Home[w]
           x == run[w]
           b == binding[r]
           c == Accepted(b, x.remote)
           y == [x EXCEPT !.pc = Onward(x)]
<1>1. /\ x \in Run /\ b \in Binding /\ x.remote \in Reply /\ x.remote.doc # None
      /\ x.pc = "accept" /\ r \in Replicas
      /\ Holds(w) => Linked(r) /\ Follows(b, x.remote.doc)
  BY HomeType, LinkedHolder, HolderKnows
  DEF Inv, TypeOK, RequestsOK, RequestOK, Accept, At, Run, HolderOK
<1>2. y.pc = Onward(x) /\ Onward(x) \in {"build", "finish"} /\ y.remote = x.remote
  BY <1>1 DEF Run, Onward
<1>3. run' = [run EXCEPT ![w].pc = Onward(x)] => run' = [run EXCEPT ![w] = y]
  BY DEF Inv, TypeOK
<1>4. CASE Goto(w, Onward(x)) /\ UNCHANGED <<binding, lease>>
  <2>1. Holds(w) => HolderOK(b, y)
    BY <1>1, <1>2 DEF HolderOK
  <2> HIDE DEF y
  <2> QED BY <1>3, <1>4, <2>1, MoveKept, StillQuiet DEF Goto
<1>5. CASE /\ Guarded(w) /\ binding' = [binding EXCEPT ![r] = Accepted(@, x.remote)]
           /\ Goto(w, Onward(x)) /\ UNCHANGED lease
  <2>1. /\ Holds(w) /\ c.phase = b.phase
        /\ Consistent(c) /\ Follows(c, x.remote.doc) /\ MonotoneStep(b, c)
    BY <1>1, <1>5, AcceptedFollows DEF Guarded
  <2>2. binding' = [binding EXCEPT ![r] = c]
    BY <1>5 DEF Inv, TypeOK
  <2> HIDE DEF c, y
  <2>3. HolderOK(c, y)
    BY <1>1, <1>2, <2>1 DEF HolderOK
  <2> QED BY <1>1, <1>3, <1>5, <2>1, <2>2, <2>3, HolderWrites DEF NoNewHolder, Linked, Goto
<1>6. CASE Fail(w)
  BY <1>6, FailIsQuiet
<1> QED BY <1>4, <1>5, <1>6 DEF Accept

\* The first merge of a replica accepts the head it has fetched, whatever came before.
LEMMA AnchorKept ==
    ASSUME Inv, NEW w \in Workers, Anchor(w)
    PROVE  Kept
<1> DEFINE r == Home[w]
           x == run[w]
           b == binding[r]
           waiting == KeysOf(x.plan, {"pending-local", "conflict"})
           phase == IF waiting = {} THEN "linked" ELSE "bootstrap"
           c == [Anchored(b, Content(x.remote.doc), x.remote.doc.gen) EXCEPT
                   !.etag = x.remote.etag, !.head = x.remote.doc, !.pending = b.pending,
                   !.phase = phase]
           y == [x EXCEPT !.pc = "finish"]
<1>1. /\ x \in Run /\ b \in Binding /\ x.remote.doc \in Doc /\ x.remote.doc # None
      /\ x.pc = "anchor" /\ r \in Replicas
      /\ Holds(w) => Linked(r) /\ Follows(b, x.remote.doc)
  BY HomeType, LinkedHolder, HolderKnows
  DEF Inv, TypeOK, RequestsOK, RequestOK, Anchor, At, Run, Reply, MaybeDoc, HolderOK
<1>2. run' = [run EXCEPT ![w] = y] /\ UNCHANGED lease
  BY DEF Anchor, Goto, Inv, TypeOK
<1>3. y.pc = "finish"
  BY <1>1 DEF Run
<1>4. /\ c.phase = phase /\ c.head = x.remote.doc
      /\ c.baseline = [content |-> Content(x.remote.doc), gen |-> x.remote.doc.gen]
  BY <1>1 DEF Anchored, Binding
<1>5. CASE Holds(w)
  <2>1. binding' = [binding EXCEPT ![r] = c]
    BY <1>5 DEF Anchor, Inv, TypeOK
  <2> HIDE DEF y, c
  <2>2. HolderOK(c, y)
    BY <1>3 DEF HolderOK
  <2>3. Consistent(c) /\ MonotoneStep(b, c)
    BY <1>1, <1>4, <1>5 DEF Consistent, Follows, MonotoneStep, Doc
  <2> QED BY <1>2, <1>4, <1>5, <2>1, <2>2, <2>3, HolderWrites DEF NoNewHolder
<1>6. CASE ~Holds(w)
  <2>1. UNCHANGED binding
    BY <1>6 DEF Anchor
  <2> HIDE DEF y
  <2> QED BY <1>2, <1>6, <2>1, MoveKept, StillQuiet
<1> QED BY <1>5, <1>6

\* The confirmed head is newer than the accepted one, and the baseline is older still.
LEMMA ConfirmKept ==
    ASSUME Inv, NEW w \in Workers, Confirm(w)
    PROVE  Kept
<1> DEFINE r == Home[w]
           x == run[w]
           b == binding[r]
           journal == IF b.pending = None THEN None ELSE [b.pending EXCEPT !.applied = TRUE]
           c == [b EXCEPT !.etag = cur, !.head = x.doc, !.pending = journal]
           reply == [doc |-> x.doc, etag |-> cur]
           y == [x EXCEPT !.pc = "settle", !.remote = reply]
<1>1. /\ x \in Run /\ b \in Binding /\ x.doc \in Doc /\ x.doc # None
      /\ x.pc = "confirm" /\ r \in Replicas
      /\ Holds(w) => Linked(r) /\ Precedes(b, x.doc)
  BY HomeType, LinkedHolder, HolderKnows
  DEF Inv, TypeOK, RequestsOK, RequestOK, Confirm, At, Run, MaybeDoc, HolderOK
<1>2. CASE Holds(w) /\ binding' = [binding EXCEPT ![r] = c]
           /\ run' = [run EXCEPT ![w] = y] /\ UNCHANGED lease
  <2>1. c.head = x.doc /\ c.baseline = b.baseline /\ c.phase = b.phase
    BY <1>1 DEF Binding
  <2>2. y.pc = "settle" /\ y.remote.doc = x.doc
    BY <1>1 DEF Run
  <2>3. x.doc.gen \in Nat /\ (b.head # None => b.head.gen \in Nat)
        /\ (b.baseline # None /\ b.baseline.gen # None => b.baseline.gen \in Nat)
    BY <1>1 DEF Binding, MaybeDoc, Doc, Baseline
  <2>4. x.doc.gen # None
    BY <2>3, NoneAssumption
  <2> HIDE DEF c, y
  <2>5. Precedes(b, x.doc)
    BY <1>1, <1>2
  <2>6. Follows(c, x.doc)
    BY <1>1, <2>1, <2>3, <2>5 DEF Follows, Precedes
  <2>7. Consistent(c)
    BY <1>1, <2>1, <2>3, <2>4, <2>5 DEF Consistent, Precedes
  <2>8. MonotoneStep(b, c)
    BY <1>1, <2>1, <2>3, <2>5 DEF MonotoneStep, Precedes
  <2>9. HolderOK(c, y)
    BY <2>2, <2>6 DEF HolderOK
  <2> QED BY <1>1, <1>2, <2>1, <2>7, <2>8, <2>9, HolderWrites DEF NoNewHolder, Linked
<1>3. CASE End(w) /\ UNCHANGED binding
  BY <1>3, EndKept, StillQuiet
<1>4. CASE Fail(w)
  BY <1>4, FailIsQuiet
<1>5. \/ Holds(w) /\ binding' = [binding EXCEPT ![r] = c]
         /\ run' = [run EXCEPT ![w] = y] /\ UNCHANGED lease
      \/ End(w) /\ UNCHANGED binding
      \/ Fail(w)
  BY DEF Confirm, Gate, Inv, TypeOK
<1> QED BY <1>2, <1>3, <1>4, <1>5

LEMMA SettleKept ==
    ASSUME Inv, NEW w \in Workers, Settle(w)
    PROVE  Kept
<1> DEFINE r == Home[w]
           x == run[w]
           b == binding[r]
           document == x.remote.doc
           c == [Anchored(b, Content(document), document.gen) EXCEPT
                   !.etag = x.remote.etag, !.head = document]
           y == [x EXCEPT !.pc = "finish"]
<1>1. /\ x \in Run /\ b \in Binding /\ document \in Doc /\ document # None
      /\ x.pc = "settle" /\ r \in Replicas
      /\ Holds(w) => Follows(b, document)
  BY HomeType, HolderKnows
  DEF Inv, TypeOK, RequestsOK, RequestOK, Settle, At, Run, Reply, MaybeDoc, HolderOK
<1>2. CASE Guarded(w)
  <2>1. /\ binding' = [binding EXCEPT ![r] = c] /\ UNCHANGED lease
        /\ run' = [run EXCEPT ![w] = y]
    BY <1>2 DEF Settle, Goto, Inv, TypeOK
  <2>2. /\ c.phase = "linked" /\ c.head = document
        /\ c.baseline = [content |-> Content(document), gen |-> document.gen]
    BY <1>1 DEF Anchored, Binding
  <2>3. y.pc = "finish"
    BY <1>1 DEF Run
  <2> HIDE DEF c, y
  <2>4. HolderOK(c, y)
    BY <2>3 DEF HolderOK
  <2>5. Holds(w) /\ Consistent(c) /\ MonotoneStep(b, c)
    BY <1>1, <1>2, <2>2 DEF Guarded, Consistent, Follows, MonotoneStep, Doc
  <2> QED BY <2>1, <2>2, <2>4, <2>5, HolderWrites DEF NoNewHolder
<1>3. CASE ~Guarded(w)
  BY <1>3, FailIsQuiet DEF Settle
<1> QED BY <1>2, <1>3

\* The binding of one replica moves, its head and its baseline do not.
LEMMA WriteIsQuiet ==
    ASSUME Inv, NEW r \in Replicas, NEW c, binding' = [binding EXCEPT ![r] = c],
           c.head = binding[r].head, c.baseline = binding[r].baseline,
           \/ c.phase \notin {"unlinked", "probing"}
           \/ c.phase = binding[r].phase /\ c.enabled = binding[r].enabled
    PROVE  \A q \in Replicas : Quiet(q)
<1>1. binding'[r] = c /\ \A q \in Replicas \ {r} : binding'[q] = binding[q]
  BY DEF Inv, TypeOK
<1> QED BY <1>1 DEF Quiet, Linked

LEMMA FinishKept ==
    ASSUME Inv, NEW w \in Workers, Finish(w)
    PROVE  Kept
<1> DEFINE b == binding[Home[w]]
           phase == IF b.baseline = None THEN "bootstrap" ELSE "linked"
           c == [b EXCEPT !.phase = phase]
<1>1. Home[w] \in Replicas /\ b \in Binding
  BY HomeType DEF Inv, TypeOK
<1>2. \A q \in Replicas : Quiet(q)
  <2>1. CASE binding' = [binding EXCEPT ![Home[w]] = c]
    <3>1. c.head = b.head /\ c.baseline = b.baseline /\ c.phase \notin {"unlinked", "probing"}
      BY <1>1 DEF Binding
    <3> HIDE DEF c
    <3> QED BY <1>1, <2>1, <3>1, WriteIsQuiet
  <2>2. CASE UNCHANGED binding
    BY <2>2, StillQuiet
  <2> QED BY <1>1, <2>1, <2>2 DEF Finish, Inv, TypeOK
<1> QED BY <1>2, EndKept DEF Finish

-----------------------------------------------------------------------------
(***************************************************************************)
(* Recovery and resolve.                                                   *)
(***************************************************************************)
LEMMA RetryPutKept ==
    ASSUME Inv, NEW w \in Workers,
           RetryPut(w) \/ RetryPutAckLost(w) \/ RetryPutStopped(w) \/ RetryConfirmLate(w)
    PROVE  Kept
<1>1. CASE RetryPut(w)
  <2> DEFINE y == [run[w] EXCEPT !.pc = "retry-confirm"]
  <2>1. y.pc = "retry-confirm"
    BY DEF Inv, TypeOK, Run
  <2>2. run' = [run EXCEPT ![w] = y]
    BY <1>1 DEF RetryPut, Goto, Inv, TypeOK
  <2> HIDE DEF y
  <2>3. HolderOK(binding[Home[w]], y)
    BY <2>1 DEF HolderOK
  <2> QED BY <1>1, <2>2, <2>3, MoveKept, StillQuiet DEF RetryPut
<1>2. CASE Fail(w)
  BY <1>2, FailIsQuiet
<1>3. CASE End(w) /\ UNCHANGED binding
  BY <1>3, EndKept, StillQuiet
<1> QED BY <1>1, <1>2, <1>3 DEF RetryPutAckLost, RetryPutStopped, RetryConfirmLate

\* A confirmed retry keeps the accepted head, so what it has read of it is still true.
LEMMA RetryConfirmKept ==
    ASSUME Inv, NEW w \in Workers, RetryConfirm(w)
    PROVE  Kept
<1> DEFINE r == Home[w]
           x == run[w]
           b == binding[r]
           document == x.seen.pending.doc
           confirmed == IF b.pending = None THEN [b EXCEPT !.etag = cur]
                        ELSE [b EXCEPT !.etag = cur, !.pending.applied = TRUE]
           Counted(d) == IF d.pending = None THEN d
                         ELSE [d EXCEPT !.pending.attempts = @ + 1]
           y == [x EXCEPT !.pc = "retry-commit", !.seen = confirmed]
<1>1. x \in Run /\ b \in Binding /\ r \in Replicas /\ Holds(w)
  BY HomeType DEF Inv, TypeOK, RetryConfirm, InTime
<1>2. /\ confirmed.head = b.head /\ confirmed.baseline = b.baseline
      /\ confirmed.phase = b.phase /\ confirmed.enabled = b.enabled
  BY <1>1 DEF Binding
<1>3. \A d : /\ d.head = b.head /\ d.baseline = b.baseline
             /\ d.phase = b.phase /\ d.enabled = b.enabled
             /\ d = b \/ d = confirmed
             => /\ Counted(d).head = b.head /\ Counted(d).baseline = b.baseline
                /\ Counted(d).phase = b.phase /\ Counted(d).enabled = b.enabled
  BY <1>1 DEF Binding
<1>4. \/ /\ binding' = [binding EXCEPT ![r] = confirmed]
         /\ run' = [run EXCEPT ![w] = y] /\ UNCHANGED lease
      \/ binding' = [binding EXCEPT ![r] = Counted(confirmed)] /\ End(w)
      \/ binding' = [binding EXCEPT ![r] = Counted(b)] /\ End(w)
      \/ Fail(w)
  BY <1>1 DEF RetryConfirm, Inv, TypeOK
<1>5. y.pc = "retry-commit" /\ y.seen = confirmed
  BY <1>1 DEF Run
<1>6. \A d : /\ d.head = b.head /\ d.baseline = b.baseline
             /\ d.phase = b.phase /\ d.enabled = b.enabled
             /\ binding' = [binding EXCEPT ![r] = d]
             => \A q \in Replicas : Quiet(q)
  BY <1>1, WriteIsQuiet
<1> HIDE DEF confirmed, Counted, y
<1>7. CASE /\ binding' = [binding EXCEPT ![r] = confirmed]
           /\ run' = [run EXCEPT ![w] = y] /\ UNCHANGED lease
  <2>1. HolderOK(b, y)
    BY <1>2, <1>5 DEF HolderOK
  <2> QED BY <1>2, <1>6, <1>7, <2>1, MoveKept
<1>8. CASE binding' = [binding EXCEPT ![r] = Counted(confirmed)] /\ End(w)
  BY <1>2, <1>3, <1>6, <1>8, EndKept
<1>9. CASE binding' = [binding EXCEPT ![r] = Counted(b)] /\ End(w)
  BY <1>3, <1>6, <1>9, EndKept
<1>10. CASE Fail(w)
  BY <1>10, FailIsQuiet
<1> QED BY <1>4, <1>7, <1>8, <1>9, <1>10

\* The new baseline of a confirmed retry is the accepted head, when there is one.
LEMMA RetryCommitKept ==
    ASSUME Inv, NEW w \in Workers, RetryCommit(w)
    PROVE  Kept
<1> DEFINE r == Home[w]
           x == run[w]
           b == x.seen
           accepted == IF b.head = None THEN b.pending.doc ELSE b.head
           gen == IF b.head # None THEN b.head.gen
                  ELSE IF b.baseline # None THEN b.baseline.gen ELSE None
           c == Anchored(binding[r], Content(accepted), gen)
           y == [x EXCEPT !.pc = "finish"]
<1>1. /\ x \in Run /\ binding[r] \in Binding /\ x.pc = "retry-commit" /\ r \in Replicas
      /\ Holds(w) => Linked(r) /\ b.head = binding[r].head
  BY HomeType, LinkedHolder, HolderKnows DEF Inv, TypeOK, RetryCommit, At, HolderOK
<1>2. CASE Local(r) = b.pending.capture
  <2>1. run' = [run EXCEPT ![w] = y] /\ UNCHANGED lease
    BY <1>2 DEF RetryCommit, Goto, Inv, TypeOK
  <2>2. y.pc = "finish"
    BY <1>1 DEF Run
  <2>3. /\ c.phase = "linked" /\ c.head = binding[r].head
        /\ c.baseline = [content |-> Content(accepted), gen |-> gen]
    BY <1>1 DEF Anchored, Binding
  <2>4. CASE Holds(w)
    <3>1. binding' = [binding EXCEPT ![r] = c]
      BY <1>2, <2>4 DEF RetryCommit, Inv, TypeOK
    <3> HIDE DEF c, y
    <3>2. Consistent(c)
      BY <1>1, <2>3, <2>4 DEF Consistent
    <3>3. HolderOK(c, y)
      BY <2>2 DEF HolderOK
    <3>4. MonotoneStep(binding[r], c)
      BY <1>1, <2>3, SameMonotone DEF Inv
    <3> QED BY <2>1, <2>3, <2>4, <3>1, <3>2, <3>3, <3>4, HolderWrites DEF NoNewHolder
  <2>5. CASE ~Holds(w)
    <3>1. UNCHANGED binding
      BY <1>2, <2>5 DEF RetryCommit
    <3> HIDE DEF y
    <3> QED BY <2>1, <2>5, <3>1, MoveKept, StillQuiet
  <2> QED BY <2>4, <2>5
<1>3. CASE Local(r) # b.pending.capture
  BY <1>3, FailIsQuiet DEF RetryCommit
<1> QED BY <1>2, <1>3

LEMMA ResolveKept ==
    ASSUME Inv, NEW w \in Workers,
           ResolveStart(w) \/ ResolveFetch(w) \/ ResolveWrite(w) \/ ResolveAckLost(w)
    PROVE  Kept
<1>1. CASE ResolveStart(w)
  <2>1. PICK k \in Keys, choice \in {"keep-local", "keep-remote"} : StartResolve(w, k, choice)
    BY <1>1 DEF ResolveStart
  <2> DEFINE y == [IdleRun EXCEPT !.pc = "resolve-lease", !.seen = binding[Home[w]],
                                  !.key = k, !.choice = choice]
  <2>2. HolderOK(binding[Home[w]], y)
    BY DEF IdleRun, HolderOK
  <2>3. run' = [run EXCEPT ![w] = y] /\ UNCHANGED <<binding, lease>>
    BY <2>1 DEF StartResolve
  <2> HIDE DEF y
  <2> QED BY <2>2, <2>3, MoveKept, StillQuiet
<1>2. CASE ResolveFetch(w)
  <2> DEFINE y == [run[w] EXCEPT !.pc = "resolve-write"]
  <2>1. HolderOK(binding[Home[w]], y)
    BY DEF Inv, TypeOK, Run, HolderOK
  <2>2. (run' = [run EXCEPT ![w] = y] /\ UNCHANGED lease) \/ End(w)
    BY <1>2 DEF ResolveFetch, Goto, Inv, TypeOK
  <2> HIDE DEF y
  <2> QED BY <1>2, <2>1, <2>2, MoveKept, EndKept, StillQuiet DEF ResolveFetch
<1>3. CASE ResolveWrite(w)
  BY <1>3, EndKept, StillQuiet DEF ResolveWrite
<1>4. CASE ResolveAckLost(w)
  <2> DEFINE b == binding[Home[w]]
             c == [b EXCEPT !.phase = "publication_unknown"]
  <2>1. Home[w] \in Replicas /\ b \in Binding
    BY HomeType DEF Inv, TypeOK
  <2>2. /\ c.head = b.head /\ c.baseline = b.baseline
        /\ c.phase \notin {"unlinked", "probing"}
    BY <2>1 DEF Binding
  <2>3. binding' = [binding EXCEPT ![Home[w]] = c]
    BY <1>4 DEF ResolveAckLost, Inv, TypeOK
  <2> HIDE DEF c
  <2> QED BY <1>4, <2>1, <2>2, <2>3, WriteIsQuiet, EndKept DEF ResolveAckLost
<1> QED BY <1>1, <1>2, <1>3, <1>4

-----------------------------------------------------------------------------
(***************************************************************************)
(* The invariant, and what follows from it.                                *)
(***************************************************************************)
LEMMA InitInv == Init => Inv
<1> SUFFICES ASSUME Init PROVE Inv
  OBVIOUS
<1>1. UnlinkedOK
  BY DEF Init, UnlinkedOK, Unlinked, FreeLease
<1>2. \A r \in Replicas : Consistent(binding[r])
  BY DEF Init, Consistent, Unlinked
<1>3. \A w \in Workers : HolderOK(binding[Home[w]], run[w])
  BY IdleHolder DEF Init
<1> QED BY <1>1, <1>2, <1>3, InitTypes DEF Inv, HeadsOK

LEMMA StepKept == Inv /\ [Next]_vars => Kept
<1> SUFFICES ASSUME Inv, [Next]_vars PROVE Kept
  OBVIOUS
<1>1. CASE UNCHANGED vars
  BY <1>1, StillQuiet, QuietStep DEF vars, NoNewHolder
<1>2. ASSUME NEW r \in Replicas, UserStep(r) \/ LinkStep(r) \/ Expire(r)
      PROVE  Kept
  BY <1>2, UserKept, LinkKept
<1>3. ASSUME NEW w \in Workers, StartCycle(w) \/ ResolveStart(w) \/ ResolveStep(w)
      PROVE  Kept
  BY <1>3, StartKept, ResolveKept DEF ResolveStep
<1>4. ASSUME NEW w \in Workers, CycleStep(w)
      PROVE  Kept
  BY <1>4, FetchKept, PlanKept, ApplyKept, RememberKept, AcceptKept, AnchorKept, BuildKept,
     JournalKept, PutKept, ConfirmKept, SettleKept, FinishKept, RetryPutKept,
     RetryConfirmKept, RetryCommitKept DEF CycleStep
<1>5. CASE FaultStep
  BY <1>5, FaultKept, PutKept, RetryPutKept, ApplyKept, ResolveKept DEF FaultStep
<1> QED BY <1>1, <1>2, <1>3, <1>4, <1>5 DEF Next

\* For any number of servers, requests, keys and faults: at every await of a cycle the
\* document the holder of the lease works with follows what its binding has accepted.
THEOREM HeldHeadFollows == Spec => []HeadsOK
<1>1. Init => Inv
  BY InitInv
<1>2. Inv /\ [Next]_vars => Inv'
  BY NextTypes, StepKept DEF Inv, Kept
<1>3. Inv => HeadsOK
  BY DEF Inv
<1> QED BY <1>1, <1>2, <1>3, PTL DEF Spec

\* For any number of servers, requests, keys and faults: while a replica stays linked the
\* head it has accepted never goes back, and two heads it accepts with one generation have
\* the same content.  Two requests of one server may interleave in any way after a lease
\* was lost, and the cloud may be rolled back or emptied at any moment.
THEOREM AcceptedNeverRegresses == Spec => AcceptedMonotone
<1>1. Init => Inv
  BY InitInv
<1>2. Inv /\ [Next]_vars => Inv'
  BY NextTypes, StepKept DEF Inv, Kept
<1>3. Inv /\ [Next]_vars
         => [\A r \in Replicas :
                LET old == binding[r].head
                    new == binding'[r].head
                IN  old # None /\ binding'[r].phase # "unlinked" =>
                        /\ new # None
                        /\ new.gen >= old.gen
                        /\ new.gen = old.gen => Content(new) = Content(old)]_vars
  BY StepKept DEF Kept, MonotoneStep
<1> QED BY <1>1, <1>2, <1>3, PTL DEF Spec, AcceptedMonotone
=============================================================================
