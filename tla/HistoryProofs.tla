--------------------------- MODULE HistoryProofs ---------------------------
(***************************************************************************)
(* The published heads are one history, and nothing a user wrote is lost   *)
(* on the way into it, for any number of servers, requests, keys and       *)
(* edits, as long as every request that reaches the collection is either   *)
(* served or refused within its lease and the collection keeps its head.   *)
(* Outside of that a publication may be retried, and the stale head of a   *)
(* retried one breaks what is proved here (sync-service.ts:360).           *)
(***************************************************************************)
EXTENDS AcceptedHeadProofs

-----------------------------------------------------------------------------
(***************************************************************************)
(* The invariant.                                                          *)
(***************************************************************************)
\* No head is journaled without being stored or refused, and none is taken back.
\* Networks fail, answers and commits are lost, links are paused and dropped.
Answered == Faults \cap {"lost-request", "crash", "stall", "rollback", "cloud-loss"} = {}

Active(w) == run[w].pc \notin {"idle", "resolve-lease"}
Unsent(w) == run[w].pc \in {"journal", "put"}

\* Exactly the requests past their lease step hold one, and it is live.
Leased ==
    /\ \A w \in Workers : Active(w) => Gate(w)
    /\ \A r \in Replicas : lease[r].live => \E w \in Workers : Home[w] = r /\ Holds(w) /\ Active(w)

\* The document is the head that the etag stands for.
Names(document, etag) ==
    IF etag = 0 THEN document = None
    ELSE etag \in 1..Len(heads) /\ document = heads[etag]

Logged(entry) == Names(entry.doc, entry.parentEtag + 1)

\* An operation is stored once, and two that are being published differ.
OpsOnce ==
    /\ cur = Len(heads)
    /\ \A e \in 1..Len(heads) : heads[e].op <= minted
    /\ \A e, f \in 1..Len(heads) : heads[e].op = heads[f].op => e = f
    /\ \A w \in Workers : Unsent(w) =>
          /\ run[w].doc.op <= minted
          /\ \A e \in 1..Len(heads) : heads[e].op # run[w].doc.op
    /\ \A v, w \in Workers : Unsent(v) /\ Unsent(w) /\ run[v].doc.op = run[w].doc.op => v = w

\* What a plan overwrites here, and what it replaces in the cloud, is the base.
Overwrites == {"apply-remote", "delete-local", "adopt-tombstone"}
Replaces == {"adopt-tombstone", "pending-local", "publish-tombstone", "raise-high-score"}
PlanSound(x, base) ==
    \A k \in Keys :
        /\ x.pc = "apply" /\ x.plan[k] \in Overwrites /\ x.cap.rows[k] # None => base[k] = x.cap.rows[k]
        /\ x.plan[k] \in Replaces /\ Remote(x).rows[k] # None => base[k] = Remote(x).rows[k]

DocSound(x, base, r) ==
    /\ x.doc.by = r
    /\ x.doc.parent = IF x.remote.doc = None THEN None ELSE x.remote.doc.op
    /\ x.remote.doc # None => x.doc.gen = x.remote.doc.gen + 1
    /\ \A k \in Keys :
          Remote(x).rows[k] # None /\ x.doc.rows[k] # Remote(x).rows[k] => base[k] = Remote(x).rows[k]

\* What a request relies on, from the head it fetched to the document it puts.
Knows(x, r, b, base) ==
    /\ Names(x.remote.doc, x.remote.etag)
    /\ x.pc \notin {"retry-put", "retry-confirm", "retry-commit"}
    /\ x.pc = "plan" =>
          /\ x.seen = b
          /\ b.pending # None => Logged(b.pending) /\ b.pending.parentEtag < x.remote.etag
    /\ x.pc \in {"apply", "remember", "accept", "build"} => PlanSound(x, base)
    /\ x.pc \in {"journal", "put"} => DocSound(x, base, r)

KnowsAt(w) == Knows(run[w], Home[w], binding[Home[w]], rowState[Home[w]].base)

Sending(r, entry) ==
    \E w \in Workers : /\ Home[w] = r /\ At(w, "put")
                       /\ run[w].doc = entry.doc /\ run[w].remote.etag = entry.parentEtag

\* The accepted head is the one its etag names, the journal is stored or about to be, and
\* the bases and the images of the conflicts come from stored heads.
ReplicaKnows(r) ==
    /\ Names(binding[r].head, binding[r].etag)
    /\ binding[r].pending # None => Logged(binding[r].pending) \/ Sending(r, binding[r].pending)
    /\ \A k \in Keys : rowState[r].base[k] # None => Published(k, rowState[r].base[k])
    /\ \A k \in Keys :
          open[r][k] # None /\ open[r][k].remote # None => Published(k, open[r][k].remote)

HistoryInv ==
    /\ Leased /\ OpsOnce
    /\ \A r \in Replicas : ReplicaKnows(r)
    /\ \A w \in Workers : KnowsAt(w)

-----------------------------------------------------------------------------
(***************************************************************************)
(* Steps by what they touch.                                               *)
(***************************************************************************)
Grows == heads' = heads \/ \E d \in Doc : heads' = Append(heads, d)

LEMMA NamesGrow ==
    ASSUME TypeOK, Grows
    PROVE  /\ \A document, etag : Names(document, etag) => Names(document, etag)'
           /\ \A k, row : Published(k, row) => Published(k, row)'
<1>1. heads \in Seq(Doc) /\ Len(heads) \in Nat
    BY DEF TypeOK
<1>2. Len(heads') >= Len(heads) /\ Len(heads') \in Nat /\ heads' \in Seq(Doc)
      /\ \A e \in 1..Len(heads) : heads'[e] = heads[e]
  <2>1. CASE heads' = heads
      BY <1>1, <2>1
  <2>2. CASE \E d \in Doc : heads' = Append(heads, d)
      BY <1>1, <2>2
  <2> QED BY <2>1, <2>2 DEF Grows
<1>3. ASSUME NEW document, NEW etag, Names(document, etag) PROVE Names(document, etag)'
    BY <1>1, <1>2, <1>3 DEF Names
<1>4. ASSUME NEW k, NEW row, Published(k, row) PROVE Published(k, row)'
  <2>1. PICK e \in DOMAIN heads : heads[e].rows[k] = row
      BY <1>4 DEF Published
  <2>2. e \in 1..Len(heads) /\ e \in DOMAIN heads'
      BY <1>1, <1>2
  <2> QED BY <1>2, <2>1, <2>2 DEF Published
<1> QED BY <1>3, <1>4

LEMMA HolderAlone ==
    ASSUME Leased, NEW v \in Workers, NEW w \in Workers, Active(v), Active(w), Home[v] = Home[w]
    PROVE  v = w
BY DEF Leased, Gate, Holds

\* A request that is not at work knows only what its last answer named.
LEMMA RestKnows ==
    ASSUME NEW x, x.pc \in {"idle", "resolve-lease"}
    PROVE  \A r, b, base : Knows(x, r, b, base) <=> Names(x.remote.doc, x.remote.etag)
BY DEF Knows

\* The bindings, rows and requests that a step leaves alone keep what they know.
LEMMA OthersKnow ==
    ASSUME TypeOK, HistoryInv, Grows, NEW v \in Workers, run'[v] = run[v],
           \/ ~Active(v)
           \/ /\ binding'[Home[v]] = binding[Home[v]]
              /\ rowState'[Home[v]].base = rowState[Home[v]].base
    PROVE  KnowsAt(v)'
<1> DEFINE x == run[v]
           b == binding[Home[v]]
           base == rowState[Home[v]].base
<1>1. Knows(x, Home[v], b, base)
    BY DEF HistoryInv, KnowsAt
<1>2. CASE ~Active(v)
  <2>1. Names(x.remote.doc, x.remote.etag)
      BY <1>1 DEF Knows
  <2>2. Names(x.remote.doc, x.remote.etag)'
      BY <2>1, NamesGrow
  <2> QED BY <1>2, <2>2 DEF KnowsAt, Knows, Active
<1>3. CASE b' = b /\ base' = base
  <2>1. Names(x.remote.doc, x.remote.etag)'
    <3>1. Names(x.remote.doc, x.remote.etag)
        BY <1>1 DEF Knows
    <3> QED BY <3>1, NamesGrow
  <2>2. x.pc = "plan" /\ b.pending # None => Logged(b.pending)' /\ b.pending.parentEtag < x.remote.etag
    <3>1. SUFFICES ASSUME x.pc = "plan", b.pending # None
                   PROVE  Logged(b.pending)' /\ b.pending.parentEtag < x.remote.etag
        OBVIOUS
    <3>2. Logged(b.pending) /\ b.pending.parentEtag < x.remote.etag
        BY <1>1, <3>1 DEF Knows
    <3>3. Names(b.pending.doc, b.pending.parentEtag + 1)'
        BY <1>3, <3>2, NamesGrow DEF Logged
    <3> QED BY <1>3, <3>2, <3>3 DEF Logged
  <2>3. x' = x
      OBVIOUS
  <2> QED BY <1>1, <1>3, <2>1, <2>2, <2>3 DEF KnowsAt, Knows, PlanSound, DocSound, Remote, Logged
<1> QED BY <1>2, <1>3

\* The same for the replicas; the requests that were sending their journals still are.
LEMMA OtherReplicas ==
    ASSUME TypeOK, HistoryInv, Grows, NEW q \in Replicas,
           binding'[q].head = binding[q].head, binding'[q].etag = binding[q].etag,
           binding'[q].pending \in {binding[q].pending, None},
           rowState'[q].base = rowState[q].base, open'[q] = open[q],
           \A v \in Workers : Home[v] = q /\ At(v, "put") => run'[v] = run[v]
    PROVE  ReplicaKnows(q)'
<1>1. ReplicaKnows(q)
    BY DEF HistoryInv
<1> DEFINE b == binding[q]
<1>2. Names(b.head, b.etag)'
  <2>1. Names(b.head, b.etag)
      BY <1>1 DEF ReplicaKnows
  <2>2. \A document, etag : Names(document, etag) => Names(document, etag)'
      BY NamesGrow
  <2> QED BY <2>1, <2>2 DEF Names
<1>3. b'.pending # None => Logged(b.pending)' \/ Sending(q, b.pending)'
  <2> SUFFICES ASSUME b'.pending # None PROVE Logged(b.pending)' \/ Sending(q, b.pending)'
      OBVIOUS
  <2>1. b'.pending = b.pending
      OBVIOUS
  <2>2. CASE Logged(b.pending)
    <3>1. Names(b.pending.doc, b.pending.parentEtag + 1)
        BY <2>2 DEF Logged
    <3>2. \A document, etag : Names(document, etag) => Names(document, etag)'
        BY NamesGrow
    <3> QED BY <2>1, <3>1, <3>2 DEF Names, Logged
  <2>3. CASE Sending(q, b.pending)
      BY <2>1, <2>3 DEF Sending, At
  <2> QED BY <1>1, <2>1, <2>2, <2>3 DEF ReplicaKnows
<1>4. ASSUME NEW k \in Keys, rowState'[q].base[k] # None PROVE Published(k, rowState[q].base[k])'
  <2> DEFINE row == rowState[q].base[k]
  <2>1. Published(k, row)
      BY <1>1, <1>4 DEF ReplicaKnows
  <2>2. row' = row
      OBVIOUS
  <2> HIDE DEF row
  <2>3. \E e \in DOMAIN heads' : heads'[e].rows[k] = row
      BY <2>1, NamesGrow DEF Published
  <2> QED BY <2>2, <2>3 DEF Published, row
<1>5. ASSUME NEW k \in Keys, open'[q][k] # None, open'[q][k].remote # None
      PROVE  Published(k, open[q][k].remote)'
  <2> DEFINE row == open[q][k].remote
  <2>1. Published(k, row)
      BY <1>1, <1>5 DEF ReplicaKnows
  <2>2. row' = row
      OBVIOUS
  <2> HIDE DEF row
  <2>3. \E e \in DOMAIN heads' : heads'[e].rows[k] = row
      BY <2>1, NamesGrow DEF Published
  <2> QED BY <2>2, <2>3 DEF Published, row
<1> QED BY <1>2, <1>3, <1>4, <1>5 DEF ReplicaKnows

LEMMA OpsQuiet ==
    ASSUME OpsOnce, UNCHANGED <<heads, cur, minted>>,
           \A v \in Workers : Unsent(v)' => Unsent(v) /\ run'[v].doc = run[v].doc
    PROVE  OpsOnce'
BY DEF OpsOnce

\* The step touches the replica r only.
OnlyAt(r) ==
    \A q \in Replicas \ {r} :
        binding'[q] = binding[q] /\ rowState'[q] = rowState[q] /\ open'[q] = open[q]

\* A request at work takes a step; with it the lease is kept or given back.
LEMMA WorkerStep ==
    ASSUME TypeOK, HistoryInv, Grows, NEW w \in Workers, Active(w), OnlyAt(Home[w]),
           \A v \in Workers \ {w} : run'[v] = run[v],
           \A q \in Replicas \ {Home[w]} : lease'[q] = lease[q],
           binding'[Home[w]].enabled = binding[Home[w]].enabled,
           \/ lease'[Home[w]] = lease[Home[w]] /\ Active(w)'
           \/ lease'[Home[w]] = FreeLease /\ ~Active(w)',
           OpsOnce', ReplicaKnows(Home[w])', KnowsAt(w)'
    PROVE  HistoryInv'
<1>0. Leased /\ \A v \in Workers : Home[v] \in Replicas
    BY HomeType DEF HistoryInv
<1>1. ASSUME NEW v \in Workers, v # w, Active(v) PROVE Home[v] \in Replicas \ {Home[w]}
    BY <1>0, <1>1, HolderAlone
<1>2. ASSUME NEW v \in Workers, Active(v)' PROVE Gate(v)'
  <2>1. CASE v = w
      BY <1>0, <2>1, <1>2 DEF Leased, Gate, Holds
  <2>2. CASE v # w
    <3>1. Active(v)
        BY <1>2, <2>2 DEF Active
    <3>2. Gate(v) /\ Home[v] \in Replicas \ {Home[w]}
        BY <1>0, <1>1, <2>2, <3>1 DEF Leased
    <3> QED BY <3>2 DEF Gate, Holds, OnlyAt
  <2> QED BY <2>1, <2>2
<1>3. ASSUME NEW r \in Replicas, lease'[r].live
      PROVE  \E v \in Workers : Home[v] = r /\ Holds(v)' /\ Active(v)'
  <2>1. CASE r = Home[w]
    <3>1. lease'[r] = lease[r] /\ Active(w)'
        BY <1>3, <2>1 DEF FreeLease
    <3> QED BY <1>0, <2>1, <3>1 DEF Leased, Gate, Holds
  <2>2. CASE r # Home[w]
    <3>1. lease'[r] = lease[r]
        BY <2>2
    <3>2. PICK v \in Workers : Home[v] = r /\ Holds(v) /\ Active(v)
        BY <1>0, <1>3, <3>1 DEF Leased
    <3>3. v # w /\ run'[v] = run[v]
        BY <2>2, <3>2
    <3> QED BY <3>1, <3>2, <3>3 DEF Holds, Active
  <2> QED BY <2>1, <2>2
<1>4. Leased'
    BY <1>2, <1>3 DEF Leased
<1>5. ASSUME NEW v \in Workers PROVE KnowsAt(v)'
  <2>1. CASE v # w
    <3>1. run'[v] = run[v]
        BY <2>1
    <3>2. Active(v) => binding'[Home[v]] = binding[Home[v]] /\ rowState'[Home[v]].base = rowState[Home[v]].base
        BY <1>1, <2>1 DEF OnlyAt
    <3> QED BY <3>1, <3>2, OthersKnow
  <2> QED BY <2>1
<1>6. ASSUME NEW q \in Replicas PROVE ReplicaKnows(q)'
  <2>1. CASE q # Home[w]
    <3>1. binding'[q] = binding[q] /\ rowState'[q] = rowState[q] /\ open'[q] = open[q]
        BY <2>1 DEF OnlyAt
    <3>2. \A v \in Workers : Home[v] = q => run'[v] = run[v]
        BY <2>1
    <3> QED BY <3>1, <3>2, OtherReplicas
  <2> QED BY <2>1
<1> QED BY <1>4, <1>5, <1>6 DEF HistoryInv

\* It goes on to y, or it ends.
LEMMA Goes ==
    ASSUME TypeOK, HistoryInv, NEW w \in Workers, Active(w), OnlyAt(Home[w]),
           UNCHANGED <<heads, cur, minted, lease>>,
           NEW y, run' = [run EXCEPT ![w] = y],
           y.pc \notin {"idle", "resolve-lease", "journal", "put"},
           binding'[Home[w]].enabled = binding[Home[w]].enabled,
           ReplicaKnows(Home[w])',
           Knows(y, Home[w], binding'[Home[w]], rowState'[Home[w]].base)
    PROVE  HistoryInv'
<1>1. run'[w] = y /\ \A v \in Workers \ {w} : run'[v] = run[v]
    BY DEF TypeOK
<1>2. Active(w)' /\ ~Unsent(w)'
    BY <1>1 DEF Active, Unsent
<1>3. OpsOnce'
    BY <1>1, <1>2, OpsQuiet DEF HistoryInv, Unsent
<1>4. KnowsAt(w)'
    BY <1>1 DEF KnowsAt, Knows, Names, Logged, PlanSound, DocSound, Remote
<1> QED BY <1>1, <1>2, <1>3, <1>4, WorkerStep DEF Grows

LEMMA EndFacts ==
    ASSUME TypeOK, HistoryInv, NEW w \in Workers, Active(w), End(w)
    PROVE  /\ run'[w] = IdleRun /\ \A v \in Workers \ {w} : run'[v] = run[v]
           /\ lease'[Home[w]] = FreeLease /\ \A q \in Replicas \ {Home[w]} : lease'[q] = lease[q]
           /\ ~Active(w)' /\ ~Unsent(w)' /\ IdleRun.pc = "idle"
           /\ KnowsAt(w)'
<1>1. run'[w] = IdleRun /\ \A v \in Workers \ {w} : run'[v] = run[v]
    BY DEF End, TypeOK
<1>2. Holds(w) /\ Home[w] \in Replicas
    BY HomeType DEF HistoryInv, Leased, Gate
<1>3. lease'[Home[w]] = FreeLease /\ \A q \in Replicas \ {Home[w]} : lease'[q] = lease[q]
    BY <1>2 DEF End, Released, TypeOK
<1>4. IdleRun.pc = "idle" /\ IdleRun.remote.doc = None /\ IdleRun.remote.etag = 0
    BY DEF IdleRun, NoReply
<1>5. KnowsAt(w)'
    BY <1>1, <1>4 DEF KnowsAt, Knows, Names
<1> QED BY <1>1, <1>3, <1>4, <1>5 DEF Active, Unsent

LEMMA Stops ==
    ASSUME TypeOK, HistoryInv, NEW w \in Workers, Active(w), OnlyAt(Home[w]), End(w),
           UNCHANGED <<heads, cur, minted>>,
           binding'[Home[w]].enabled = binding[Home[w]].enabled,
           ReplicaKnows(Home[w])'
    PROVE  HistoryInv'
<1>1. OpsOnce'
    BY EndFacts, OpsQuiet DEF HistoryInv, Unsent
<1> QED BY <1>1, EndFacts, WorkerStep DEF Grows

\* The journal of a replica whose request is not at its PUT is a stored head.
LEMMA PendingLogged ==
    ASSUME HistoryInv, NEW w \in Workers, Active(w), ~At(w, "put"), binding[Home[w]].pending # None
    PROVE  Logged(binding[Home[w]].pending)
<1>1. ASSUME Sending(Home[w], binding[Home[w]].pending) PROVE FALSE
  <2>1. PICK v \in Workers : Home[v] = Home[w] /\ At(v, "put")
      BY <1>1 DEF Sending
  <2>2. v = w
      BY <2>1, HolderAlone DEF HistoryInv, At, Active
  <2> QED BY <2>1, <2>2
<1> QED BY <1>1, HomeType DEF HistoryInv, ReplicaKnows

LEMMA ReplicaStep ==
    ASSUME HistoryInv, NEW w \in Workers, Active(w), ~At(w, "put"), heads' = heads,
           Names(binding'[Home[w]].head, binding'[Home[w]].etag),
           \/ binding'[Home[w]].pending = None
           \/ /\ binding[Home[w]].pending # None
              /\ binding'[Home[w]].pending.doc = binding[Home[w]].pending.doc
              /\ binding'[Home[w]].pending.parentEtag = binding[Home[w]].pending.parentEtag,
           \A k \in Keys : \/ rowState'[Home[w]].base[k] \in {None, rowState[Home[w]].base[k]}
                           \/ Published(k, rowState'[Home[w]].base[k]),
           \A k \in Keys : \/ open'[Home[w]][k] \in {None, open[Home[w]][k]}
                           \/ open'[Home[w]][k].remote = None
                           \/ Published(k, open'[Home[w]][k].remote)
    PROVE  ReplicaKnows(Home[w])'
<1> DEFINE r == Home[w]
<1>1. ReplicaKnows(r)
    BY HomeType DEF HistoryInv
<1>2. Names(binding[r].head, binding[r].etag)'
    BY DEF Names
<1>3. binding'[r].pending # None => Logged(binding[r].pending)'
  <2> SUFFICES ASSUME binding'[r].pending # None PROVE Logged(binding[r].pending)'
      OBVIOUS
  <2>1. Logged(binding[r].pending)
      BY PendingLogged
  <2> QED BY <2>1 DEF Logged, Names
<1>4. ASSUME NEW k \in Keys, rowState'[r].base[k] # None PROVE Published(k, rowState[r].base[k])'
    BY <1>1, <1>4 DEF ReplicaKnows, Published
<1>5. ASSUME NEW k \in Keys, open'[r][k] # None, open'[r][k].remote # None
      PROVE  Published(k, open[r][k].remote)'
    BY <1>1, <1>5 DEF ReplicaKnows, Published
<1> QED BY <1>2, <1>3, <1>4, <1>5 DEF ReplicaKnows

-----------------------------------------------------------------------------
(***************************************************************************)
(* What the merge overwrites.                                              *)
(***************************************************************************)
LEMMA NoScores ==
    ASSUME NEW row \in Row
    PROVE  /\ row.score = NoScore
           /\ \A high : PreserveHighScore(row, high) = row
           /\ \A other \in Row : row.body = other.body => row = other
<1>1. row.score = NoScore
    BY ScorelessAssumption DEF Row
<1>2. ASSUME NEW other \in Row, row.body = other.body PROVE row = other
    BY <1>2, ScorelessAssumption DEF Row
<1> QED BY <1>1, <1>2 DEF PreserveHighScore

\* Without scores a changed row is taken from the side that changed it since the base.
LEMMA EstablishedSound ==
    ASSUME NEW base \in MaybeRow, NEW local \in Row, NEW remote \in Row,
           NEW type, type = ClassifyEstablished(base, NoScore, local, remote).type
    PROVE  /\ type \in Overwrites => base = local
           /\ type \in Replaces => base = remote
<1> DEFINE high == MaxScore({local.score, remote.score, IF base = None THEN NoScore ELSE NoScore})
<1>1. high = NoScore
    BY NoScores DEF MaxScore, NoScore
<1>2. PreserveHighScore(local, high) = local /\ PreserveHighScore(remote, high) = remote
      /\ local.score = NoScore /\ remote.score = NoScore
    BY NoScores
<1> HIDE DEF high
<1>3. ~(NoScore < NoScore)
    BY DEF NoScore
<1>4. \/ local = remote /\ type = "unchanged"
      \/ local # remote /\ base # None /\ local = base /\ type = "apply-remote"
      \/ local # remote /\ base # None /\ remote = base /\ type = "pending-local"
      \/ type = ClassifyBoth(local, remote).type
    BY <1>1, <1>2, <1>3 DEF ClassifyEstablished, high, Act, ApplyRemote
<1>5. ClassifyBoth(local, remote).type \in {"unchanged", "conflict"}
    BY NoScores DEF ClassifyBoth, Act, Conflict
<1> QED BY <1>4, <1>5 DEF Overwrites, Replaces

LEMMA KeySound ==
    ASSUME NEW established \in BOOLEAN, NEW base \in MaybeRow, NEW local \in MaybeRow,
           NEW remote \in MaybeRow, NEW gone \in BOOLEAN, NEW tombstoned \in BOOLEAN,
           gone => remote = None,
           NEW type, type = KeyAction(established, base, NoScore, local, remote, gone, tombstoned).type
    PROVE  /\ type \in Overwrites /\ local # None => base = local
           /\ type \in Replaces /\ remote # None => base = remote
<1>0. (local # None => local \in Row) /\ (remote # None => remote \in Row)
    BY DEF MaybeRow
<1>1. CASE type = Conflict("resurrection").type
    BY <1>1 DEF Conflict, Act, Overwrites, Replaces
<1>2. CASE type = BootstrapAction(local, remote, gone).type
  <2>1. local # None /\ remote # None => ClassifyBoth(local, remote).type \in {"unchanged", "conflict"}
      BY <1>0, NoScores DEF ClassifyBoth, Act, Conflict
  <2> QED BY <1>2, <2>1 DEF BootstrapAction, Act, ApplyRemote, Conflict, Overwrites, Replaces
<1>3. CASE type = LinkedAction(base, NoScore, local, remote, gone, tombstoned).type
  <2>1. CASE ~gone /\ local # None /\ remote # None
    <3>1. type = ClassifyEstablished(base, NoScore, local, remote).type
        BY <1>3, <2>1 DEF LinkedAction
    <3> QED BY <1>0, <2>1, <3>1, EstablishedSound
  <2>2. CASE gone \/ local = None \/ remote = None
      BY <1>3, <2>2 DEF LinkedAction, Act, ApplyRemote, Conflict, Overwrites, Replaces
  <2> QED BY <2>1, <2>2
<1> QED BY <1>1, <1>2, <1>3 DEF KeyAction

\* What the plan of a request overwrites or replaces is the base of its replica.
LEMMA MergedSound ==
    ASSUME TypeOK, NEW r \in Replicas, NEW x \in Run, NEW k \in Keys,
           ~InvalidHead(x.seen.baseline # None, rowState[r].base, Remote(x).rows, Remote(x).tombs)
    PROVE  /\ Merged(r, x)[k] \in Overwrites /\ rows[r][k] # None => rowState[r].base[k] = rows[r][k]
           /\ Merged(r, x)[k] \in Replaces /\ Remote(x).rows[k] # None =>
                 rowState[r].base[k] = Remote(x).rows[k]
<1> DEFINE A == Reconcile(x.seen.baseline # None, rowState[r].base, [j \in Keys |-> NoScore],
                          rows[r], Remote(x).rows, Remote(x).tombs, rowState[r].tombs)
           action == KeyAction(x.seen.baseline # None, rowState[r].base[k], NoScore, rows[r][k],
                               Remote(x).rows[k], k \in Remote(x).tombs, k \in rowState[r].tombs)
           Reviewed == A[k].type = "delete-local" \/ (A[k].type = "conflict" /\ Remote(x).rows[k] = None)
<1>1. rowState[r].base[k] \in MaybeRow /\ rows[r][k] \in MaybeRow
    BY DEF TypeOK, RowState, Table
<1>2. Remote(x).rows[k] \in MaybeRow
    BY DEF Remote, NoCapture, Content, Run, Reply, MaybeDoc, Doc, Table, MaybeRow
<1>3. k \in Remote(x).tombs => Remote(x).rows[k] = None
    BY DEF InvalidHead
<1>4. /\ action.type \in Overwrites /\ rows[r][k] # None => rowState[r].base[k] = rows[r][k]
      /\ action.type \in Replaces /\ Remote(x).rows[k] # None => rowState[r].base[k] = Remote(x).rows[k]
  <2>1. \A a \in BOOLEAN, g \in BOOLEAN, t \in BOOLEAN :
           (g => Remote(x).rows[k] = None) =>
             LET type == KeyAction(a, rowState[r].base[k], NoScore, rows[r][k], Remote(x).rows[k], g, t).type
             IN  /\ type \in Overwrites /\ rows[r][k] # None => rowState[r].base[k] = rows[r][k]
                 /\ type \in Replaces /\ Remote(x).rows[k] # None => rowState[r].base[k] = Remote(x).rows[k]
      BY <1>1, <1>2, KeySound
  <2>2. (x.seen.baseline # None) \in BOOLEAN /\ (k \in Remote(x).tombs) \in BOOLEAN
        /\ (k \in rowState[r].tombs) \in BOOLEAN
      OBVIOUS
  <2> QED BY <1>3, <2>1, <2>2
<1>5. A[k] \in {action, Conflict("focus-active")}
    BY DEF Reconcile
<1>6. Conflict("focus-active").type = "conflict"
    BY DEF Conflict, Act
<1>7. Merged(r, x)[k] = A[k].type \/ (Merged(r, x)[k] = "pending-local" /\ Reviewed)
    BY DEF Merged
<1>8. ASSUME Reviewed PROVE Remote(x).rows[k] = None
  <2>1. CASE A[k].type = "delete-local"
    <3>1. action.type = "delete-local"
        BY <1>5, <1>6, <2>1
    <3>2. \A x1, y1 : ClassifyBoth(x1, y1).type # "delete-local"
        BY DEF ClassifyBoth, Act, RaiseHighScore, Conflict
    <3>3. \A b1, h1, x1, y1 : ClassifyEstablished(b1, h1, x1, y1).type # "delete-local"
        BY <3>2 DEF ClassifyEstablished, Act, RaiseHighScore, ApplyRemote
    <3>4. k \in Remote(x).tombs
        BY <3>1, <3>2, <3>3 DEF KeyAction, BootstrapAction, LinkedAction, Act, ApplyRemote, Conflict
    <3> QED BY <1>3, <3>4
  <2> QED BY <1>8, <2>1
<1> HIDE DEF A, action
<1> QED BY <1>4, <1>5, <1>6, <1>7, <1>8 DEF Overwrites, Replaces

-----------------------------------------------------------------------------
(***************************************************************************)
(* A cycle, action by action.                                              *)
(***************************************************************************)
LEMMA HistoryFacts ==
    ASSUME TypeOK, HistoryInv, NEW w \in Workers
    PROVE  /\ Home[w] \in Replicas /\ run[w] \in Run /\ binding[Home[w]] \in Binding
           /\ rowState[Home[w]] \in RowState /\ rows[Home[w]] \in Table
           /\ Leased /\ OpsOnce /\ KnowsAt(w) /\ ReplicaKnows(Home[w])
           /\ heads \in Seq(Doc) /\ Len(heads) \in Nat
           /\ Active(w) => Gate(w) /\ Guarded(w) /\ InTime(w) /\ Holds(w)
BY HomeType DEF HistoryInv, TypeOK, Leased, Gate, Guarded, InTime

\* A request that only moves on, or ends, leaves what its replica knows.
LEMMA ReplicaStays ==
    ASSUME TypeOK, HistoryInv, NEW w \in Workers, Active(w), ~At(w, "put"), heads' = heads,
           binding'[Home[w]].head = binding[Home[w]].head, binding'[Home[w]].etag = binding[Home[w]].etag,
           binding'[Home[w]].pending = binding[Home[w]].pending,
           rowState'[Home[w]] = rowState[Home[w]], open'[Home[w]] = open[Home[w]]
    PROVE  ReplicaKnows(Home[w])'
<1>1. Names(binding'[Home[w]].head, binding'[Home[w]].etag)
    BY HistoryFacts DEF ReplicaKnows
<1> QED BY <1>1, ReplicaStep

\* A failed request notes it in the phase of its binding.
LEMMA NotedStays ==
    ASSUME TypeOK, HistoryInv, NEW w \in Workers
    PROVE  /\ \A q \in Replicas \ {Home[w]} : Noted(w)[q] = binding[q]
           /\ \A q \in Replicas :
                 /\ Noted(w)[q].enabled = binding[q].enabled /\ Noted(w)[q].pending = binding[q].pending
                 /\ Noted(w)[q].head = binding[q].head /\ Noted(w)[q].etag = binding[q].etag
BY HistoryFacts DEF Noted, TypeOK, Binding

LEMMA EndsQuietly ==
    ASSUME TypeOK, HistoryInv, NEW w \in Workers, Active(w), ~At(w, "put"), End(w),
           binding' = binding \/ binding' = Noted(w),
           UNCHANGED <<heads, cur, minted, rowState, open>>
    PROVE  HistoryInv'
<1>1. OnlyAt(Home[w]) /\ binding'[Home[w]].enabled = binding[Home[w]].enabled
      /\ binding'[Home[w]].head = binding[Home[w]].head /\ binding'[Home[w]].etag = binding[Home[w]].etag
      /\ binding'[Home[w]].pending = binding[Home[w]].pending
    BY HistoryFacts, NotedStays DEF OnlyAt
<1> QED BY <1>1, ReplicaStays, Stops

LEMMA FetchHistory ==
    ASSUME TypeOK, HistoryInv, NEW w \in Workers, FetchHead(w)
    PROVE  HistoryInv'
<1> DEFINE r == Home[w]
           b == binding[r]
           reply == HeadReply(b)
           y == [run[w] EXCEPT !.pc = "plan", !.remote = reply, !.seen = b]
<1>0. Active(w) /\ ~At(w, "put") /\ UNCHANGED <<heads, cur, minted, rowState, open>>
    BY DEF FetchHead, Active, At, cloud, bounds
<1>1. CASE Fail(w)
    BY <1>0, <1>1, EndsQuietly DEF Fail
<1>2. CASE run' = [run EXCEPT ![w] = y] /\ UNCHANGED <<binding, lease>>
  <2>1. y.pc = "plan" /\ y.remote = reply /\ y.seen = b
      BY HistoryFacts DEF Run
  <2>2. Names(reply.doc, reply.etag) /\ reply.etag = Len(heads)
    <3>1. Names(b.head, b.etag) /\ cur = Len(heads) /\ Len(heads) \in Nat
        BY HistoryFacts DEF ReplicaKnows, OpsOnce
    <3>2. CASE cur = 0
        BY <3>1, <3>2 DEF HeadReply, NoReply, Names
    <3>3. CASE cur # 0
        BY <3>1, <3>3 DEF HeadReply, Names
    <3> QED BY <3>2, <3>3
  <2>3. ASSUME b.pending # None PROVE Logged(b.pending) /\ b.pending.parentEtag < reply.etag
    <3>1. Logged(b.pending)
        BY <1>0, <2>3, PendingLogged
    <3>2. b.pending.parentEtag \in Nat
        BY <2>3, HistoryFacts DEF Binding, Pending
    <3>3. b.pending.parentEtag + 1 # 0 /\ b.pending.parentEtag + 1 \in 1..Len(heads)
        BY <3>1, <3>2 DEF Logged, Names
    <3> QED BY <2>2, <3>1, <3>2, <3>3, HistoryFacts
  <2>4. ReplicaKnows(r)'
      BY <1>0, <1>2, ReplicaStays
  <2> HIDE DEF y, reply, b
  <2>5. Knows(y, r, b, rowState[r].base)
      BY <2>1, <2>2, <2>3 DEF Knows
  <2>6. OnlyAt(r)
      BY <1>0, <1>2 DEF OnlyAt
  <2> QED BY <1>0, <1>2, <2>1, <2>4, <2>5, <2>6, Goes DEF b
<1> QED BY <1>1, <1>2 DEF FetchHead

\* The journal of a plan is a head at or before the one that was fetched, so it was stored.
LEMMA NeverRetried ==
    ASSUME TypeOK, HistoryInv, NEW w \in Workers, At(w, "plan"), NEW capture
    PROVE  Recovery(run[w].seen, run[w].remote, capture) # "retry-same"
<1> DEFINE x == run[w]
           p == x.seen.pending
<1>1. CASE p = None
    BY <1>1 DEF Recovery
<1>2. CASE p # None
  <2>1. Logged(p) /\ p.parentEtag < x.remote.etag /\ Names(x.remote.doc, x.remote.etag)
      BY <1>2, HistoryFacts DEF KnowsAt, Knows, At
  <2>2. p \in Pending /\ x.remote.etag \in Nat
      BY <1>2, HistoryFacts DEF Run, Binding, Reply
  <2>3. p.parentEtag \in Nat /\ p.doc \in Doc
      BY <2>2 DEF Pending
  <2>4. p.parentEtag + 1 \in 1..Len(heads) /\ p.doc = heads[p.parentEtag + 1]
      BY <2>1, <2>3 DEF Logged, Names
  <2>5. x.remote.etag \in 1..Len(heads) /\ x.remote.doc = heads[x.remote.etag] /\ x.remote.etag # p.parentEtag
      BY <2>1, <2>2, <2>3 DEF Names
  <2>6. x.remote.doc # None /\ p.doc # None
      BY <2>3, <2>5, HistoryFacts, NoneAssumption
  <2>7. x.remote.doc.op = p.doc.op => x.remote.doc = p.doc
      BY <2>4, <2>5, HistoryFacts DEF OpsOnce
  <2>8. x.remote.doc.op # p.doc.op \/ SameHead(x.remote.doc, p.doc)
      BY <2>6, <2>7 DEF SameHead
  <2>9. p.applied \in BOOLEAN
      BY <2>2 DEF Pending
  <2> DEFINE decision == RecoverPublication(p, x.remote.doc, x.remote.etag, capture)
  <2>10. CASE SameHead(x.remote.doc, p.doc)
    <3>1. decision \in {"commit-remote", "retain-pending"}
        BY <2>9, <2>10 DEF RecoverPublication
    <3> QED BY <1>2, <3>1 DEF Recovery
  <2>11. CASE ~SameHead(x.remote.doc, p.doc)
    <3>1. x.remote.doc.op # p.doc.op
        BY <2>8, <2>11
    <3>2. decision \in {"lost-race", "retain-pending"}
        BY <2>5, <2>6, <2>11, <3>1 DEF RecoverPublication
    <3> QED BY <1>2, <3>2 DEF Recovery
  <2> QED BY <2>10, <2>11
<1> QED BY <1>1, <1>2

LEMMA PlanHistory ==
    ASSUME TypeOK, HistoryInv, NEW w \in Workers, PlanRecommit(w) \/ PlanRetry(w) \/ PlanMerge(w)
    PROVE  HistoryInv'
<1> DEFINE r == Home[w]
           x == run[w]
<1>0. At(w, "plan") /\ Active(w) /\ ~At(w, "put") /\ UNCHANGED <<heads, cur, minted, rowState, open>>
    BY DEF PlanRecommit, PlanRetry, PlanMerge, Active, At, cloud, bounds
<1>1. x \in Run /\ Names(x.remote.doc, x.remote.etag)
    BY HistoryFacts DEF KnowsAt, Knows
<1>2. CASE PlanRecommit(w)
  <2> DEFINE y == [x EXCEPT !.pc = "settle", !.skip = {k \in Keys : open[r][k] # None}]
  <2>1. y.pc = "settle" /\ y.remote = x.remote
      BY <1>1 DEF Run
  <2>2. run' = [run EXCEPT ![w] = y] /\ UNCHANGED <<binding, lease>>
      BY <1>2 DEF PlanRecommit
  <2>3. ReplicaKnows(r)'
      BY <1>0, <2>2, ReplicaStays
  <2> HIDE DEF y
  <2>4. Knows(y, r, binding[r], rowState[r].base)
      BY <1>1, <2>1 DEF Knows
  <2> QED BY <1>0, <2>1, <2>2, <2>3, <2>4, Goes DEF OnlyAt
<1>3. CASE PlanRetry(w)
    BY <1>0, <1>3, NeverRetried DEF PlanRetry
<1>4. CASE PlanMerge(w)
  <2> DEFINE plan == Merged(r, x)
             next == [x EXCEPT !.cap = Local(r), !.plan = plan, !.skip = KeysOf(plan, {"conflict"})]
             y == [next EXCEPT !.pc = AfterPlan(next)]
  <2>1. AfterPlan(next) \in {"apply", "remember", "anchor", "accept", "build", "finish"}
      BY DEF AfterPlan, AfterApply, AfterRemember, Onward
  <2>2. y.pc = AfterPlan(next) /\ y.remote = x.remote /\ y.cap = Local(r) /\ y.plan = plan
      BY <1>1 DEF Run
  <2>3. CASE Fail(w)
      BY <1>0, <2>3, EndsQuietly DEF Fail
  <2>4. CASE /\ run' = [run EXCEPT ![w] = y] /\ UNCHANGED <<binding, lease>>
             /\ ~InvalidHead(x.seen.baseline # None, rowState[r].base, Remote(x).rows, Remote(x).tombs)
    <3>1. ASSUME NEW k \in Keys
          PROVE  /\ plan[k] \in Overwrites /\ rows[r][k] # None => rowState[r].base[k] = rows[r][k]
                 /\ plan[k] \in Replaces /\ Remote(x).rows[k] # None => rowState[r].base[k] = Remote(x).rows[k]
        BY <1>1, <2>4, MergedSound, HistoryFacts
    <3>2. Remote(y) = Remote(x) /\ y.cap.rows = rows[r]
      <4> HIDE DEF y, next
      <4> QED BY <2>2 DEF Remote, Local
    <3>3. PlanSound(y, rowState[r].base)
      <4> HIDE DEF y, plan, next
      <4> QED BY <2>2, <3>1, <3>2 DEF PlanSound
    <3>4. ReplicaKnows(r)'
        BY <1>0, <2>4, ReplicaStays
    <3> HIDE DEF y, next, plan
    <3>5. Knows(y, r, binding[r], rowState[r].base)
        BY <1>1, <2>1, <2>2, <3>3 DEF Knows
    <3> QED BY <1>0, <2>1, <2>2, <2>4, <3>4, <3>5, Goes DEF OnlyAt
  <2> QED BY <1>4, <2>3, <2>4 DEF PlanMerge
<1> QED BY <1>2, <1>3, <1>4

\* What a request fetched is a stored head, and every row of it was published.
LEMMA RemoteStands ==
    ASSUME TypeOK, HistoryInv, NEW w \in Workers, run[w].remote.doc # None
    PROVE  /\ run[w].remote.doc \in Doc /\ run[w].remote.etag \in 1..Len(heads)
           /\ run[w].remote.doc = heads[run[w].remote.etag]
           /\ Remote(run[w]) = Content(run[w].remote.doc)
           /\ \A k \in Keys : Remote(run[w]).rows[k] = run[w].remote.doc.rows[k]
           /\ \A k \in Keys : Published(k, run[w].remote.doc.rows[k])
<1> DEFINE x == run[w]
<1>1. Names(x.remote.doc, x.remote.etag) /\ x \in Run
    BY HistoryFacts DEF KnowsAt, Knows
<1>2. x.remote.etag \in 1..Len(heads) /\ x.remote.doc = heads[x.remote.etag]
    BY <1>1 DEF Names
<1>3. x.remote.doc \in Doc
    BY <1>1 DEF Run, Reply, MaybeDoc
<1>4. DOMAIN heads = 1..Len(heads)
    BY HistoryFacts
<1> QED BY <1>2, <1>3, <1>4 DEF Remote, Content, Published

\* Recording a head moves every base to it or leaves it, and keeps what a plan rests on.
LEMMA RecordedSound ==
    ASSUME NEW state \in RowState, NEW d \in Doc, NEW skip
    PROVE  \A k \in Keys :
              /\ Recorded(state, d, skip).base[k] \in {None, state.base[k], d.rows[k]}
              /\ d.rows[k] # None /\ state.base[k] = d.rows[k] =>
                    Recorded(state, d, skip).base[k] = d.rows[k]
<1> DEFINE base == [k \in Keys |-> IF k \in skip THEN state.base[k]
                                   ELSE IF d.rows[k] # None THEN d.rows[k]
                                   ELSE IF k \in d.tombs THEN None ELSE state.base[k]]
<1>1. Recorded(state, d, skip).base = base
    BY DEF Recorded, RowState
<1> QED BY <1>1

LEMMA AcceptedNames ==
    ASSUME NEW b \in Binding, NEW reply
    PROVE  /\ Accepted(b, reply).head = reply.doc /\ Accepted(b, reply).etag = reply.etag
           /\ Accepted(b, reply).pending = b.pending /\ Accepted(b, reply).enabled = b.enabled
BY DEF Accepted, Binding

\* What a transaction that records and accepts the fetched head does to its replica.
LEMMA AcceptsHead ==
    ASSUME TypeOK, HistoryInv, NEW w \in Workers, Active(w), ~At(w, "put"), heads' = heads,
           run[w].remote.doc # None, open'[Home[w]] = open[Home[w]],
           NEW skip, rowState' = [rowState EXCEPT ![Home[w]] = Recorded(@, run[w].remote.doc, skip)],
           binding'[Home[w]].head = run[w].remote.doc, binding'[Home[w]].etag = run[w].remote.etag,
           binding'[Home[w]].pending = binding[Home[w]].pending
    PROVE  /\ ReplicaKnows(Home[w])'
           /\ \A q \in Replicas \ {Home[w]} : rowState'[q] = rowState[q]
           /\ PlanSound(run[w], rowState[Home[w]].base) =>
                 \A y : y.pc # "apply" /\ y.remote = run[w].remote /\ y.plan = run[w].plan =>
                    PlanSound(y, rowState'[Home[w]].base)
<1> DEFINE r == Home[w]
           x == run[w]
           d == x.remote.doc
<1>0. r \in Replicas /\ rowState[r] \in RowState /\ Names(d, x.remote.etag)
    BY HistoryFacts DEF KnowsAt, Knows
<1>1. d \in Doc /\ (\A k \in Keys : Remote(x).rows[k] = d.rows[k]) /\ \A k \in Keys : Published(k, d.rows[k])
    BY RemoteStands
<1>2. rowState'[r] = Recorded(rowState[r], d, skip) /\ \A q \in Replicas \ {r} : rowState'[q] = rowState[q]
    BY <1>0 DEF TypeOK
<1>3. \A k \in Keys : /\ rowState'[r].base[k] \in {None, rowState[r].base[k], d.rows[k]}
                      /\ d.rows[k] # None /\ rowState[r].base[k] = d.rows[k] => rowState'[r].base[k] = d.rows[k]
    BY <1>0, <1>1, <1>2, RecordedSound
<1>4. ReplicaKnows(r)'
  <2>1. \A k \in Keys : rowState'[r].base[k] \in {None, rowState[r].base[k]} \/ Published(k, rowState'[r].base[k])
      BY <1>1, <1>3
  <2> QED BY <1>0, <2>1, ReplicaStep
<1>5. ASSUME PlanSound(x, rowState[r].base), NEW y, y.pc # "apply", y.remote = x.remote, y.plan = x.plan
      PROVE  PlanSound(y, rowState'[r].base)
  <2>1. Remote(y) = Remote(x)
      BY <1>5 DEF Remote
  <2> QED BY <1>1, <1>3, <1>5, <2>1 DEF PlanSound
<1> QED BY <1>2, <1>4, <1>5

LEMMA ApplyHistory ==
    ASSUME TypeOK, RequestsOK, HistoryInv, NEW w \in Workers, Apply(w) \/ ApplyAckLost(w)
    PROVE  HistoryInv'
<1> DEFINE r == Home[w]
           x == run[w]
<1>0. /\ Active(w) /\ ~At(w, "put") /\ UNCHANGED <<heads, cur, minted, open>> /\ x.pc = "apply"
      /\ x.remote.doc # None
    BY DEF Apply, ApplyAckLost, Active, At, cloud, bounds, RequestsOK, RequestOK
<1>1. PlanSound(x, rowState[r].base) /\ Names(x.remote.doc, x.remote.etag) /\ r \in Replicas /\ x \in Run
    BY <1>0, HistoryFacts DEF KnowsAt, Knows
<1>2. CASE ~MayApply(w) /\ Apply(w)
    BY <1>0, <1>2, EndsQuietly DEF Apply, Fail
<1>3. CASE Apply(w) /\ MayApply(w)
  <2> DEFINE y == [x EXCEPT !.pc = AfterApply(x)]
  <2>1. AfterApply(x) \in {"remember", "anchor", "accept", "build", "finish"}
      BY DEF AfterApply, AfterRemember, Onward
  <2>2. y.pc = AfterApply(x) /\ y.remote = x.remote /\ y.plan = x.plan
      BY <1>1 DEF Run
  <2>3. /\ run' = [run EXCEPT ![w] = y] /\ UNCHANGED lease
        /\ binding' = [binding EXCEPT ![r] = Accepted(@, x.remote)]
        /\ rowState' = [rowState EXCEPT ![r] = Recorded(@, x.remote.doc, x.skip)]
      BY <1>3 DEF Apply, Committed, Goto, TypeOK
  <2>4. /\ binding'[r].head = x.remote.doc /\ binding'[r].etag = x.remote.etag
        /\ binding'[r].pending = binding[r].pending /\ binding'[r].enabled = binding[r].enabled
        /\ \A q \in Replicas \ {r} : binding'[q] = binding[q]
      BY <2>3, HistoryFacts, AcceptedNames DEF TypeOK
  <2> HIDE DEF y
  <2>5. ReplicaKnows(r)' /\ PlanSound(y, rowState'[r].base) /\ \A q \in Replicas \ {r} : rowState'[q] = rowState[q]
      BY <1>0, <1>1, <2>1, <2>2, <2>3, <2>4, AcceptsHead
  <2>6. Knows(y, r, binding'[r], rowState'[r].base)
      BY <1>1, <2>1, <2>2, <2>5 DEF Knows
  <2> QED BY <1>0, <2>1, <2>2, <2>3, <2>4, <2>5, <2>6, Goes DEF OnlyAt
<1>4. CASE ApplyAckLost(w)
  <2> DEFINE a == Accepted(binding[r], x.remote)
  <2>1. /\ End(w)
        /\ binding' = [binding EXCEPT ![r] = [a EXCEPT !.phase = "publication_unknown"]]
        /\ rowState' = [rowState EXCEPT ![r] = Recorded(@, x.remote.doc, x.skip)]
      BY <1>1, <1>4 DEF ApplyAckLost, Committed, TypeOK
  <2>2. a \in Binding /\ a.head = x.remote.doc /\ a.etag = x.remote.etag
        /\ a.pending = binding[r].pending /\ a.enabled = binding[r].enabled
    <3>1. x.remote \in Reply /\ binding[r] \in Binding
        BY <1>1, HistoryFacts DEF Run
    <3> QED BY <1>0, <3>1, AcceptedNames, AcceptedType
  <2> HIDE DEF a
  <2>3. /\ binding'[r].head = x.remote.doc /\ binding'[r].etag = x.remote.etag
        /\ binding'[r].pending = binding[r].pending /\ binding'[r].enabled = binding[r].enabled
        /\ \A q \in Replicas \ {r} : binding'[q] = binding[q]
      BY <1>1, <2>1, <2>2 DEF TypeOK, Binding
  <2>4. ReplicaKnows(r)' /\ \A q \in Replicas \ {r} : rowState'[q] = rowState[q]
      BY <1>0, <2>1, <2>3, AcceptsHead
  <2> QED BY <1>0, <2>1, <2>3, <2>4, Stops DEF OnlyAt
<1> QED BY <1>2, <1>3, <1>4

LEMMA RememberHistory ==
    ASSUME TypeOK, HistoryInv, NEW w \in Workers, Remember(w)
    PROVE  HistoryInv'
<1> DEFINE r == Home[w]
           x == run[w]
           y == [x EXCEPT !.pc = AfterRemember(x)]
           Image(k) == [local |-> x.cap.rows[k], remote |-> Remote(x).rows[k]]
<1>0. /\ Active(w) /\ ~At(w, "put") /\ UNCHANGED <<heads, cur, minted, rowState, binding, lease>>
      /\ x.pc = "remember"
    BY DEF Remember, Active, At, cloud, bounds
<1>1. PlanSound(x, rowState[r].base) /\ Names(x.remote.doc, x.remote.etag) /\ r \in Replicas /\ x \in Run
    BY <1>0, HistoryFacts DEF KnowsAt, Knows
<1>2. AfterRemember(x) \in {"anchor", "accept", "build", "finish"}
    BY DEF AfterRemember, Onward
<1>3. y.pc = AfterRemember(x) /\ y.remote = x.remote /\ y.plan = x.plan
    BY <1>1 DEF Run
<1>4. run' = [run EXCEPT ![w] = y]
      /\ open' = [open EXCEPT ![r] = [k \in Keys |-> IF k \in x.skip THEN Image(k) ELSE @[k]]]
    BY DEF Remember, Goto, TypeOK
<1>5. /\ \A q \in Replicas \ {r} : open'[q] = open[q]
      /\ \A k \in Keys : open'[r][k] \in {open[r][k], Image(k)}
    BY <1>1, <1>4 DEF TypeOK
<1>6. \A k \in Keys : Remote(x).rows[k] = None \/ Published(k, Remote(x).rows[k])
  <2>1. CASE x.remote.doc = None
      BY <2>1 DEF Remote, NoCapture
  <2> QED BY <2>1, RemoteStands
<1>7. \A k \in Keys : \/ open'[r][k] \in {None, open[r][k]} \/ open'[r][k].remote = None
                      \/ Published(k, open'[r][k].remote)
  <2> TAKE k \in Keys
  <2>1. Image(k).remote = Remote(x).rows[k]
      OBVIOUS
  <2> HIDE DEF Image
  <2>2. Image(k).remote = None \/ Published(k, Image(k).remote)
      BY <1>6, <2>1
  <2> QED BY <1>5, <2>2
<1>8. ReplicaKnows(r)'
  <2>1. Names(binding'[r].head, binding'[r].etag)
      BY <1>0, HistoryFacts DEF ReplicaKnows
  <2> QED BY <1>0, <1>7, <2>1, ReplicaStep
<1> HIDE DEF y
<1>9. Remote(y) = Remote(x)
    BY <1>3 DEF Remote
<1>10. Knows(y, r, binding'[r], rowState'[r].base)
    BY <1>0, <1>1, <1>2, <1>3, <1>9 DEF Knows, PlanSound
<1> QED BY <1>0, <1>2, <1>3, <1>4, <1>5, <1>8, <1>10, Goes DEF OnlyAt

LEMMA AcceptHistory ==
    ASSUME TypeOK, RequestsOK, HistoryInv, NEW w \in Workers, Accept(w)
    PROVE  HistoryInv'
<1> DEFINE r == Home[w]
           x == run[w]
           y == [x EXCEPT !.pc = Onward(x)]
<1>0. /\ Active(w) /\ ~At(w, "put") /\ UNCHANGED <<heads, cur, minted, open>> /\ x.pc = "accept"
      /\ x.remote.doc # None
    BY DEF Accept, Active, At, cloud, bounds, RequestsOK, RequestOK
<1>1. PlanSound(x, rowState[r].base) /\ Names(x.remote.doc, x.remote.etag) /\ r \in Replicas /\ x \in Run
    BY <1>0, HistoryFacts DEF KnowsAt, Knows
<1>2. Onward(x) \in {"build", "finish"}
    BY DEF Onward
<1>3. y.pc = Onward(x) /\ y.remote = x.remote /\ y.plan = x.plan
    BY <1>1 DEF Run
<1>4. CASE run' = [run EXCEPT ![w] = y] /\ UNCHANGED <<rowState, binding, lease>>
  <2>1. ReplicaKnows(r)'
      BY <1>0, <1>4, ReplicaStays
  <2> HIDE DEF y
  <2>2. Remote(y) = Remote(x)
      BY <1>3 DEF Remote
  <2>3. Knows(y, r, binding'[r], rowState'[r].base)
      BY <1>1, <1>2, <1>3, <1>4, <1>0, <2>2 DEF Knows, PlanSound
  <2> QED BY <1>0, <1>2, <1>3, <1>4, <2>1, <2>3, Goes DEF OnlyAt
<1>5. CASE /\ run' = [run EXCEPT ![w] = y] /\ UNCHANGED lease
           /\ rowState' = [rowState EXCEPT ![r] = Recorded(@, x.remote.doc, x.skip)]
           /\ binding' = [binding EXCEPT ![r] = Accepted(@, x.remote)]
  <2>1. /\ binding'[r].head = x.remote.doc /\ binding'[r].etag = x.remote.etag
        /\ binding'[r].pending = binding[r].pending /\ binding'[r].enabled = binding[r].enabled
        /\ \A q \in Replicas \ {r} : binding'[q] = binding[q]
      BY <1>5, HistoryFacts, AcceptedNames DEF TypeOK
  <2> HIDE DEF y
  <2>2. ReplicaKnows(r)' /\ PlanSound(y, rowState'[r].base) /\ \A q \in Replicas \ {r} : rowState'[q] = rowState[q]
      BY <1>0, <1>1, <1>2, <1>3, <1>5, <2>1, AcceptsHead
  <2>3. Knows(y, r, binding'[r], rowState'[r].base)
      BY <1>1, <1>2, <1>3, <2>2 DEF Knows
  <2> QED BY <1>0, <1>2, <1>3, <1>5, <2>1, <2>2, <2>3, Goes DEF OnlyAt
<1>6. CASE Fail(w) /\ UNCHANGED rowState
    BY <1>0, <1>6, EndsQuietly DEF Fail
<1> QED BY <1>4, <1>5, <1>6 DEF Accept, Goto, TypeOK

LEMMA AnchorHistory ==
    ASSUME TypeOK, RequestsOK, HistoryInv, NEW w \in Workers, Anchor(w)
    PROVE  HistoryInv'
<1> DEFINE r == Home[w]
           x == run[w]
           b == binding[r]
           waiting == KeysOf(x.plan, {"pending-local", "conflict"})
           a == Anchored(b, Content(x.remote.doc), x.remote.doc.gen)
           phase == IF waiting = {} THEN "linked" ELSE "bootstrap"
           l == [a EXCEPT !.etag = x.remote.etag, !.head = x.remote.doc, !.pending = b.pending, !.phase = phase]
           y == [x EXCEPT !.pc = "finish"]
<1>0. /\ Active(w) /\ ~At(w, "put") /\ UNCHANGED <<heads, cur, minted, open, lease>> /\ x.pc = "anchor"
      /\ x.remote.doc # None
    BY DEF Anchor, Active, At, cloud, bounds, RequestsOK, RequestOK
<1>1. Names(x.remote.doc, x.remote.etag) /\ r \in Replicas /\ x \in Run /\ b \in Binding /\ Holds(w)
    BY <1>0, HistoryFacts DEF KnowsAt, Knows
<1>2. run' = [run EXCEPT ![w] = y] /\ binding' = [binding EXCEPT ![r] = l]
      /\ rowState' = [rowState EXCEPT ![r] = Recorded(@, x.remote.doc, waiting)]
    BY <1>1 DEF Anchor, Goto, TypeOK
<1>3. y.pc = "finish" /\ y.remote = x.remote
    BY <1>1 DEF Run
<1>4. a \in Binding /\ a.enabled = b.enabled
  <2>1. x.remote.doc.gen \in Nat /\ Content(x.remote.doc) \in ContentSet
      BY <1>0, RemoteStands, ContentType DEF Doc
  <2> QED BY <1>1, <2>1, AnchoredType DEF Anchored, Binding
<1> HIDE DEF a, phase
<1>5. l.head = x.remote.doc /\ l.etag = x.remote.etag /\ l.pending = b.pending /\ l.enabled = b.enabled
    BY <1>4 DEF Binding
<1> HIDE DEF l
<1>6. binding'[r] = l /\ \A q \in Replicas \ {r} : binding'[q] = binding[q]
    BY <1>1, <1>2 DEF TypeOK
<1> HIDE DEF y
<1>7. ReplicaKnows(r)' /\ \A q \in Replicas \ {r} : rowState'[q] = rowState[q]
    BY <1>0, <1>2, <1>5, <1>6, AcceptsHead
<1>8. Knows(y, r, binding'[r], rowState'[r].base)
    BY <1>1, <1>3 DEF Knows
<1> QED BY <1>0, <1>2, <1>3, <1>5, <1>6, <1>7, <1>8, Goes DEF OnlyAt

LEMMA BuildHistory ==
    ASSUME TypeOK, RequestsOK, HistoryInv, NEW w \in Workers, Build(w) \/ BuildStops(w)
    PROVE  HistoryInv'
<1> DEFINE r == Home[w]
           x == run[w]
           d == Built(w)
           y == [x EXCEPT !.pc = "journal", !.doc = d, !.cap = Local(r)]
<1>0. Active(w) /\ ~At(w, "put") /\ UNCHANGED <<heads, cur, rowState, open, binding>> /\ x.pc = "build"
    BY DEF Build, BuildStops, Active, At, cloud
<1>1. /\ PlanSound(x, rowState[r].base) /\ Names(x.remote.doc, x.remote.etag) /\ r \in Replicas /\ x \in Run
      /\ OpsOnce /\ minted \in Nat
    BY <1>0, HistoryFacts DEF KnowsAt, Knows, TypeOK
<1>2. CASE BuildStops(w)
    BY <1>0, <1>2, EndsQuietly DEF BuildStops, bounds
<1>3. CASE Build(w)
  <2>1. run' = [run EXCEPT ![w] = y] /\ UNCHANGED lease /\ minted' = minted + 1
      BY <1>3 DEF Build
  <2>2. y.pc = "journal" /\ y.remote = x.remote /\ y.doc = d
      BY <1>1 DEF Run
  <2>3. /\ d.op = minted + 1 /\ d.by = r /\ d.rows = PublishedRows(x, rows[r])
        /\ d.parent = IF x.remote.doc = None THEN None ELSE x.remote.doc.op
        /\ d.gen = 1 + IF x.remote.doc = None THEN IF x.seen.head = None THEN 0 ELSE x.seen.head.gen
                       ELSE x.remote.doc.gen
      BY DEF Built
  <2>4. ASSUME x.remote.doc # None PROVE d.gen = x.remote.doc.gen + 1
    <3>1. x.remote.doc.gen \in Nat
        BY <2>4, RemoteStands DEF Doc
    <3> QED BY <2>3, <2>4, <3>1
  <2>5. ASSUME NEW k \in Keys, Remote(x).rows[k] # None, d.rows[k] # Remote(x).rows[k]
        PROVE  rowState[r].base[k] = Remote(x).rows[k]
    <3>1. x.remote.doc # None
        BY <2>5 DEF Remote, NoCapture
    <3>2. x.plan[k] \in Replaces
        BY <2>3, <2>5, <3>1 DEF PublishedRows, Replaces
    <3> QED BY <1>1, <2>5, <3>2 DEF PlanSound
  <2> HIDE DEF y, d
  <2>6. Remote(y) = Remote(x)
      BY <2>2 DEF Remote
  <2>7. DocSound(y, rowState[r].base, r)
      BY <2>2, <2>3, <2>4, <2>5, <2>6 DEF DocSound
  <2>8. run'[w] = y /\ \A v \in Workers \ {w} : run'[v] = run[v]
      BY <2>1 DEF TypeOK
  <2>9. KnowsAt(w)'
      BY <1>0, <1>1, <2>2, <2>7, <2>8 DEF KnowsAt, Knows, Names, DocSound, Remote
  <2>10. OpsOnce'
    <3>1. \A v \in Workers : Unsent(v)' => v = w \/ (Unsent(v) /\ run'[v].doc = run[v].doc)
        BY <2>8 DEF Unsent
    <3>2. \A e \in 1..Len(heads) : heads[e].op \in Nat /\ heads[e].op <= minted
      <4>1. \A e \in 1..Len(heads) : heads[e] \in Doc
          BY HistoryFacts
      <4> QED BY <1>1, <4>1 DEF OpsOnce, Doc
    <3>3. \A v \in Workers : Unsent(v) => run[v].doc.op <= minted
        BY <1>1 DEF OpsOnce
    <3>4. \A v \in Workers : Unsent(v) /\ v # w => run[v].doc.op # minted + 1 /\ run[v].doc.op <= minted + 1
      <4>1. \A v \in Workers : Unsent(v) => run[v].doc \in MaybeDoc
          BY DEF TypeOK, Run
      <4>2. ASSUME NEW v \in Workers, Unsent(v) PROVE run[v].doc.op \in Nat
        <5>1. run[v].doc # None
            BY <4>2 DEF Unsent, RequestsOK, RequestOK
        <5> QED BY <4>1, <4>2, <5>1 DEF MaybeDoc, Doc
      <4> QED BY <1>1, <3>3, <4>2
    <3>5. run'[w].doc.op = minted + 1
        BY <2>2, <2>3, <2>8
    <3> QED BY <1>0, <1>1, <2>1, <3>1, <3>2, <3>3, <3>4, <3>5 DEF OpsOnce
  <2>11. ReplicaKnows(r)'
      BY <1>0, ReplicaStays
  <2>12. Active(w)'
      BY <2>2, <2>8 DEF Active
  <2> QED BY <1>0, <2>1, <2>8, <2>9, <2>10, <2>11, <2>12, WorkerStep DEF OnlyAt, Grows
<1> QED BY <1>2, <1>3

LEMMA JournalHistory ==
    ASSUME TypeOK, HistoryInv, NEW w \in Workers, Journal(w)
    PROVE  HistoryInv'
<1> DEFINE r == Home[w]
           x == run[w]
           entry == [doc |-> x.doc, capture |-> x.cap, applied |-> FALSE,
                     parent |-> x.remote.doc, parentEtag |-> x.remote.etag, attempts |-> 0]
           y == [x EXCEPT !.pc = "put", !.sent = TRUE]
<1>0. Active(w) /\ ~At(w, "put") /\ UNCHANGED <<heads, cur, minted, rowState, open>> /\ x.pc = "journal"
    BY DEF Journal, Active, At, cloud, bounds
<1>1. /\ Names(x.remote.doc, x.remote.etag) /\ DocSound(x, rowState[r].base, r)
      /\ r \in Replicas /\ x \in Run /\ Holds(w) /\ ReplicaKnows(r) /\ OpsOnce
    BY <1>0, HistoryFacts DEF KnowsAt, Knows
<1>2. CASE End(w) /\ UNCHANGED binding
    BY <1>0, <1>2, EndsQuietly
<1>3. CASE /\ binding' = [binding EXCEPT ![r].pending = entry]
           /\ run' = [run EXCEPT ![w] = y] /\ UNCHANGED lease
  <2>1. y.pc = "put" /\ y.remote = x.remote /\ y.doc = x.doc
      BY <1>1 DEF Run
  <2>2. entry.doc = x.doc /\ entry.parentEtag = x.remote.etag
      OBVIOUS
  <2> HIDE DEF y, entry
  <2>3. run'[w] = y /\ \A v \in Workers \ {w} : run'[v] = run[v]
      BY <1>3 DEF TypeOK
  <2>4. /\ binding'[r].head = binding[r].head /\ binding'[r].etag = binding[r].etag
        /\ binding'[r].pending = entry /\ binding'[r].enabled = binding[r].enabled
        /\ \A q \in Replicas \ {r} : binding'[q] = binding[q]
      BY <1>1, <1>3 DEF TypeOK, Binding
  <2>5. \E v \in Workers : /\ Home[v] = r /\ run'[v].pc = "put"
                           /\ run'[v].doc = entry.doc /\ run'[v].remote.etag = entry.parentEtag
      BY <2>1, <2>2, <2>3
  <2>6. ReplicaKnows(r)'
    <3>1. Names(binding[r].head, binding[r].etag)'
        BY <1>0, <1>1, <2>4 DEF ReplicaKnows, Names
    <3>2. Sending(r, binding[r].pending)'
        BY <2>4, <2>5 DEF Sending, At
    <3> QED BY <1>0, <1>1, <2>4, <3>1, <3>2 DEF ReplicaKnows, Published
  <2>7. KnowsAt(w)'
      BY <1>0, <1>1, <2>1, <2>3 DEF KnowsAt, Knows, Names, DocSound, Remote
  <2>8. OpsOnce'
    <3>1. \A v \in Workers : Unsent(v)' => Unsent(v) /\ run'[v].doc = run[v].doc
        BY <1>0, <2>1, <2>3 DEF Unsent
    <3> QED BY <1>0, <1>1, <3>1, OpsQuiet
  <2>9. Active(w)'
      BY <2>1, <2>3 DEF Active
  <2> QED BY <1>0, <1>3, <2>3, <2>4, <2>6, <2>7, <2>8, <2>9, WorkerStep DEF OnlyAt, Grows
<1> QED BY <1>1, <1>2, <1>3 DEF Journal

\* The head that is stored is the journaled one, and its operation is new.
LEMMA StoresHead ==
    ASSUME TypeOK, RequestsOK, HistoryInv, NEW w \in Workers, At(w, "put"), run[w].remote.etag = cur,
           Stored(run[w].doc), UNCHANGED <<minted, rowState, open>>,
           \A v \in Workers \ {w} : run'[v] = run[v], ~Unsent(w)',
           binding'[Home[w]].head = binding[Home[w]].head, binding'[Home[w]].etag = binding[Home[w]].etag,
           binding'[Home[w]].pending = binding[Home[w]].pending
    PROVE  Grows /\ OpsOnce' /\ ReplicaKnows(Home[w])'
<1> DEFINE r == Home[w]
           d == run[w].doc
           n == Len(heads)
<1>1. /\ OpsOnce /\ ReplicaKnows(r) /\ heads \in Seq(Doc) /\ n \in Nat /\ Active(w) /\ Unsent(w)
      /\ r \in Replicas
    BY HistoryFacts DEF At, Active, Unsent
<1>2. d \in Doc
    BY <1>1, HistoryFacts DEF At, RequestsOK, RequestOK, Run, MaybeDoc
<1>3. Grows /\ heads' = Append(heads, d) /\ cur' = n + 1 /\ cur = n
    BY <1>1, <1>2 DEF Stored, Grows, OpsOnce
<1>4. Len(heads') = n + 1 /\ heads'[n + 1] = d /\ \A e \in 1..n : heads'[e] = heads[e]
    BY <1>1, <1>2, <1>3
<1>5. OpsOnce'
  <2>1. \A e \in 1..(n + 1) : e \in 1..n \/ e = n + 1
      BY <1>1
  <2>2. d.op <= minted /\ \A e \in 1..n : heads[e].op # d.op
      BY <1>1 DEF OpsOnce
  <2>3. \A e \in 1..(n + 1) : heads'[e].op <= minted
      BY <1>1, <1>4, <2>1, <2>2 DEF OpsOnce
  <2>4. \A e, f \in 1..(n + 1) : heads'[e].op = heads'[f].op => e = f
      BY <1>1, <1>4, <2>1, <2>2 DEF OpsOnce
  <2>5. \A v \in Workers : Unsent(v)' => v # w /\ Unsent(v) /\ run'[v].doc = run[v].doc
      BY DEF Unsent
  <2>6. ASSUME NEW v \in Workers, Unsent(v)'
        PROVE  run'[v].doc.op <= minted /\ \A e \in 1..(n + 1) : heads'[e].op # run'[v].doc.op
    <3>1. v # w /\ Unsent(v) /\ run'[v].doc = run[v].doc
        BY <2>5, <2>6
    <3>2. run[v].doc.op <= minted /\ \A e \in 1..n : heads[e].op # run[v].doc.op
        BY <1>1, <3>1 DEF OpsOnce
    <3>3. run[v].doc.op # d.op
        BY <1>1, <3>1 DEF OpsOnce
    <3> QED BY <1>4, <2>1, <3>1, <3>2, <3>3
  <2>7. \A u, v \in Workers : Unsent(u)' /\ Unsent(v)' /\ run'[u].doc.op = run'[v].doc.op => u = v
      BY <1>1, <2>5 DEF OpsOnce
  <2> QED BY <1>3, <1>4, <2>3, <2>4, <2>6, <2>7 DEF OpsOnce
<1>6. ReplicaKnows(r)'
  <2> DEFINE b == binding[r]
  <2>0. \A document, etag : Names(document, etag) => Names(document, etag)'
      BY <1>3, NamesGrow
  <2>1. Names(b.head, b.etag)'
    <3>1. Names(b.head, b.etag)
        BY <1>1 DEF ReplicaKnows
    <3> QED BY <2>0, <3>1 DEF Names
  <2>2. ASSUME b.pending # None PROVE Logged(b.pending)'
    <3>1. CASE Logged(b.pending)
      <4>1. Names(b.pending.doc, b.pending.parentEtag + 1)
          BY <3>1 DEF Logged
      <4> QED BY <2>0, <4>1 DEF Names, Logged
    <3>2. CASE Sending(r, b.pending)
      <4>1. PICK v \in Workers : /\ Home[v] = r /\ At(v, "put")
                                 /\ run[v].doc = b.pending.doc /\ run[v].remote.etag = b.pending.parentEtag
          BY <3>2 DEF Sending
      <4>2. v = w
          BY <1>1, <4>1, HolderAlone, HistoryFacts DEF At, Active
      <4>3. b.pending.doc = d /\ b.pending.parentEtag + 1 = n + 1
          BY <1>3, <4>1, <4>2
      <4>4. n + 1 # 0 /\ n + 1 \in 1..Len(heads')
          BY <1>1, <1>4
      <4> QED BY <1>4, <4>3, <4>4 DEF Logged, Names
    <3> QED BY <1>1, <2>2, <3>1, <3>2 DEF ReplicaKnows
  <2>3. \A k, row : Published(k, row) => \E e \in DOMAIN heads' : heads'[e].rows[k] = row
      BY <1>3, NamesGrow DEF Published
  <2>4. ASSUME NEW k \in Keys, rowState[r].base[k] # None
        PROVE  \E e \in DOMAIN heads' : heads'[e].rows[k] = rowState[r].base[k]
      BY <1>1, <2>3, <2>4 DEF ReplicaKnows
  <2>5. ASSUME NEW k \in Keys, open[r][k] # None, open[r][k].remote # None
        PROVE  \E e \in DOMAIN heads' : heads'[e].rows[k] = open[r][k].remote
      BY <1>1, <2>3, <2>5 DEF ReplicaKnows
  <2> QED BY <2>1, <2>2, <2>4, <2>5 DEF ReplicaKnows, Published, Names, Logged
<1> QED BY <1>3, <1>5, <1>6

LEMMA PutHistory ==
    ASSUME TypeOK, RequestsOK, HistoryInv, NEW w \in Workers, PutHead(w) \/ PutHeadAckLost(w)
    PROVE  HistoryInv'
<1> DEFINE r == Home[w]
           x == run[w]
           y == [x EXCEPT !.pc = "confirm"]
<1>0. /\ Active(w) /\ At(w, "put") /\ UNCHANGED <<minted, rowState, open>>
      /\ x.remote.etag = cur /\ Stored(x.doc)
    BY DEF PutHead, PutHeadAckLost, Active, At, bounds
<1>1. Names(x.remote.doc, x.remote.etag) /\ r \in Replicas /\ x \in Run
    BY HistoryFacts DEF KnowsAt, Knows
<1>2. CASE PutHead(w)
  <2>1. y.pc = "confirm" /\ y.remote = x.remote
      BY <1>1 DEF Run
  <2>2. run' = [run EXCEPT ![w] = y] /\ UNCHANGED <<binding, lease>>
      BY <1>2 DEF PutHead, Goto, TypeOK
  <2> HIDE DEF y
  <2>3. run'[w] = y /\ \A v \in Workers \ {w} : run'[v] = run[v]
      BY <2>2 DEF TypeOK
  <2>4. Active(w)' /\ ~Unsent(w)'
      BY <2>1, <2>3 DEF Active, Unsent
  <2>5. Grows /\ OpsOnce' /\ ReplicaKnows(r)'
      BY <1>0, <2>2, <2>3, <2>4, StoresHead
  <2>6. Names(run[w].remote.doc, run[w].remote.etag)'
    <3>1. \A document, etag : Names(document, etag) => Names(document, etag)'
        BY <2>5, NamesGrow
    <3>2. IF x.remote.etag = 0 THEN x.remote.doc = None
          ELSE x.remote.etag \in 1..Len(heads') /\ x.remote.doc = heads'[x.remote.etag]
        BY <1>1, <3>1 DEF Names
    <3>3. run'[w].remote = x.remote
        BY <2>1, <2>3
    <3> QED BY <3>2, <3>3 DEF Names
  <2>7. KnowsAt(w)'
      BY <2>1, <2>3, <2>6 DEF KnowsAt, Knows
  <2> QED BY <1>0, <2>2, <2>3, <2>4, <2>5, <2>7, WorkerStep DEF OnlyAt
<1>3. CASE PutHeadAckLost(w)
  <2>1. End(w) /\ binding' = Noted(w)
      BY <1>3 DEF PutHeadAckLost, Fail
  <2>2. /\ binding'[r].head = binding[r].head /\ binding'[r].etag = binding[r].etag
        /\ binding'[r].pending = binding[r].pending /\ binding'[r].enabled = binding[r].enabled
        /\ \A q \in Replicas \ {r} : binding'[q] = binding[q]
      BY <1>1, <2>1, NotedStays
  <2>3. Grows /\ OpsOnce' /\ ReplicaKnows(r)'
      BY <1>0, <2>1, <2>2, EndFacts, StoresHead
  <2> QED BY <1>0, <2>1, <2>2, <2>3, EndFacts, WorkerStep DEF OnlyAt
<1> QED BY <1>2, <1>3
LEMMA LostRaceHistory ==
    ASSUME TypeOK, HistoryInv, NEW w \in Workers, PutHeadLost(w)
    PROVE  HistoryInv'
<1> DEFINE r == Home[w]
           y == [IdleRun EXCEPT !.pc = "fetch", !.passes = run[w].passes + 1]
<1>0. Active(w) /\ UNCHANGED <<heads, cur, minted, rowState, open>> /\ r \in Replicas /\ ReplicaKnows(r)
    BY HistoryFacts DEF PutHeadLost, Active, At, cloud, bounds
<1>1. binding' = [binding EXCEPT ![r].pending = None]
    BY DEF PutHeadLost
<1>2. /\ binding'[r].head = binding[r].head /\ binding'[r].etag = binding[r].etag
      /\ binding'[r].pending = None /\ binding'[r].enabled = binding[r].enabled
      /\ \A q \in Replicas \ {r} : binding'[q] = binding[q]
    BY <1>0, <1>1 DEF TypeOK, Binding
<1>3. ReplicaKnows(r)'
    BY <1>0, <1>2 DEF ReplicaKnows, Names, Published
<1>4. CASE run' = [run EXCEPT ![w] = y] /\ UNCHANGED lease
  <2>1. y.pc = "fetch" /\ y.remote.doc = None /\ y.remote.etag = 0
      BY DEF IdleRun, NoReply
  <2> HIDE DEF y
  <2>2. Knows(y, r, binding'[r], rowState'[r].base)
      BY <2>1 DEF Knows, Names
  <2> QED BY <1>0, <1>2, <1>3, <1>4, <2>1, <2>2, Goes DEF OnlyAt
<1>5. CASE End(w)
    BY <1>0, <1>2, <1>3, <1>5, Stops DEF OnlyAt
<1> QED BY <1>4, <1>5 DEF PutHeadLost

LEMMA ConfirmHistory ==
    ASSUME TypeOK, HistoryInv, NEW w \in Workers, Confirm(w)
    PROVE  HistoryInv'
<1> DEFINE r == Home[w]
           x == run[w]
           b == binding[r]
           m == [b EXCEPT !.etag = cur, !.head = x.doc,
                          !.pending = IF @ = None THEN None ELSE [@ EXCEPT !.applied = TRUE]]
           y == [x EXCEPT !.pc = "settle", !.remote = [doc |-> x.doc, etag |-> cur]]
<1>0. Active(w) /\ ~At(w, "put") /\ UNCHANGED <<heads, cur, minted, rowState, open>>
    BY DEF Confirm, Active, At, cloud, bounds
<1>1. r \in Replicas /\ x \in Run /\ b \in Binding /\ cur = Len(heads) /\ Len(heads) \in Nat
    BY HistoryFacts DEF OpsOnce
<1>2. CASE End(w) /\ UNCHANGED binding
    BY <1>0, <1>2, EndsQuietly
<1>3. CASE Fail(w)
    BY <1>0, <1>3, EndsQuietly DEF Fail
<1>4. CASE /\ cur # 0 /\ heads[cur] = x.doc
           /\ binding' = [binding EXCEPT ![r] = m]
           /\ run' = [run EXCEPT ![w] = y] /\ UNCHANGED lease
  <2>1. y.pc = "settle" /\ y.remote = [doc |-> x.doc, etag |-> cur]
      BY <1>1 DEF Run
  <2>2. m.etag = cur /\ m.head = x.doc /\ m.enabled = b.enabled
        /\ m.pending = IF b.pending = None THEN None ELSE [b.pending EXCEPT !.applied = TRUE]
      BY <1>1 DEF Binding
  <2>3. b.pending # None =>
           [b.pending EXCEPT !.applied = TRUE].doc = b.pending.doc
           /\ [b.pending EXCEPT !.applied = TRUE].parentEtag = b.pending.parentEtag
      BY <1>1 DEF Binding, Pending
  <2>4. [doc |-> x.doc, etag |-> cur].doc = x.doc /\ [doc |-> x.doc, etag |-> cur].etag = cur
      OBVIOUS
  <2> HIDE DEF m, y
  <2>5. binding'[r] = m /\ \A q \in Replicas \ {r} : binding'[q] = binding[q]
      BY <1>1, <1>4 DEF TypeOK
  <2>6. Names(x.doc, cur)
      BY <1>1, <1>4 DEF Names
  <2>7. ReplicaKnows(r)'
    <3>1. Names(binding'[r].head, binding'[r].etag)
        BY <2>2, <2>5, <2>6
    <3>2. binding'[r].pending = None
          \/ /\ b.pending # None /\ binding'[r].pending.doc = b.pending.doc
             /\ binding'[r].pending.parentEtag = b.pending.parentEtag
        BY <2>2, <2>3, <2>5
    <3> QED BY <1>0, <3>1, <3>2, ReplicaStep
  <2>8. Knows(y, r, binding'[r], rowState'[r].base)
      BY <2>1, <2>4, <2>6 DEF Knows
  <2> QED BY <1>0, <1>4, <2>1, <2>2, <2>5, <2>7, <2>8, Goes DEF OnlyAt
<1> QED BY <1>2, <1>3, <1>4 DEF Confirm

LEMMA SettleHistory ==
    ASSUME TypeOK, RequestsOK, HistoryInv, NEW w \in Workers, Settle(w)
    PROVE  HistoryInv'
<1> DEFINE r == Home[w]
           x == run[w]
           d == x.remote.doc
           b == binding[r]
           a == Anchored(b, Content(d), d.gen)
           l == [a EXCEPT !.etag = x.remote.etag, !.head = d]
           s == Settled(rowState[r], d, x.skip)
           y == [x EXCEPT !.pc = "finish"]
<1>0. Active(w) /\ ~At(w, "put") /\ UNCHANGED <<heads, cur, minted, open>> /\ d # None
    BY DEF Settle, Active, At, cloud, bounds, RequestsOK, RequestOK
<1>1. /\ r \in Replicas /\ x \in Run /\ b \in Binding /\ Guarded(w) /\ rowState[r] \in RowState
      /\ Names(d, x.remote.etag) /\ d \in Doc /\ \A k \in Keys : Published(k, d.rows[k])
    BY <1>0, HistoryFacts, RemoteStands DEF KnowsAt, Knows
<1>2. /\ run' = [run EXCEPT ![w] = y] /\ UNCHANGED lease
      /\ binding' = [binding EXCEPT ![r] = l]
      /\ rowState' = [rowState EXCEPT ![r] = s]
    BY <1>1 DEF Settle, Goto, TypeOK
<1>3. y.pc = "finish" /\ y.remote = x.remote
    BY <1>1 DEF Run
<1>4. a \in Binding /\ a.enabled = b.enabled /\ a.pending = None
  <2>1. d.gen \in Nat /\ Content(d) \in ContentSet
      BY <1>1, ContentType DEF Doc
  <2> QED BY <1>1, <2>1, AnchoredType DEF Anchored, Binding
<1> HIDE DEF a
<1>5. l.head = d /\ l.etag = x.remote.etag /\ l.pending = None /\ l.enabled = b.enabled
    BY <1>4 DEF Binding
<1>6. \A k \in Keys : s.base[k] \in {None, rowState[r].base[k], d.rows[k]}
    BY DEF Settled
<1> HIDE DEF l, s, y
<1>7. binding'[r] = l /\ rowState'[r] = s
      /\ \A q \in Replicas \ {r} : binding'[q] = binding[q] /\ rowState'[q] = rowState[q]
    BY <1>1, <1>2 DEF TypeOK
<1>8. ReplicaKnows(r)'
  <2>1. \A k \in Keys : rowState'[r].base[k] \in {None, rowState[r].base[k]} \/ Published(k, rowState'[r].base[k])
      BY <1>1, <1>6, <1>7
  <2>2. Names(binding'[r].head, binding'[r].etag) /\ binding'[r].pending = None
      BY <1>1, <1>5, <1>7
  <2> QED BY <1>0, <2>1, <2>2, ReplicaStep
<1>9. Knows(y, r, binding'[r], rowState'[r].base)
    BY <1>1, <1>3 DEF Knows
<1> QED BY <1>0, <1>2, <1>3, <1>5, <1>7, <1>8, <1>9, Goes DEF OnlyAt

LEMMA FinishHistory ==
    ASSUME TypeOK, HistoryInv, NEW w \in Workers, Finish(w)
    PROVE  HistoryInv'
<1> DEFINE r == Home[w]
<1>0. Active(w) /\ ~At(w, "put") /\ UNCHANGED <<heads, cur, minted, rowState, open>> /\ End(w)
    BY DEF Finish, Active, At, cloud, bounds
<1>1. r \in Replicas /\ binding[r] \in Binding
    BY HistoryFacts
<1>2. \A phase : [binding[r] EXCEPT !.phase = phase].head = binding[r].head
                 /\ [binding[r] EXCEPT !.phase = phase].etag = binding[r].etag
                 /\ [binding[r] EXCEPT !.phase = phase].pending = binding[r].pending
                 /\ [binding[r] EXCEPT !.phase = phase].enabled = binding[r].enabled
    BY <1>1 DEF Binding
<1>3. \/ binding' = binding
      \/ \E phase : binding' = [binding EXCEPT ![r] = [binding[r] EXCEPT !.phase = phase]]
    BY <1>1 DEF Finish, TypeOK
<1>4. /\ binding'[r].head = binding[r].head /\ binding'[r].etag = binding[r].etag
      /\ binding'[r].pending = binding[r].pending /\ binding'[r].enabled = binding[r].enabled
      /\ \A q \in Replicas \ {r} : binding'[q] = binding[q]
  <2>1. CASE binding' = binding
      BY <2>1
  <2>2. CASE \E phase : binding' = [binding EXCEPT ![r] = [binding[r] EXCEPT !.phase = phase]]
    <3>1. PICK phase : binding' = [binding EXCEPT ![r] = [binding[r] EXCEPT !.phase = phase]]
        BY <2>2
    <3>2. binding'[r] = [binding[r] EXCEPT !.phase = phase] /\ \A q \in Replicas \ {r} : binding'[q] = binding[q]
        BY <1>1, <3>1 DEF TypeOK
    <3> QED BY <1>2, <3>2
  <2> QED BY <1>3, <2>1, <2>2
<1>5. ReplicaKnows(r)'
    BY <1>0, <1>4, ReplicaStays
<1> QED BY <1>0, <1>4, <1>5, Stops DEF OnlyAt

\* Nothing is retried: no request gets to those steps.
LEMMA NoRetry ==
    ASSUME HistoryInv, NEW w \in Workers
    PROVE  run[w].pc \notin {"retry-put", "retry-confirm", "retry-commit"}
BY DEF HistoryInv, KnowsAt, Knows
-----------------------------------------------------------------------------
(***************************************************************************)
(* The steps that take a lease, the reviews, the users and the faults.     *)
(***************************************************************************)
\* A request takes the lease of a replica where none is at work.
LEMMA TakesLease ==
    ASSUME TypeOK, HistoryInv, NEW w \in Workers, ~Active(w),
           binding[Home[w]].enabled, LeaseFree(Home[w]),
           lease' = [lease EXCEPT ![Home[w]] = [holder |-> w, live |-> TRUE]],
           NEW y, run' = [run EXCEPT ![w] = y], y.pc \in {"fetch", "resolve-fetch"},
           y.remote = run[w].remote,
           UNCHANGED <<heads, cur, minted, rowState, open, binding>>
    PROVE  HistoryInv'
<1> DEFINE r == Home[w]
<1>0. Leased /\ OpsOnce /\ KnowsAt(w) /\ r \in Replicas /\ w # None
    BY HistoryFacts, HomeType
<1>1. run'[w] = y /\ \A v \in Workers \ {w} : run'[v] = run[v]
    BY DEF TypeOK
<1>2. lease'[r] = [holder |-> w, live |-> TRUE] /\ \A q \in Replicas \ {r} : lease'[q] = lease[q]
    BY <1>0 DEF TypeOK
<1>3. [holder |-> w, live |-> TRUE].holder = w /\ [holder |-> w, live |-> TRUE].live = TRUE
    OBVIOUS
<1>4. Active(w)' /\ ~Unsent(w)' /\ Gate(w)'
    BY <1>1, <1>2, <1>3 DEF Active, Unsent, Gate, Holds
<1>5. ASSUME NEW v \in Workers, Active(v) PROVE Home[v] # r
    BY <1>0, <1>5, HomeType DEF Leased, Gate, Holds, LeaseFree
<1>6. ASSUME NEW v \in Workers, Active(v)' PROVE Gate(v)'
  <2>1. CASE v = w
      BY <1>4, <2>1
  <2>2. CASE v # w
    <3>1. Active(v)
        BY <1>1, <1>6, <2>2 DEF Active
    <3>2. lease'[Home[v]] = lease[Home[v]] /\ Gate(v)
        BY <1>0, <1>2, <1>5, <3>1, HomeType DEF Leased
    <3> QED BY <3>2 DEF Gate, Holds
  <2> QED BY <2>1, <2>2
<1>7. ASSUME NEW q \in Replicas, lease'[q].live
      PROVE  \E v \in Workers : Home[v] = q /\ Holds(v)' /\ Active(v)'
  <2>1. CASE q = r
      BY <1>4, <2>1 DEF Gate
  <2>2. CASE q # r
    <3>1. lease'[q] = lease[q]
        BY <1>2, <2>2
    <3>2. PICK v \in Workers : Home[v] = q /\ Holds(v) /\ Active(v)
        BY <1>0, <1>7, <3>1 DEF Leased
    <3>3. run'[v] = run[v]
        BY <1>1, <2>2, <3>2
    <3> QED BY <3>1, <3>2, <3>3 DEF Holds, Active
  <2> QED BY <2>1, <2>2
<1>8. OpsOnce'
    BY <1>0, <1>1, <1>4, OpsQuiet DEF Unsent
<1>9. KnowsAt(w)'
    BY <1>0, <1>1 DEF KnowsAt, Knows, Names
<1>10. \A v \in Workers : KnowsAt(v)'
    BY <1>1, <1>9, OthersKnow DEF Grows
<1>11. \A q \in Replicas : ReplicaKnows(q)'
    BY <1>1, OtherReplicas DEF Grows, Active, At
<1> QED BY <1>6, <1>7, <1>8, <1>10, <1>11 DEF HistoryInv, Leased

\* A request outside its lease moves, with what its last answer named.
LEMMA RestHistory ==
    ASSUME TypeOK, HistoryInv, NEW w \in Workers, ~Active(w),
           NEW y, run' = [run EXCEPT ![w] = y], y.pc \in {"idle", "resolve-lease"},
           y.remote = NoReply, UNCHANGED <<heads, cur, minted, rowState, open, binding, lease>>
    PROVE  HistoryInv'
<1>0. Leased /\ OpsOnce
    BY HistoryFacts
<1>1. run'[w] = y /\ \A v \in Workers \ {w} : run'[v] = run[v]
    BY DEF TypeOK
<1>2. ~Active(w)' /\ ~Unsent(w)' /\ \A v \in Workers : Active(v)' <=> Active(v)
    BY <1>1 DEF Active, Unsent
<1>3. Leased'
    BY <1>0, <1>2 DEF Leased, Gate, Holds
<1>4. OpsOnce'
    BY <1>0, <1>1, <1>2, OpsQuiet DEF Unsent
<1>5. y.remote.doc = None /\ y.remote.etag = 0
    BY DEF NoReply
<1>6. KnowsAt(w)'
    BY <1>1, <1>5 DEF KnowsAt, Knows, Names
<1>7. \A v \in Workers : KnowsAt(v)'
    BY <1>1, <1>6, OthersKnow DEF Grows
<1>8. \A q \in Replicas : ReplicaKnows(q)'
    BY <1>1, OtherReplicas DEF Grows, Active, At
<1> QED BY <1>3, <1>4, <1>7, <1>8 DEF HistoryInv

LEMMA StartHistory ==
    ASSUME TypeOK, HistoryInv, NEW w \in Workers, StartCycle(w) \/ ResolveStart(w)
    PROVE  HistoryInv'
<1>0. ~Active(w) /\ run[w] \in Run
    BY HistoryFacts DEF StartCycle, ResolveStart, StartResolve, Active, At
<1>1. CASE StartCycle(w)
  <2> DEFINE y == [run[w] EXCEPT !.pc = "fetch"]
  <2>1. y.pc = "fetch" /\ y.remote = run[w].remote
      BY <1>0 DEF Run
  <2>2. run' = [run EXCEPT ![w] = y]
      BY <1>1 DEF StartCycle, Goto, TypeOK
  <2> HIDE DEF y
  <2> QED BY <1>0, <1>1, <2>1, <2>2, TakesLease DEF StartCycle, cloud, bounds
<1>2. CASE ResolveStart(w)
  <2>1. PICK k \in Keys, choice \in {"keep-local", "keep-remote"} : StartResolve(w, k, choice)
      BY <1>2 DEF ResolveStart
  <2> DEFINE y == [IdleRun EXCEPT !.pc = "resolve-lease", !.seen = binding[Home[w]],
                                  !.key = k, !.choice = choice]
  <2>2. y.pc = "resolve-lease" /\ y.remote = NoReply
      BY DEF IdleRun
  <2>3. run' = [run EXCEPT ![w] = y]
      BY <2>1 DEF StartResolve
  <2> HIDE DEF y
  <2> QED BY <1>0, <2>1, <2>2, <2>3, RestHistory DEF StartResolve, cloud, bounds
<1> QED BY <1>1, <1>2

LEMMA ResolveLeaseHistory ==
    ASSUME TypeOK, HistoryInv, NEW w \in Workers, ResolveLease(w)
    PROVE  HistoryInv'
<1> DEFINE r == Home[w]
           y == [run[w] EXCEPT !.pc = "resolve-fetch", !.images = open[r][run[w].key]]
<1>0. ~Active(w) /\ run[w] \in Run /\ UNCHANGED <<heads, cur, minted, rowState, open, binding>>
    BY HistoryFacts DEF ResolveLease, Active, At, cloud, bounds
<1>1. CASE /\ binding[r].enabled /\ LeaseFree(r)
           /\ lease' = [lease EXCEPT ![r] = [holder |-> w, live |-> TRUE]]
           /\ run' = [run EXCEPT ![w] = y]
  <2>1. y.pc = "resolve-fetch" /\ y.remote = run[w].remote
      BY <1>0 DEF Run
  <2> HIDE DEF y
  <2> QED BY <1>0, <1>1, <2>1, TakesLease
<1>2. CASE run' = [run EXCEPT ![w] = IdleRun] /\ UNCHANGED lease
  <2>1. IdleRun.pc = "idle" /\ IdleRun.remote = NoReply
      BY DEF IdleRun
  <2> QED BY <1>0, <1>2, <2>1, RestHistory
<1> QED BY <1>1, <1>2 DEF ResolveLease

LEMMA ResolveFetchHistory ==
    ASSUME TypeOK, HistoryInv, NEW w \in Workers, ResolveFetch(w)
    PROVE  HistoryInv'
<1> DEFINE r == Home[w]
           y == [run[w] EXCEPT !.pc = "resolve-write"]
<1>0. /\ Active(w) /\ ~At(w, "put") /\ UNCHANGED <<heads, cur, minted, rowState, open, binding>>
      /\ run[w] \in Run /\ Names(run[w].remote.doc, run[w].remote.etag)
    BY HistoryFacts DEF ResolveFetch, Active, At, cloud, bounds, KnowsAt, Knows
<1>1. CASE End(w)
    BY <1>0, <1>1, EndsQuietly
<1>2. CASE run' = [run EXCEPT ![w] = y] /\ UNCHANGED lease
  <2>1. y.pc = "resolve-write" /\ y.remote = run[w].remote
      BY <1>0 DEF Run
  <2>2. ReplicaKnows(r)'
      BY <1>0, ReplicaStays
  <2> HIDE DEF y
  <2>3. Knows(y, r, binding'[r], rowState'[r].base)
      BY <1>0, <2>1 DEF Knows
  <2> QED BY <1>0, <1>2, <2>1, <2>2, <2>3, Goes DEF OnlyAt
<1> QED BY <1>1, <1>2 DEF ResolveFetch, Goto, TypeOK

\* The base that a choice leaves comes from the image of the head.
LEMMA ResolvedKnown ==
    ASSUME TypeOK, RequestsOK, HistoryInv, NEW w \in Workers, At(w, "resolve-write"),
           MayResolve(w), Resolved(w), heads' = heads,
           binding'[Home[w]].head = binding[Home[w]].head, binding'[Home[w]].etag = binding[Home[w]].etag,
           binding'[Home[w]].pending = binding[Home[w]].pending
    PROVE  /\ ReplicaKnows(Home[w])'
           /\ \A q \in Replicas \ {Home[w]} : rowState'[q] = rowState[q] /\ open'[q] = open[q]
<1> DEFINE r == Home[w]
           x == run[w]
           image == open[r][x.key]
           s == Chosen(rowState[r], x.key, x.choice, image)
<1>0. /\ Active(w) /\ ~At(w, "put") /\ r \in Replicas /\ ReplicaKnows(r) /\ rowState[r] \in RowState
      /\ x.key \in Keys /\ open[r] \in [Keys -> ConflictImages \union {None}]
    BY HistoryFacts DEF At, Active, RequestsOK, RequestOK, Run, TypeOK
<1>1. rowState' = [rowState EXCEPT ![r] = s] /\ open' = [open EXCEPT ![r][x.key] = None] /\ image # None
    BY DEF Resolved, MayResolve
<1>2. image.remote = None \/ Published(x.key, image.remote)
    BY <1>0, <1>1 DEF ReplicaKnows
<1>3. \A k \in Keys : s.base[k] \in {None, rowState[r].base[k]} \/ (k = x.key /\ s.base[k] = image.remote)
  <2>1. rowState[r].base \in [Keys -> MaybeRow]
      BY <1>0 DEF RowState, Table
  <2>2. \A base : \A k \in Keys :
           [rowState[r].base EXCEPT ![x.key] = base][k] = IF k = x.key THEN base ELSE rowState[r].base[k]
      BY <2>1
  <2>3. \/ s = rowState[r]
        \/ s.base = [rowState[r].base EXCEPT ![x.key] = None]
        \/ s.base = [rowState[r].base EXCEPT ![x.key] = image.remote]
      BY DEF Chosen
  <2>4. \A k \in Keys :
           /\ [rowState[r].base EXCEPT ![x.key] = None][k] \in {None, rowState[r].base[k]}
           /\ \/ [rowState[r].base EXCEPT ![x.key] = image.remote][k] = rowState[r].base[k]
              \/ k = x.key /\ [rowState[r].base EXCEPT ![x.key] = image.remote][k] = image.remote
      BY <2>2
  <2> HIDE DEF s, image
  <2>5. CASE s = rowState[r]
      BY <2>5
  <2>6. CASE s.base = [rowState[r].base EXCEPT ![x.key] = None]
      BY <2>4, <2>6
  <2>7. CASE s.base = [rowState[r].base EXCEPT ![x.key] = image.remote]
      BY <2>4, <2>7
  <2> QED BY <2>3, <2>5, <2>6, <2>7
<1> HIDE DEF s
<1>4. /\ rowState'[r] = s /\ \A k \in Keys : open'[r][k] \in {None, open[r][k]}
      /\ \A q \in Replicas \ {r} : rowState'[q] = rowState[q] /\ open'[q] = open[q]
    BY <1>0, <1>1 DEF TypeOK
<1>5. ReplicaKnows(r)'
  <2>1. Names(binding'[r].head, binding'[r].etag)
      BY <1>0 DEF ReplicaKnows
  <2>2. \A k \in Keys : rowState'[r].base[k] \in {None, rowState[r].base[k]} \/ Published(k, rowState'[r].base[k])
      BY <1>2, <1>3, <1>4
  <2>3. binding'[r].pending = None \/ (binding[r].pending # None
            /\ binding'[r].pending.doc = binding[r].pending.doc
            /\ binding'[r].pending.parentEtag = binding[r].pending.parentEtag)
      OBVIOUS
  <2> QED BY <1>0, <1>4, <2>1, <2>2, <2>3, ReplicaStep
<1> QED BY <1>4, <1>5

LEMMA ResolveWriteHistory ==
    ASSUME TypeOK, RequestsOK, HistoryInv, NEW w \in Workers, ResolveWrite(w) \/ ResolveAckLost(w)
    PROVE  HistoryInv'
<1> DEFINE r == Home[w]
<1>0. /\ Active(w) /\ ~At(w, "put") /\ UNCHANGED <<heads, cur, minted>> /\ At(w, "resolve-write")
      /\ End(w) /\ r \in Replicas
    BY HistoryFacts DEF ResolveWrite, ResolveAckLost, Active, At, cloud, bounds
<1>1. CASE UNCHANGED <<rowState, open, binding>>
    BY <1>0, <1>1, EndsQuietly
<1>2. CASE /\ MayResolve(w) /\ Resolved(w)
           /\ binding' = binding \/ binding' = [binding EXCEPT ![r].phase = "publication_unknown"]
  <2>1. /\ binding'[r].head = binding[r].head /\ binding'[r].etag = binding[r].etag
        /\ binding'[r].pending = binding[r].pending /\ binding'[r].enabled = binding[r].enabled
        /\ \A q \in Replicas \ {r} : binding'[q] = binding[q]
    <3>1. CASE binding' = binding
        BY <3>1
    <3>2. CASE binding' = [binding EXCEPT ![r].phase = "publication_unknown"]
      <4> DEFINE c == [binding[r] EXCEPT !.phase = "publication_unknown"]
      <4>1. binding[r] \in Binding
          BY HistoryFacts
      <4>2. c.head = binding[r].head /\ c.etag = binding[r].etag /\ c.pending = binding[r].pending
            /\ c.enabled = binding[r].enabled
          BY <4>1 DEF Binding
      <4>3. binding' = [binding EXCEPT ![r] = c]
          BY <1>0, <3>2 DEF TypeOK
      <4> HIDE DEF c
      <4>4. binding'[r] = c /\ \A q \in Replicas \ {r} : binding'[q] = binding[q]
          BY <1>0, <4>3 DEF TypeOK
      <4> QED BY <4>2, <4>4
    <3> QED BY <1>2, <3>1, <3>2
  <2>2. /\ ReplicaKnows(r)'
        /\ \A q \in Replicas \ {r} : rowState'[q] = rowState[q] /\ open'[q] = open[q]
      BY <1>0, <1>2, <2>1, ResolvedKnown
  <2>3. OnlyAt(r)
      BY <2>1, <2>2 DEF OnlyAt
  <2> QED BY <1>0, <2>1, <2>2, <2>3, Stops
<1> QED BY <1>1, <1>2 DEF ResolveWrite, ResolveAckLost
\* Where no request is at work the link may change; the heads and the requests stay.
LEMMA LinkedQuietly ==
    ASSUME TypeOK, HistoryInv, NEW r \in Replicas, \A v \in Workers : Active(v) => Home[v] # r,
           UNCHANGED <<heads, cur, minted, run>>, OnlyAt(r),
           \A q \in Replicas \ {r} : lease'[q] = lease[q], ~lease'[r].live, ReplicaKnows(r)'
    PROVE  HistoryInv'
<1>0. Leased /\ OpsOnce
    BY DEF HistoryInv
<1>1. \A v \in Workers : /\ Active(v)' <=> Active(v)
                         /\ Active(v) => Home[v] \in Replicas \ {r}
    BY HomeType DEF Active
<1>2. Leased'
    BY <1>0, <1>1 DEF Leased, Gate, Holds, OnlyAt
<1>3. OpsOnce'
    BY <1>0, OpsQuiet DEF Unsent
<1>4. \A v \in Workers : KnowsAt(v)'
    BY <1>1, OthersKnow DEF Grows, OnlyAt
<1>5. ASSUME NEW q \in Replicas, q # r PROVE ReplicaKnows(q)'
  <2>1. binding'[q] = binding[q] /\ rowState'[q] = rowState[q] /\ open'[q] = open[q]
      BY <1>5 DEF OnlyAt
  <2> QED BY <2>1, OtherReplicas DEF Grows
<1> QED BY <1>2, <1>3, <1>4, <1>5 DEF HistoryInv

LEMMA NobodyAtWork ==
    ASSUME TypeOK, HistoryInv, NEW r \in Replicas,
           ~lease[r].live \/ (UnlinkedOK /\ ~Linked(r))
    PROVE  /\ \A v \in Workers : Active(v) => Home[v] # r
           /\ ~lease[r].live
BY DEF HistoryInv, Leased, Gate, Holds, UnlinkedOK

LEMMA FreshKnows ==
    ASSUME NEW r \in Replicas, binding'[r].head = None, binding'[r].etag = 0, binding'[r].pending = None,
           \A k \in Keys : rowState'[r].base[k] = None, \A k \in Keys : open'[r][k] = None
    PROVE  ReplicaKnows(r)'
BY DEF ReplicaKnows, Names

LEMMA Untouched ==
    ASSUME HistoryInv, UNCHANGED <<heads, cur, minted, run, rowState, open, binding, lease>>
    PROVE  HistoryInv'
<1>1. Leased' /\ OpsOnce'
    BY DEF HistoryInv, Leased, Gate, Holds, Active, OpsOnce, Unsent
<1>2. \A r \in Replicas : ReplicaKnows(r)'
    BY DEF HistoryInv, ReplicaKnows, Names, Logged, Sending, Published, At
<1>3. \A w \in Workers : KnowsAt(w)'
    BY DEF HistoryInv, KnowsAt, Knows, Names, Logged, PlanSound, DocSound, Remote
<1> QED BY <1>1, <1>2, <1>3 DEF HistoryInv

LEMMA UserHistory ==
    ASSUME TypeOK, UnlinkedOK, HistoryInv, NEW r \in Replicas, UserStep(r)
    PROVE  HistoryInv'
<1>1. ASSUME NEW k \in Keys, Edit(r, k) \/ Remove(r, k) PROVE HistoryInv'
    BY <1>1, Untouched DEF Edit, Remove, UserWrites, cloud
<1>2. CASE Enable(r) \/ Pause(r)
  <2>1. /\ UNCHANGED <<heads, cur, minted, run, rowState, open, lease>> /\ ~lease[r].live
        /\ \E on : binding' = [binding EXCEPT ![r].enabled = on]
      BY <1>2 DEF Enable, Pause, cloud, bounds
  <2>2. PICK on : binding' = [binding EXCEPT ![r].enabled = on]
      BY <2>1
  <2>3. /\ binding'[r].head = binding[r].head /\ binding'[r].etag = binding[r].etag
        /\ binding'[r].pending = binding[r].pending
        /\ \A q \in Replicas \ {r} : binding'[q] = binding[q]
    <3>1. binding[r] \in Binding
        BY DEF TypeOK
    <3> QED BY <2>2, <3>1 DEF TypeOK, Binding
  <2>4. ReplicaKnows(r)'
      BY <2>1, <2>3, OtherReplicas DEF Grows
  <2> QED BY <2>1, <2>3, <2>4, NobodyAtWork, LinkedQuietly DEF OnlyAt
<1>3. CASE Unlink(r)
  <2>1. /\ UNCHANGED <<heads, cur, minted, run>> /\ ~lease[r].live
        /\ binding' = [binding EXCEPT ![r] = Unlinked]
        /\ lease' = [lease EXCEPT ![r] = FreeLease]
        /\ rowState' = [rowState EXCEPT ![r] = NoRowState]
        /\ open' = [open EXCEPT ![r] = [k \in Keys |-> None]]
      BY <1>3 DEF Unlink, cloud
  <2>2. /\ binding'[r] = Unlinked /\ rowState'[r] = NoRowState /\ lease'[r] = FreeLease
        /\ open'[r] = [k \in Keys |-> None]
        /\ OnlyAt(r) /\ \A q \in Replicas \ {r} : lease'[q] = lease[q]
      BY <2>1 DEF TypeOK, OnlyAt
  <2>3. ReplicaKnows(r)'
      BY <2>2, FreshKnows DEF Unlinked, NoRowState
  <2>4. ~lease'[r].live
      BY <2>2 DEF FreeLease
  <2> QED BY <2>1, <2>2, <2>3, <2>4, NobodyAtWork, LinkedQuietly
<1> QED BY <1>1, <1>2, <1>3 DEF UserStep

LEMMA LinkHistory ==
    ASSUME TypeOK, UnlinkedOK, HistoryInv, NEW r \in Replicas, LinkStep(r)
    PROVE  HistoryInv'
<1>1. /\ UNCHANGED <<heads, cur, minted, run, rowState, open, lease>> /\ ~Linked(r)
      /\ \A q \in Replicas \ {r} : binding'[q] = binding[q]
    BY DEF LinkStep, LinkBegin, LinkDone, LinkAbort, Linked, TypeOK, cloud, bounds
<1>2. \/ /\ binding'[r].head = binding[r].head /\ binding'[r].etag = binding[r].etag
         /\ binding'[r].pending = binding[r].pending
      \/ binding'[r].head = None /\ binding'[r].etag = 0 /\ binding'[r].pending = None
  <2>1. binding[r] \in Binding
      BY DEF TypeOK
  <2>2. ASSUME NEW origin, LinkBegin(r, origin)
        PROVE  binding'[r].head = None /\ binding'[r].etag = 0 /\ binding'[r].pending = None
      BY <2>2 DEF LinkBegin, Unlinked, TypeOK
  <2>3. CASE LinkDone(r)
      BY <2>1, <2>3 DEF LinkDone, TypeOK, Binding
  <2>4. CASE LinkAbort(r)
      BY <2>4 DEF LinkAbort, Unlinked, TypeOK
  <2> QED BY <2>2, <2>3, <2>4 DEF LinkStep
<1>3. ReplicaKnows(r)'
    BY <1>1, <1>2 DEF HistoryInv, ReplicaKnows, Names, Logged, Sending, Published, At
<1> QED BY <1>1, <1>3, NobodyAtWork, LinkedQuietly DEF OnlyAt

\* A lease does not run out under a request at work, and its holder is always at work.
LEMMA NoExpiry ==
    ASSUME Answered, HistoryInv, NEW r \in Replicas, Expire(r)
    PROVE  FALSE
<1>1. PICK w \in Workers : Home[w] = r /\ Holds(w) /\ Active(w)
    BY DEF HistoryInv, Leased, Expire
<1>2. Fault("stall")
    BY <1>1 DEF Expire, Holds, Active, At
<1> QED BY <1>2 DEF Fault, Answered

LEMMA FailureHistory ==
    ASSUME TypeOK, HistoryInv, NEW w \in Workers, RequestFails(w)
    PROVE  HistoryInv'
<1>1. Active(w) /\ ~At(w, "put") /\ UNCHANGED <<heads, cur, minted, rowState, open>>
    BY DEF RequestFails, Active, At, cloud
<1>2. End(w) /\ (binding' = binding \/ binding' = Noted(w))
    BY DEF RequestFails, Fail
<1> QED BY <1>1, <1>2, EndsQuietly

LEMMA FaultHistory ==
    ASSUME Answered, TypeOK, RequestsOK, HistoryInv, FaultStep
    PROVE  HistoryInv'
<1>1. CASE \E r \in Replicas : Crash(r)
    BY <1>1 DEF Crash, Fault, Answered
<1>2. CASE CloudRollback \/ CloudLoss
    BY <1>2 DEF CloudRollback, CloudLoss, Fault, Answered
<1>3. ASSUME NEW w \in Workers, PutFails(w) \/ RetryPutAckLost(w) PROVE FALSE
    BY <1>3, NoRetry DEF PutFails, RetryPutAckLost, At, Fault, Answered
<1>4. ASSUME NEW w \in Workers,
             RequestFails(w) \/ PutHeadAckLost(w) \/ ApplyAckLost(w) \/ ResolveAckLost(w)
      PROVE  HistoryInv'
    BY <1>4, FailureHistory, PutHistory, ApplyHistory, ResolveWriteHistory
<1> QED BY <1>1, <1>2, <1>3, <1>4 DEF FaultStep

LEMMA CycleHistory ==
    ASSUME TypeOK, RequestsOK, HistoryInv, NEW w \in Workers, CycleStep(w)
    PROVE  HistoryInv'
<1>1. ASSUME RetryPut(w) \/ RetryPutStopped(w) \/ RetryConfirm(w) \/ RetryConfirmLate(w) \/ RetryCommit(w)
      PROVE  FALSE
    BY <1>1, NoRetry DEF RetryPut, RetryPutStopped, RetryConfirm, RetryConfirmLate, RetryCommit, At
<1>2. ASSUME PutHeadStopped(w) PROVE FALSE
    BY <1>2 DEF PutHeadStopped, At, Active, HistoryInv, Leased
<1> QED BY <1>1, <1>2, FetchHistory, PlanHistory, ApplyHistory, RememberHistory, AcceptHistory,
           AnchorHistory, BuildHistory, JournalHistory, PutHistory, LostRaceHistory, ConfirmHistory,
           SettleHistory, FinishHistory DEF CycleStep

LEMMA InitHistory == Init => HistoryInv
<1> SUFFICES ASSUME Init PROVE HistoryInv
  OBVIOUS
<1>1. heads = <<>> /\ cur = 0 /\ minted = 0 /\ Len(heads) = 0
    BY DEF Init
<1>2. \A w \in Workers : run[w] = IdleRun /\ Home[w] \in Replicas
    BY HomeType DEF Init
<1>3. \A r \in Replicas : /\ binding[r] = Unlinked /\ lease[r] = FreeLease
                          /\ rowState[r] = NoRowState /\ open[r] = [k \in Keys |-> None]
    BY DEF Init
<1>4. IdleRun.pc = "idle" /\ IdleRun.remote.doc = None /\ IdleRun.remote.etag = 0
    BY DEF IdleRun, NoReply
<1>5. Leased
    BY <1>2, <1>3, <1>4 DEF Leased, Active, FreeLease
<1>6. OpsOnce
    BY <1>1, <1>2, <1>4 DEF OpsOnce, Unsent
<1>7. \A r \in Replicas : ReplicaKnows(r)
    BY <1>3 DEF ReplicaKnows, Names, Unlinked, NoRowState
<1>8. \A w \in Workers : KnowsAt(w)
    BY <1>2, <1>4 DEF KnowsAt, Knows, Names
<1> QED BY <1>5, <1>6, <1>7, <1>8 DEF HistoryInv

LEMMA HistoryKept ==
    ASSUME Answered, Inv, HistoryInv, [Next]_vars
    PROVE  HistoryInv'
<1> USE DEF Inv
<1>1. CASE UNCHANGED vars
    BY <1>1, Untouched DEF vars
<1>2. ASSUME NEW r \in Replicas, UserStep(r) \/ LinkStep(r) \/ Expire(r)
      PROVE  HistoryInv'
    BY <1>2, UserHistory, LinkHistory, NoExpiry
<1>3. ASSUME NEW w \in Workers, StartCycle(w) \/ ResolveStart(w) \/ ResolveStep(w)
      PROVE  HistoryInv'
    BY <1>3, StartHistory, ResolveLeaseHistory, ResolveFetchHistory, ResolveWriteHistory DEF ResolveStep
<1>4. ASSUME NEW w \in Workers, CycleStep(w) PROVE HistoryInv'
    BY <1>4, CycleHistory
<1>5. CASE FaultStep
    BY <1>5, FaultHistory
<1> QED BY <1>1, <1>2, <1>3, <1>4, <1>5 DEF Next
-----------------------------------------------------------------------------
(***************************************************************************)
(* What follows: which steps store a head, and which write rows.           *)
(***************************************************************************)
\* The request w stores its document after the head it fetched.
Publishes(w) ==
    /\ At(w, "put") /\ run[w].remote.etag = cur
    /\ heads' = Append(heads, run[w].doc) /\ cur' = Len(heads) + 1

LEMMA HeadsMove ==
    ASSUME Answered, HistoryInv, Next
    PROVE  (heads' = heads /\ cur' = cur) \/ \E w \in Workers : Publishes(w)
<1>1. ASSUME NEW r \in Replicas, UserStep(r) \/ LinkStep(r) \/ Expire(r)
      PROVE  heads' = heads /\ cur' = cur
    BY <1>1 DEF UserStep, Edit, Remove, UserWrites, Enable, Pause, Unlink, LinkStep, LinkBegin,
       LinkDone, LinkAbort, Expire, cloud
<1>2. ASSUME NEW w \in Workers, StartCycle(w) \/ ResolveStart(w) \/ ResolveStep(w)
      PROVE  heads' = heads /\ cur' = cur
    BY <1>2 DEF StartCycle, ResolveStart, StartResolve, ResolveStep, ResolveLease, ResolveFetch,
       ResolveWrite, cloud
<1>3. ASSUME NEW w \in Workers, CycleStep(w)
      PROVE  (heads' = heads /\ cur' = cur) \/ Publishes(w)
  <2>1. CASE FetchHead(w) \/ PlanRecommit(w) \/ PlanRetry(w) \/ PlanMerge(w)
      BY <2>1 DEF FetchHead, PlanRecommit, PlanRetry, PlanMerge, cloud
  <2>2. CASE Apply(w) \/ Remember(w) \/ Accept(w) \/ Anchor(w)
      BY <2>2 DEF Apply, Remember, Accept, Anchor, cloud
  <2>3. CASE Build(w) \/ BuildStops(w) \/ Journal(w) \/ Confirm(w) \/ Settle(w) \/ Finish(w)
      BY <2>3 DEF Build, BuildStops, Journal, Confirm, Settle, Finish, cloud
  <2>4. CASE PutHead(w) \/ PutHeadLost(w) \/ PutHeadStopped(w)
      BY <2>4 DEF PutHead, PutHeadLost, PutHeadStopped, Stored, Publishes, cloud
  <2>5. CASE RetryPut(w) \/ RetryPutStopped(w) \/ RetryConfirm(w) \/ RetryConfirmLate(w) \/ RetryCommit(w)
      BY <2>5, NoRetry DEF RetryPut, RetryPutStopped, RetryConfirm, RetryConfirmLate, RetryCommit, At
  <2> QED BY <1>3, <2>1, <2>2, <2>3, <2>4, <2>5 DEF CycleStep
<1>4. CASE FaultStep
  <2>1. CASE (\E r \in Replicas : Crash(r)) \/ CloudRollback \/ CloudLoss
      BY <2>1 DEF Crash, CloudRollback, CloudLoss, Fault, Answered
  <2>2. ASSUME NEW w \in Workers, PutFails(w) \/ RetryPutAckLost(w) PROVE FALSE
      BY <2>2, NoRetry DEF PutFails, RetryPutAckLost, At, Fault, Answered
  <2>3. ASSUME NEW w \in Workers, RequestFails(w) \/ ApplyAckLost(w) \/ ResolveAckLost(w)
        PROVE  heads' = heads /\ cur' = cur
      BY <2>3 DEF RequestFails, ApplyAckLost, ResolveAckLost, cloud
  <2>4. ASSUME NEW w \in Workers, PutHeadAckLost(w) PROVE Publishes(w)
      BY <2>4 DEF PutHeadAckLost, Stored, Publishes
  <2> QED BY <1>4, <2>1, <2>2, <2>3, <2>4 DEF FaultStep
<1> QED BY <1>1, <1>2, <1>3, <1>4 DEF Next

\* A publication extends the head it was merged from, with a generation and an operation
\* of its own, and replaces only what was the base of its replica.
LEMMA PublishedSound ==
    ASSUME Inv, HistoryInv, NEW w \in Workers, Publishes(w)
    PROVE  LET document == run[w].doc
           IN  /\ document \in Doc /\ document.by = Home[w] /\ cur = Len(heads)
               /\ heads' = Append(heads, document)
               /\ cur = 0 => document.parent = None
               /\ cur # 0 =>
                     /\ document.parent = heads[cur].op /\ document.gen = heads[cur].gen + 1
                     /\ \A k \in Keys :
                           heads[cur].rows[k] # None /\ document.rows[k] # heads[cur].rows[k] =>
                              rowState[Home[w]].base[k] = heads[cur].rows[k]
<1> DEFINE x == run[w]
<1>1. TypeOK /\ RequestsOK
    BY DEF Inv
<1>2. /\ DocSound(x, rowState[Home[w]].base, Home[w]) /\ Names(x.remote.doc, x.remote.etag)
      /\ x \in Run /\ cur = Len(heads) /\ heads \in Seq(Doc)
    BY <1>1, HistoryFacts DEF KnowsAt, Knows, Publishes, At, OpsOnce
<1>3. x.doc \in Doc
    BY <1>1, <1>2 DEF Publishes, At, RequestsOK, RequestOK, Run, MaybeDoc
<1>4. x.remote.doc = IF cur = 0 THEN None ELSE heads[cur]
    BY <1>2 DEF Names, Publishes
<1>5. cur # 0 => x.remote.doc # None /\ \A k \in Keys : Remote(x).rows[k] = heads[cur].rows[k]
  <2> SUFFICES ASSUME cur # 0
               PROVE  x.remote.doc # None /\ \A k \in Keys : Remote(x).rows[k] = heads[cur].rows[k]
      OBVIOUS
  <2>1. cur \in 1..Len(heads)
      BY <1>1, <1>2 DEF TypeOK
  <2>2. heads[cur] \in Doc
      BY <1>2, <2>1
  <2>3. x.remote.doc = heads[cur] /\ x.remote.doc # None
      BY <1>4, <2>2, NoneAssumption
  <2> QED BY <1>1, <2>3, RemoteStands
<1> QED BY <1>2, <1>3, <1>4, <1>5 DEF DocSound, Publishes

LEMMA FunctionIsSequence ==
    ASSUME NEW S, NEW n \in Nat, NEW f \in [1..n -> S]
    PROVE  f \in Seq(S) /\ Len(f) = n
<1>1. Seq(S) = UNION {[1..m -> S] : m \in Nat}
    OBVIOUS
<1>2. f \in Seq(S)
    BY <1>1
<1> DEFINE m == Len(f)
<1>3. m \in Nat /\ 1..m = 1..n
    BY <1>2
<1> HIDE DEF m
<1>4. ~(m > n)
    BY <1>3, m \notin 1..n \/ m \in 1..n
<1>5. ~(n > m)
    BY <1>3
<1>6. m = n
    BY <1>3, <1>4, <1>5
<1> QED BY <1>2, <1>6 DEF m

LEMMA AppendIsFunction ==
    ASSUME NEW S, NEW s \in Seq(S), NEW d \in S, NEW f,
           f = [i \in 1..(Len(s) + 1) |-> IF i = Len(s) + 1 THEN d ELSE s[i]]
    PROVE  f = Append(s, d) /\ Len(f) = Len(s) + 1 /\ f[Len(s) + 1] = d
<1> DEFINE g == Append(s, d)
           n == Len(s) + 1
<1>1. n \in Nat /\ g \in [1..n -> S] /\ g[n] = d /\ \A i \in 1..n : i # n => g[i] = s[i]
  <2>1. g \in Seq(S) /\ Len(g) = n /\ n \in Nat
      OBVIOUS
  <2>2. g[n] = d /\ \A i \in 1..Len(s) : g[i] = s[i]
      OBVIOUS
  <2>3. \A i \in 1..n : i # n => i \in 1..Len(s)
      OBVIOUS
  <2>4. g \in [1..n -> S]
    <3> HIDE DEF g
    <3> QED BY <2>1
  <2> QED BY <2>1, <2>2, <2>3, <2>4
<1>2. f \in [1..n -> S] /\ \A i \in 1..n : f[i] = IF i = n THEN d ELSE s[i]
    OBVIOUS
<1>3. Len(f) = n
    BY <1>1, <1>2, FunctionIsSequence
<1> HIDE DEF g, n
<1>4. \A i \in 1..n : f[i] = g[i]
    BY <1>1, <1>2
<1>5. f = g
    BY <1>1, <1>2, <1>4
<1>6. n \in 1..n
    BY <1>1 DEF n
<1> QED BY <1>1, <1>3, <1>5 DEF g, n

\* A head that is stored is another entry of the history.
LEMMA HistoryStep ==
    ASSUME Answered, Inv, HistoryInv, [Next]_vars
    PROVE  [History!Next]_<<[e \in DOMAIN heads |->
                               [op |-> heads[e].op, parent |-> heads[e].parent, gen |-> heads[e].gen]], cur>>
<1> DEFINE Entry(d) == [op |-> d.op, parent |-> d.parent, gen |-> d.gen]
           log == [e \in DOMAIN heads |-> Entry(heads[e])]
           next == [e \in DOMAIN heads' |-> Entry(heads'[e])]
           n == Len(heads)
           Entries == History!Entry
<1>1. CASE heads' = heads /\ cur' = cur
    BY <1>1
<1>2. ASSUME NEW w \in Workers, Publishes(w) PROVE History!Next
  <2> DEFINE d == run[w].doc
  <2>1. /\ d \in Doc /\ cur = n /\ heads' = Append(heads, d) /\ cur' = n + 1
        /\ heads \in Seq(Doc) /\ n \in Nat
      BY <1>2, PublishedSound DEF Publishes, Inv, TypeOK
  <2>2. /\ DOMAIN heads = 1..n /\ DOMAIN heads' = 1..(n + 1) /\ heads'[n + 1] = d
        /\ \A e \in 1..n : heads'[e] = heads[e]
      BY <2>1
  <2>3. log \in [1..n -> Entries] /\ Entry(d) \in Entries
    <3>1. \A c \in Doc : Entry(c) \in Entries
        BY DEF History!Entry, Doc
    <3>2. \A e \in 1..n : heads[e] \in Doc
        BY <2>1
    <3> HIDE DEF Entry, Entries
    <3> QED BY <2>1, <2>2, <3>1, <3>2
  <2>4. log \in Seq(Entries) /\ Len(log) = n
    <3> HIDE DEF log, Entry, Entries, n
    <3> QED BY <2>1, <2>3, FunctionIsSequence
  <2>5. next = Append(log, Entry(d)) /\ Len(next) = n + 1 /\ next[n + 1] = Entry(d)
    <3>1. next = [e \in 1..(n + 1) |-> IF e = n + 1 THEN Entry(d) ELSE log[e]]
        BY <2>1, <2>2
    <3> HIDE DEF next, log, Entry, Entries, n
    <3> QED BY <2>3, <2>4, <3>1, AppendIsFunction
  <2>6. IF cur = 0 THEN Entry(d).parent = None
        ELSE Entry(d).parent = log[cur].op /\ Entry(d).gen = log[cur].gen + 1
      BY <1>2, <2>1, <2>2, PublishedSound
  <2> QED BY <2>1, <2>4, <2>5, <2>6 DEF History!Next, History!Publish, History!Extends
<1> QED BY <1>1, <1>2, HeadsMove DEF vars
\* The request w brings in the rows of its plan.
BringsIn(w) ==
    At(w, "apply") /\ MayApply(w) /\ rows' = [rows EXCEPT ![Home[w]] = AppliedRows(run[w], @)]

\* The request w writes the row that its user chose.
Reviews(w) ==
    /\ At(w, "resolve-write") /\ run'[w] = IdleRun
    /\ rows' = [rows EXCEPT ![Home[w]][run[w].key] = open[Home[w]][run[w].key].remote]

LEMMA RowsMove ==
    ASSUME Answered, Inv, HistoryInv, Next
    PROVE  \/ rows' = rows \/ edits' # edits
           \/ \E w \in Workers : BringsIn(w) \/ Reviews(w)
<1>0. TypeOK /\ edits \in Nat
    BY DEF Inv, TypeOK
<1>1. ASSUME NEW r \in Replicas, UserStep(r) \/ LinkStep(r) \/ Expire(r)
      PROVE  rows' = rows \/ edits' # edits
  <2>1. ASSUME NEW k \in Keys, Edit(r, k) \/ Remove(r, k) PROVE edits' # edits
    <3>1. edits' = edits + 1
        BY <2>1, Zenon DEF Edit, Remove, UserWrites
    <3> QED BY <1>0, <3>1
  <2>2. ASSUME Enable(r) \/ Pause(r) \/ Unlink(r) \/ LinkStep(r) \/ Expire(r) PROVE rows' = rows
      BY <2>2 DEF Enable, Pause, Unlink, LinkStep, LinkBegin, LinkDone, LinkAbort, Expire
  <2> QED BY <1>1, <2>1, <2>2 DEF UserStep
<1>2. ASSUME NEW w \in Workers, ResolveWrite(w) \/ ResolveAckLost(w)
      PROVE  rows' = rows \/ Reviews(w)
  <2>1. run'[w] = IdleRun /\ At(w, "resolve-write")
    <3>1. End(w) /\ At(w, "resolve-write")
        BY <1>2 DEF ResolveWrite, ResolveAckLost
    <3> QED BY <1>0, <3>1 DEF End, TypeOK
  <2>2. rows' = rows \/ rows' = [rows EXCEPT ![Home[w]][run[w].key] = open[Home[w]][run[w].key].remote]
      BY <1>2 DEF ResolveWrite, ResolveAckLost, Resolved
  <2> QED BY <2>1, <2>2 DEF Reviews
<1>3. ASSUME NEW w \in Workers, StartCycle(w) \/ ResolveStart(w) \/ ResolveLease(w) \/ ResolveFetch(w)
      PROVE  rows' = rows
    BY <1>3 DEF StartCycle, ResolveStart, StartResolve, ResolveLease, ResolveFetch
<1>4. ASSUME NEW w \in Workers, CycleStep(w)
      PROVE  rows' = rows \/ BringsIn(w)
  <2>1. CASE FetchHead(w) \/ PlanRecommit(w) \/ PlanRetry(w) \/ PlanMerge(w)
      BY <2>1 DEF FetchHead, PlanRecommit, PlanRetry, PlanMerge
  <2>2. CASE Remember(w) \/ Accept(w) \/ Anchor(w)
      BY <2>2 DEF Remember, Accept, Anchor
  <2>3. CASE Build(w) \/ BuildStops(w) \/ Journal(w) \/ Confirm(w) \/ Settle(w) \/ Finish(w)
      BY <2>3 DEF Build, BuildStops, Journal, Confirm, Settle, Finish
  <2>4. CASE PutHead(w) \/ PutHeadLost(w) \/ PutHeadStopped(w)
      BY <2>4 DEF PutHead, PutHeadLost, PutHeadStopped
  <2>5. CASE RetryPut(w) \/ RetryPutStopped(w) \/ RetryConfirm(w) \/ RetryConfirmLate(w) \/ RetryCommit(w)
      BY <2>5 DEF RetryPut, RetryPutStopped, RetryConfirm, RetryConfirmLate, RetryCommit
  <2>6. CASE Apply(w)
      BY <2>6 DEF Apply, Committed, BringsIn
  <2> QED BY <1>4, <2>1, <2>2, <2>3, <2>4, <2>5, <2>6 DEF CycleStep
<1>5. CASE FaultStep
  <2>1. CASE (\E r \in Replicas : Crash(r)) \/ CloudRollback \/ CloudLoss
      BY <2>1 DEF Crash, CloudRollback, CloudLoss
  <2>2. ASSUME NEW w \in Workers,
               RequestFails(w) \/ PutFails(w) \/ PutHeadAckLost(w) \/ RetryPutAckLost(w)
        PROVE  rows' = rows
      BY <2>2 DEF RequestFails, PutFails, PutHeadAckLost, RetryPutAckLost
  <2>3. ASSUME NEW w \in Workers, ApplyAckLost(w) PROVE BringsIn(w)
      BY <2>3 DEF ApplyAckLost, Committed, BringsIn
  <2> QED BY <1>2, <1>5, <2>1, <2>2, <2>3 DEF FaultStep
<1> QED BY <1>1, <1>2, <1>3, <1>4, <1>5 DEF Next, ResolveStep

\* A row that a merge overwrites was published: it is the base of its replica.
LEMMA RowsKept ==
    ASSUME Answered, Inv, HistoryInv, [Next]_vars, NEW r \in Replicas, NEW k \in Keys,
           rows[r][k] # None, rows'[r][k] # rows[r][k], edits' = edits
    PROVE  Chose(r, k) \/ Published(k, rows[r][k])
<1>0. TypeOK /\ rows' # rows
    BY DEF Inv
<1>1. ASSUME NEW w \in Workers, BringsIn(w) PROVE Published(k, rows[r][k])
  <2> DEFINE x == run[w]
  <2>1. Home[w] \in Replicas /\ rows[r] \in Table
      BY <1>0, HistoryFacts DEF TypeOK
  <2>2. Home[w] = r /\ rows'[r] = AppliedRows(x, rows[r])
      BY <1>0, <1>1, <2>1 DEF BringsIn, TypeOK
  <2>3. x.plan[k] \in Overwrites
      BY <2>2 DEF AppliedRows, Overwrites
  <2>4. x.cap.rows[k] = rows[r][k]
      BY <1>1, <2>2 DEF BringsIn, MayApply, Local
  <2>5. PlanSound(x, rowState[r].base) /\ x.pc = "apply"
      BY <1>0, <1>1, <2>2, HistoryFacts DEF KnowsAt, Knows, BringsIn, At
  <2>6. rowState[r].base[k] = rows[r][k]
      BY <2>3, <2>4, <2>5 DEF PlanSound
  <2> QED BY <2>6 DEF HistoryInv, ReplicaKnows
<1>2. ASSUME NEW w \in Workers, Reviews(w) PROVE Chose(r, k)
  <2>1. Home[w] \in Replicas /\ rows \in [Replicas -> Table]
      BY <1>0, HistoryFacts DEF TypeOK
  <2>2. Home[w] = r /\ run[w].key = k
      BY <1>2, <2>1 DEF Reviews, Table
  <2> QED BY <1>2, <2>2 DEF Reviews, Chose
<1> QED BY <1>0, <1>1, <1>2, RowsMove DEF vars

-----------------------------------------------------------------------------
(***************************************************************************)
(* The promises.                                                           *)
(***************************************************************************)
\* Without a stored head whose answer is still open, and with a collection that keeps its
\* head: for any number of servers, requests and keys, the heads are one history, each
\* merged from the one it replaces (the compare-and-swap of putHead, sync-service.ts).
THEOREM HeadsAreOneHistory == ASSUME Answered PROVE Spec => OneHistory
<1>1. Init => Inv /\ HistoryInv
    BY InitInv, InitHistory
<1>2. Inv /\ HistoryInv /\ [Next]_vars => (Inv /\ HistoryInv)'
    BY NextTypes, StepKept, HistoryKept DEF Inv, Kept
<1>3. Init => History!Init
    BY DEF Init, History!Init
<1>4. Inv /\ HistoryInv /\ [Next]_vars
        => [History!Next]_<<[e \in DOMAIN heads |->
               [op |-> heads[e].op, parent |-> heads[e].parent, gen |-> heads[e].gen]], cur>>
    BY HistoryStep
<1> QED BY <1>1, <1>2, <1>3, <1>4, PTL DEF Spec, OneHistory, History!Spec

\* Under the same conditions a publication replaces a row of the cloud only with the
\* replaced version as the base of its replica, whatever the other servers do between the
\* fetch, the merge, the build and the PUT of a cycle.
THEOREM NothingOverwritten == ASSUME Answered PROVE Spec => NoLostUpdate
<1>1. Init => Inv /\ HistoryInv
    BY InitInv, InitHistory
<1>2. Inv /\ HistoryInv /\ [Next]_vars => (Inv /\ HistoryInv)'
    BY NextTypes, StepKept, HistoryKept DEF Inv, Kept
<1>3. Inv /\ HistoryInv /\ [Next]_vars =>
        [heads' # heads /\ cur # 0 =>
            LET old == heads[cur]
                new == heads'[Len(heads')]
            IN  \A k \in Keys :
                  old.rows[k] # None /\ new.rows[k] # old.rows[k] =>
                      rowState[new.by].base[k] = old.rows[k]]_vars
  <2> SUFFICES ASSUME Inv, HistoryInv, Next, heads' # heads, cur # 0
               PROVE  LET old == heads[cur]
                          new == heads'[Len(heads')]
                      IN  \A k \in Keys :
                            old.rows[k] # None /\ new.rows[k] # old.rows[k] =>
                                rowState[new.by].base[k] = old.rows[k]
      BY DEF vars
  <2>1. PICK w \in Workers : Publishes(w)
      BY HeadsMove
  <2>2. heads'[Len(heads')] = run[w].doc
    <3>1. heads \in Seq(Doc) /\ run[w].doc \in Doc /\ heads' = Append(heads, run[w].doc)
        BY <2>1, PublishedSound DEF Inv, TypeOK
    <3> QED BY <3>1
  <2> QED BY <2>1, <2>2, PublishedSound
<1> QED BY <1>1, <1>2, <1>3, PTL DEF Spec, NoLostUpdate

\* Under the same conditions sync overwrites or deletes a row only when some head holds
\* that version, or its user chose to in a reviewed conflict.
THEOREM NothingLost == ASSUME Answered PROVE Spec => NoSilentLoss
<1>1. Init => Inv /\ HistoryInv
    BY InitInv, InitHistory
<1>2. Inv /\ HistoryInv /\ [Next]_vars => (Inv /\ HistoryInv)'
    BY NextTypes, StepKept, HistoryKept DEF Inv, Kept
<1>3. Inv /\ HistoryInv /\ [Next]_vars =>
        [\A r \in Replicas, k \in Keys :
            rows[r][k] # None /\ rows'[r][k] # rows[r][k] =>
                edits' # edits \/ Chose(r, k) \/ Published(k, rows[r][k])]_vars
    BY RowsKept
<1> QED BY <1>1, <1>2, <1>3, PTL DEF Spec, NoSilentLoss
-----------------------------------------------------------------------------
(***************************************************************************)
(* A head of its own never comes back to a replica as another's.           *)
(***************************************************************************)
\* Where a request still works with the head it fetched.
Fetched == {"plan", "apply", "remember", "accept", "anchor", "build", "journal", "put", "settle"}

\* No head after the fetched one is by this replica; from the build on the binding has
\* accepted the fetched head, and at the PUT it has journaled the document.
OwnsAt(x, r, b) ==
    /\ x.pc \in Fetched => \A e \in 1..Len(heads) : e > x.remote.etag => heads[e].by # r
    /\ x.pc \in Fetched \ {"settle"} /\ x.remote.etag = 0 => b.etag = 0
    /\ x.pc = "remember" /\ KeysOf(x.plan, Inbound) # {} => b.etag = x.remote.etag
    /\ x.pc \in {"build", "journal", "put"} => b.etag = x.remote.etag
    /\ x.pc = "put" => b.pending # None /\ b.pending.doc = x.doc

Recognised(r, b) ==
    cur # 0 /\ heads[cur].by = r => b.etag = cur \/ (b.pending # None /\ b.pending.doc = heads[cur])

OwnInv ==
    /\ \A r \in Replicas : ~Linked(r) => \A e \in 1..Len(heads) : heads[e].by # r
    /\ \A r \in Replicas : Recognised(r, binding[r])
    /\ \A w \in Workers : OwnsAt(run[w], Home[w], binding[Home[w]])

KeepsLinks == \A r \in Replicas : Linked(r) => Linked(r)'

\* An expected phase is never an unlinked one.
LEMMA PhaseLinks ==
    ASSUME TypeOK, NEW r \in Replicas, NEW q \in Replicas, NEW b, binding' = [binding EXCEPT ![q] = b],
           Linked(q) => b.phase \notin {"unlinked", "probing"}, Linked(r)
    PROVE  Linked(r)'
<1>1. binding'[r] = IF r = q THEN b ELSE binding[r]
    BY DEF TypeOK
<1> QED BY <1>1 DEF Linked

LEMMA NotedLinks ==
    ASSUME TypeOK, NEW w \in Workers, binding' = binding \/ binding' = Noted(w)
    PROVE  KeepsLinks
<1>1. CASE binding' = binding
    BY <1>1 DEF KeepsLinks, Linked
<1>2. CASE binding' = [binding EXCEPT ![Home[w]].phase = "publication_unknown"]
  <2>1. \A r \in Replicas : binding'[r].phase \in {binding[r].phase, "publication_unknown"}
    <3>1. \A r \in Replicas : binding[r] \in Binding
        BY DEF TypeOK
    <3> QED BY <1>2, <3>1 DEF TypeOK, Binding
  <2> QED BY <2>1 DEF KeepsLinks, Linked
<1> QED BY <1>1, <1>2 DEF Noted

\* A replica at work is linked, and stays so.
LEMMA WrittenLinks ==
    ASSUME TypeOK, NEW w \in Workers, NEW b, binding' = [binding EXCEPT ![Home[w]] = b],
           b.phase = binding[Home[w]].phase \/ b.phase \notin {"unlinked", "probing"}
    PROVE  KeepsLinks
BY PhaseLinks, HomeType DEF KeepsLinks, Linked

\* One request of r at work moves, or what r has accepted does.
LEMMA OwnStep ==
    ASSUME TypeOK, HistoryInv, OwnInv, KeepsLinks, UNCHANGED <<heads, cur>>, NEW w \in Workers, Active(w),
           \A q \in Replicas \ {Home[w]} : binding'[q] = binding[q],
           \A v \in Workers \ {w} : run'[v] = run[v],
           Recognised(Home[w], binding'[Home[w]]),
           OwnsAt(run'[w], Home[w], binding'[Home[w]])
    PROVE  OwnInv'
<1>1. ASSUME NEW r \in Replicas, ~Linked(r)', NEW e \in 1..Len(heads') PROVE heads'[e].by # r
    BY <1>1 DEF KeepsLinks, OwnInv
<1>2. ASSUME NEW r \in Replicas PROVE Recognised(r, binding[r])'
    BY DEF OwnInv, Recognised
<1>3. ASSUME NEW v \in Workers PROVE OwnsAt(run[v], Home[v], binding[Home[v]])'
  <2>1. CASE v = w
      BY <2>1 DEF OwnsAt
  <2>2. CASE v # w /\ Active(v)
    <3>1. Home[v] \in Replicas \ {Home[w]}
        BY <2>2, HolderAlone, HomeType DEF HistoryInv
    <3> QED BY <2>2, <3>1 DEF OwnInv, OwnsAt
  <2>3. CASE v # w /\ ~Active(v)
      BY <2>3 DEF OwnsAt, Active, Fetched
  <2> QED BY <2>1, <2>2, <2>3
<1> QED BY <1>1, <1>2, <1>3 DEF OwnInv

LEMMA OwnQuiet ==
    ASSUME TypeOK, OwnInv, KeepsLinks, UNCHANGED <<heads, cur>>,
           \A r \in Replicas : binding'[r].etag = binding[r].etag /\ binding'[r].pending = binding[r].pending,
           \A v \in Workers : run'[v] = run[v] \/ run'[v].pc \notin Fetched
    PROVE  OwnInv'
<1>1. ASSUME NEW r \in Replicas, ~Linked(r)', NEW e \in 1..Len(heads') PROVE heads'[e].by # r
    BY <1>1 DEF KeepsLinks, OwnInv
<1>2. ASSUME NEW r \in Replicas PROVE Recognised(r, binding[r])'
    BY DEF OwnInv, Recognised
<1>3. ASSUME NEW v \in Workers PROVE OwnsAt(run[v], Home[v], binding[Home[v]])'
    BY HomeType DEF OwnInv, OwnsAt, Fetched
<1> QED BY <1>1, <1>2, <1>3 DEF OwnInv

LEMMA OwnFacts ==
    ASSUME TypeOK, HistoryInv, OwnInv, NEW w \in Workers
    PROVE  /\ OwnsAt(run[w], Home[w], binding[Home[w]]) /\ Recognised(Home[w], binding[Home[w]])
           /\ run[w].remote.etag \in Nat /\ run[w].remote.etag <= cur
           /\ run[w].remote.doc = None => run[w].remote.etag = 0
           /\ cur = Len(heads) /\ cur \in Nat
           /\ Home[w] \in Replicas /\ run[w] \in Run /\ binding[Home[w]] \in Binding
           /\ \A r \in Replicas : binding[r] \in Binding
<1> DEFINE x == run[w]
<1>1. /\ Names(x.remote.doc, x.remote.etag) /\ cur = Len(heads) /\ heads \in Seq(Doc)
      /\ Home[w] \in Replicas /\ x \in Run /\ binding[Home[w]] \in Binding
    BY HistoryFacts DEF KnowsAt, Knows, OpsOnce
<1>2. x.remote.etag \in Nat /\ Len(heads) \in Nat
    BY <1>1 DEF Run, Reply
<1>3. ASSUME x.remote.doc = None PROVE x.remote.etag = 0
  <2>1. \A e \in 1..Len(heads) : heads[e] \in Doc
      BY <1>1
  <2> QED BY <1>1, <1>3, <2>1, NoneAssumption DEF Names
<1>4. x.remote.etag <= cur
    BY <1>1, <1>2 DEF Names
<1> QED BY <1>1, <1>2, <1>3, <1>4 DEF OwnInv, TypeOK

\* A binding that has accepted the fetched head recognises its own.
LEMMA AcceptedOwns ==
    ASSUME TypeOK, HistoryInv, OwnInv, NEW w \in Workers, run[w].pc \in Fetched,
           NEW b, b.etag = run[w].remote.etag
    PROVE  Recognised(Home[w], b)
<1>1. ASSUME cur # 0, heads[cur].by = Home[w] PROVE b.etag = cur
  <2>1. cur \in 1..Len(heads)
      BY <1>1, OwnFacts
  <2>2. ~(cur > run[w].remote.etag)
      BY <1>1, <2>1, OwnFacts DEF OwnsAt
  <2> QED BY <2>2, OwnFacts
<1> QED BY <1>1 DEF Recognised

LEMMA SameOwns ==
    ASSUME TypeOK, HistoryInv, OwnInv, NEW w \in Workers, NEW b, b.etag = binding[Home[w]].etag,
           \/ b.pending = binding[Home[w]].pending
           \/ binding[Home[w]].pending # None /\ b.pending # None /\ b.pending.doc = binding[Home[w]].pending.doc
    PROVE  Recognised(Home[w], b)
BY OwnFacts DEF Recognised

LEMMA IdleOwns ==
    ASSUME NEW x, x.pc \notin Fetched
    PROVE  \A r, b : OwnsAt(x, r, b)
BY DEF OwnsAt, Fetched

LEMMA OwnEnds ==
    ASSUME TypeOK, HistoryInv, OwnInv, NEW w \in Workers, End(w), UNCHANGED <<heads, cur>>,
           binding' = binding \/ binding' = Noted(w)
    PROVE  OwnInv'
<1>1. \A v \in Workers : run'[v] = run[v] \/ run'[v].pc \notin Fetched
    BY DEF End, TypeOK, IdleRun, Fetched
<1>2. \A r \in Replicas : binding'[r].etag = binding[r].etag /\ binding'[r].pending = binding[r].pending
    BY NotedStays
<1> QED BY <1>1, <1>2, NotedLinks, OwnQuiet

LEMMA AfterSteps ==
    ASSUME NEW x
    PROVE  /\ AfterRemember(x) = "build" => x.remote.doc = None \/ KeysOf(x.plan, Inbound) # {}
           /\ AfterRemember(x) \in {"anchor", "accept", "build", "finish"}
           /\ AfterApply(x) \in {"remember", AfterRemember(x)}
           /\ AfterPlan(x) \in {"apply", "remember", AfterRemember(x)}
           /\ AfterPlan(x) # "apply" => KeysOf(x.plan, Inbound) = {}
<1>1. Onward(x) \in {"build", "finish"}
    BY DEF Onward
<1>2. AfterRemember(x) \in {"anchor", "accept", "build", "finish"}
      /\ (AfterRemember(x) = "build" => x.remote.doc = None \/ KeysOf(x.plan, Inbound) # {})
    BY <1>1 DEF AfterRemember
<1>3. AfterApply(x) \in {"remember", AfterRemember(x)}
    BY DEF AfterApply
<1> QED BY <1>2, <1>3 DEF AfterPlan
LEMMA OwnFetch ==
    ASSUME TypeOK, HistoryInv, OwnInv, NEW w \in Workers, FetchHead(w)
    PROVE  OwnInv'
<1> DEFINE r == Home[w]
           b == binding[r]
           reply == HeadReply(b)
           y == [run[w] EXCEPT !.pc = "plan", !.remote = reply, !.seen = b]
<1>0. Active(w) /\ UNCHANGED <<heads, cur>> /\ run[w] \in Run
    BY OwnFacts DEF FetchHead, Active, At, cloud
<1>1. CASE Fail(w)
    BY <1>0, <1>1, OwnEnds DEF Fail
<1>2. CASE run' = [run EXCEPT ![w] = y] /\ UNCHANGED binding
  <2>1. y.pc = "plan" /\ y.remote = reply
      BY <1>0 DEF Run
  <2>2. reply.etag = cur
      BY DEF HeadReply, NoReply
  <2>3. cur = 0 => b.etag = 0
    <3>1. Names(b.head, b.etag) /\ cur = Len(heads) /\ b.etag \in Nat
        BY HistoryFacts DEF ReplicaKnows, OpsOnce, Binding
    <3> QED BY <3>1 DEF Names
  <2> HIDE DEF y, reply, b
  <2>4. \A e \in 1..Len(heads) : ~(e > reply.etag)
      BY <2>2, OwnFacts
  <2>5. OwnsAt(y, r, b)
      BY <2>1, <2>2, <2>3, <2>4 DEF OwnsAt
  <2>6. run'[w] = y /\ \A v \in Workers \ {w} : run'[v] = run[v]
      BY <1>2 DEF TypeOK
  <2>7. binding'[r] = b /\ KeepsLinks
      BY <1>2 DEF b, KeepsLinks, Linked
  <2> QED BY <1>0, <1>2, <2>5, <2>6, <2>7, OwnFacts, OwnStep DEF b
<1> QED BY <1>1, <1>2 DEF FetchHead

LEMMA OwnPlan ==
    ASSUME TypeOK, HistoryInv, OwnInv, NEW w \in Workers, PlanRecommit(w) \/ PlanRetry(w) \/ PlanMerge(w)
    PROVE  OwnInv'
<1> DEFINE r == Home[w]
           x == run[w]
<1>0. At(w, "plan") /\ Active(w) /\ UNCHANGED <<heads, cur>>
    BY DEF PlanRecommit, PlanRetry, PlanMerge, Active, At, cloud
<1>1. x \in Run /\ OwnsAt(x, r, binding[r]) /\ x.pc = "plan"
    BY <1>0, OwnFacts DEF At
<1>2. CASE PlanRecommit(w)
  <2> DEFINE y == [x EXCEPT !.pc = "settle", !.skip = {k \in Keys : open[r][k] # None}]
  <2>1. y.pc = "settle" /\ y.remote = x.remote
      BY <1>1 DEF Run
  <2>2. run' = [run EXCEPT ![w] = y] /\ UNCHANGED binding
      BY <1>2 DEF PlanRecommit
  <2> HIDE DEF y
  <2>3. run'[w] = y /\ \A v \in Workers \ {w} : run'[v] = run[v]
      BY <2>2 DEF TypeOK
  <2>4. OwnsAt(y, r, binding[r])
      BY <1>1, <2>1 DEF OwnsAt, Fetched
  <2>5. KeepsLinks
      BY <2>2 DEF KeepsLinks, Linked
  <2> QED BY <1>0, <2>2, <2>3, <2>4, <2>5, OwnFacts, OwnStep
<1>3. CASE PlanRetry(w)
    BY <1>0, <1>3, NeverRetried DEF PlanRetry
<1>4. CASE PlanMerge(w)
  <2> DEFINE plan == Merged(r, x)
             next == [x EXCEPT !.cap = Local(r), !.plan = plan, !.skip = KeysOf(plan, {"conflict"})]
             y == [next EXCEPT !.pc = AfterPlan(next)]
  <2>1. y.pc = AfterPlan(next) /\ y.remote = x.remote /\ y.plan = plan
        /\ next.remote = x.remote /\ next.plan = plan
      BY <1>1 DEF Run
  <2>2. CASE Fail(w)
      BY <1>0, <2>2, OwnEnds DEF Fail
  <2>3. CASE run' = [run EXCEPT ![w] = y] /\ UNCHANGED binding
    <3> HIDE DEF y, next, plan
    <3>1. run'[w] = y /\ \A v \in Workers \ {w} : run'[v] = run[v]
        BY <2>3 DEF TypeOK
    <3>2. y.pc \in Fetched \union {"finish"} /\ y.pc \notin {"journal", "put", "settle"}
        BY <2>1, AfterSteps DEF Fetched
    <3>3. y.pc = "remember" => KeysOf(y.plan, Inbound) = {}
        BY <2>1, AfterSteps
    <3>4. y.pc = "build" => x.remote.doc = None
      <4> SUFFICES ASSUME y.pc = "build" PROVE x.remote.doc = None
          OBVIOUS
      <4>1. AfterPlan(next) = "build"
          BY <2>1
      <4>2. AfterRemember(next) = "build" /\ KeysOf(next.plan, Inbound) = {}
          BY <4>1, AfterSteps
      <4> QED BY <2>1, <4>2, AfterSteps
    <3>5. y.pc = "build" => binding[r].etag = x.remote.etag
        BY <1>1, <3>4, OwnFacts DEF OwnsAt, Fetched
    <3>6. OwnsAt(y, r, binding[r])
        BY <1>1, <2>1, <3>2, <3>3, <3>5 DEF OwnsAt, Fetched
    <3>7. KeepsLinks
        BY <2>3 DEF KeepsLinks, Linked
    <3> QED BY <1>0, <2>3, <3>1, <3>6, <3>7, OwnFacts, OwnStep
  <2> QED BY <1>4, <2>2, <2>3 DEF PlanMerge
<1> QED BY <1>2, <1>3, <1>4

\* Recording and accepting the fetched head, whatever the request does next.
LEMMA OwnAccepts ==
    ASSUME TypeOK, HistoryInv, OwnInv, UNCHANGED <<heads, cur>>, NEW w \in Workers, Active(w),
           run[w].pc \in Fetched,
           NEW b, binding' = [binding EXCEPT ![Home[w]] = b], b.etag = run[w].remote.etag,
           b.phase = binding[Home[w]].phase \/ b.phase \notin {"unlinked", "probing"},
           NEW y, run' = [run EXCEPT ![w] = y],
           y.pc \notin Fetched
           \/ (y.pc \in {"remember", "anchor", "accept", "build"} /\ y.remote = run[w].remote)
    PROVE  OwnInv'
<1> DEFINE r == Home[w]
<1>1. run'[w] = y /\ \A v \in Workers \ {w} : run'[v] = run[v]
    BY DEF TypeOK
<1>2. binding'[r] = b /\ \A q \in Replicas \ {r} : binding'[q] = binding[q]
    BY OwnFacts DEF TypeOK
<1>3. OwnsAt(y, r, b)
  <2>1. CASE y.pc \notin Fetched
      BY <2>1, IdleOwns
  <2>2. CASE y.pc \in {"remember", "anchor", "accept", "build"} /\ y.remote = run[w].remote
      BY <2>2, OwnFacts DEF OwnsAt
  <2> QED BY <2>1, <2>2
<1> QED BY <1>1, <1>2, <1>3, AcceptedOwns, WrittenLinks, OwnStep

LEMMA OwnApply ==
    ASSUME TypeOK, HistoryInv, OwnInv, NEW w \in Workers, Apply(w) \/ ApplyAckLost(w)
    PROVE  OwnInv'
<1> DEFINE r == Home[w]
           x == run[w]
           a == Accepted(binding[r], x.remote)
<1>0. Active(w) /\ UNCHANGED <<heads, cur>> /\ x.pc = "apply"
    BY DEF Apply, ApplyAckLost, Active, At, cloud
<1>1. x \in Run /\ r \in Replicas /\ binding[r] \in Binding /\ x.pc \in Fetched
    BY <1>0, OwnFacts DEF Fetched
<1>2. a.etag = x.remote.etag /\ a.phase = binding[r].phase
      /\ [a EXCEPT !.phase = "publication_unknown"].etag = x.remote.etag
      /\ [a EXCEPT !.phase = "publication_unknown"].phase = "publication_unknown"
    BY <1>1 DEF Accepted, Binding
<1>3. CASE Apply(w) /\ ~MayApply(w)
    BY <1>0, <1>3, OwnEnds DEF Apply, Fail
<1>4. CASE Apply(w) /\ MayApply(w)
  <2> DEFINE y == [x EXCEPT !.pc = AfterApply(x)]
  <2>1. y.pc = AfterApply(x) /\ y.remote = x.remote
      BY <1>1 DEF Run
  <2>2. binding' = [binding EXCEPT ![r] = a] /\ run' = [run EXCEPT ![w] = y]
      BY <1>4 DEF Apply, Goto, TypeOK
  <2>3. y.pc \in {"remember", "anchor", "accept", "build", "finish"} /\ "finish" \notin Fetched
      BY <2>1, AfterSteps DEF Fetched
  <2> HIDE DEF a, y
  <2> QED BY <1>0, <1>1, <1>2, <2>1, <2>2, <2>3, OwnAccepts
<1>5. CASE ApplyAckLost(w)
  <2> DEFINE c == [a EXCEPT !.phase = "publication_unknown"]
  <2>1. binding' = [binding EXCEPT ![r] = c] /\ run' = [run EXCEPT ![w] = IdleRun]
      BY <1>1, <1>5 DEF ApplyAckLost, End, TypeOK
  <2>2. IdleRun.pc \notin Fetched
      BY DEF IdleRun, Fetched
  <2> HIDE DEF a, c
  <2>3. c.etag = x.remote.etag /\ c.phase = "publication_unknown"
      BY <1>2 DEF c
  <2> QED BY <1>0, <1>1, <2>1, <2>2, <2>3, OwnAccepts
<1> QED BY <1>3, <1>4, <1>5

LEMMA OwnRemember ==
    ASSUME TypeOK, HistoryInv, OwnInv, NEW w \in Workers, Remember(w)
    PROVE  OwnInv'
<1> DEFINE r == Home[w]
           x == run[w]
           y == [x EXCEPT !.pc = AfterRemember(x)]
<1>0. Active(w) /\ UNCHANGED <<heads, cur, binding>> /\ x.pc = "remember" /\ KeepsLinks
    BY DEF Remember, Active, At, cloud, KeepsLinks, Linked
<1>1. x \in Run /\ OwnsAt(x, r, binding[r])
    BY OwnFacts
<1>2. y.pc = AfterRemember(x) /\ y.remote = x.remote
    BY <1>1 DEF Run
<1>3. run' = [run EXCEPT ![w] = y]
    BY DEF Remember, Goto, TypeOK
<1> HIDE DEF y
<1>4. run'[w] = y /\ \A v \in Workers \ {w} : run'[v] = run[v]
    BY <1>3 DEF TypeOK
<1>5. y.pc \in {"anchor", "accept", "build", "finish"}
    BY <1>2, AfterSteps
<1>6. y.pc = "build" => binding[r].etag = x.remote.etag
  <2>1. y.pc = "build" => x.remote.etag = 0 \/ KeysOf(x.plan, Inbound) # {}
      BY <1>2, AfterSteps, OwnFacts
  <2> QED BY <1>0, <1>1, <2>1 DEF OwnsAt, Fetched
<1>7. OwnsAt(y, r, binding[r])
    BY <1>0, <1>1, <1>2, <1>5, <1>6 DEF OwnsAt, Fetched
<1> QED BY <1>0, <1>4, <1>7, OwnFacts, OwnStep

LEMMA OwnAccept ==
    ASSUME TypeOK, HistoryInv, OwnInv, NEW w \in Workers, Accept(w)
    PROVE  OwnInv'
<1> DEFINE r == Home[w]
           x == run[w]
           a == Accepted(binding[r], x.remote)
           y == [x EXCEPT !.pc = Onward(x)]
<1>0. Active(w) /\ UNCHANGED <<heads, cur>> /\ x.pc = "accept"
    BY DEF Accept, Active, At, cloud
<1>1. x \in Run /\ r \in Replicas /\ binding[r] \in Binding /\ x.pc \in Fetched /\ OwnsAt(x, r, binding[r])
    BY <1>0, OwnFacts DEF Fetched
<1>2. y.pc \in {"build", "finish"} /\ y.remote = x.remote /\ "finish" \notin Fetched
    BY <1>1 DEF Run, Onward, Fetched
<1>3. CASE SameAccepted(binding[r], x.remote) /\ run' = [run EXCEPT ![w] = y] /\ UNCHANGED binding
  <2> HIDE DEF y
  <2>1. run'[w] = y /\ \A v \in Workers \ {w} : run'[v] = run[v]
      BY <1>3 DEF TypeOK
  <2>2. OwnsAt(y, r, binding[r])
      BY <1>1, <1>2, <1>3 DEF OwnsAt, SameAccepted, Fetched
  <2>3. KeepsLinks
      BY <1>3 DEF KeepsLinks, Linked
  <2> QED BY <1>0, <1>3, <2>1, <2>2, <2>3, OwnFacts, OwnStep
<1>4. CASE binding' = [binding EXCEPT ![r] = a] /\ run' = [run EXCEPT ![w] = y]
  <2>1. a.etag = x.remote.etag /\ a.phase = binding[r].phase
      BY <1>1 DEF Accepted, Binding
  <2> HIDE DEF a, y
  <2> QED BY <1>0, <1>1, <1>2, <1>4, <2>1, OwnAccepts
<1>5. CASE Fail(w)
    BY <1>0, <1>5, OwnEnds DEF Fail
<1> QED BY <1>3, <1>4, <1>5 DEF Accept, Goto, TypeOK

LEMMA OwnAnchor ==
    ASSUME TypeOK, HistoryInv, OwnInv, NEW w \in Workers, Anchor(w)
    PROVE  OwnInv'
<1> DEFINE r == Home[w]
           x == run[w]
           b == binding[r]
           waiting == KeysOf(x.plan, {"pending-local", "conflict"})
           phase == IF waiting = {} THEN "linked" ELSE "bootstrap"
           a == Anchored(b, Content(x.remote.doc), x.remote.doc.gen)
           l == [a EXCEPT !.etag = x.remote.etag, !.head = x.remote.doc, !.pending = b.pending, !.phase = phase]
           y == [x EXCEPT !.pc = "finish"]
<1>0. Active(w) /\ UNCHANGED <<heads, cur>> /\ x.pc = "anchor"
    BY DEF Anchor, Active, At, cloud
<1>1. x \in Run /\ r \in Replicas /\ b \in Binding /\ Holds(w) /\ x.pc \in Fetched
    BY <1>0, HistoryFacts DEF Fetched
<1>2. run' = [run EXCEPT ![w] = y] /\ binding' = [binding EXCEPT ![r] = l]
    BY <1>1 DEF Anchor, Goto, TypeOK
<1>3. y.pc = "finish" /\ "finish" \notin Fetched
    BY <1>1 DEF Run, Fetched
<1>4. l.etag = x.remote.etag /\ l.phase = phase
    BY <1>1 DEF Anchored, Binding
<1>5. phase \notin {"unlinked", "probing"}
    OBVIOUS
<1> HIDE DEF l, phase, y
<1> QED BY <1>0, <1>1, <1>2, <1>3, <1>4, <1>5, OwnAccepts
LEMMA OwnBuild ==
    ASSUME TypeOK, HistoryInv, OwnInv, NEW w \in Workers, Build(w) \/ BuildStops(w)
    PROVE  OwnInv'
<1> DEFINE r == Home[w]
           x == run[w]
           y == [x EXCEPT !.pc = "journal", !.doc = Built(w), !.cap = Local(r)]
<1>0. Active(w) /\ UNCHANGED <<heads, cur, binding>> /\ x.pc = "build" /\ KeepsLinks
    BY DEF Build, BuildStops, Active, At, cloud, KeepsLinks, Linked
<1>1. x \in Run /\ OwnsAt(x, r, binding[r])
    BY OwnFacts
<1>2. CASE BuildStops(w)
    BY <1>0, <1>2, OwnEnds DEF BuildStops
<1>3. CASE Build(w)
  <2>1. run' = [run EXCEPT ![w] = y]
      BY <1>3 DEF Build
  <2>2. y.pc = "journal" /\ y.remote = x.remote
      BY <1>1 DEF Run
  <2> HIDE DEF y
  <2>3. run'[w] = y /\ \A v \in Workers \ {w} : run'[v] = run[v]
      BY <2>1 DEF TypeOK
  <2>4. OwnsAt(y, r, binding[r])
      BY <1>0, <1>1, <2>2 DEF OwnsAt, Fetched
  <2> QED BY <1>0, <2>3, <2>4, OwnFacts, OwnStep
<1> QED BY <1>2, <1>3

LEMMA OwnJournal ==
    ASSUME TypeOK, RequestsOK, HistoryInv, OwnInv, NEW w \in Workers, Journal(w)
    PROVE  OwnInv'
<1> DEFINE r == Home[w]
           x == run[w]
           entry == [doc |-> x.doc, capture |-> x.cap, applied |-> FALSE,
                     parent |-> x.remote.doc, parentEtag |-> x.remote.etag, attempts |-> 0]
           c == [binding[r] EXCEPT !.pending = entry]
           y == [x EXCEPT !.pc = "put", !.sent = TRUE]
<1>0. Active(w) /\ UNCHANGED <<heads, cur>> /\ x.pc = "journal"
    BY DEF Journal, Active, At, cloud
<1>1. /\ x \in Run /\ OwnsAt(x, r, binding[r]) /\ Holds(w) /\ binding[r] \in Binding /\ r \in Replicas
      /\ x.pc \in Fetched /\ x.doc \in Doc
    BY <1>0, OwnFacts, HistoryFacts DEF Fetched, RequestsOK, RequestOK, Run, MaybeDoc
<1>2. CASE End(w) /\ UNCHANGED binding
    BY <1>0, <1>2, OwnEnds
<1>3. CASE binding' = [binding EXCEPT ![r].pending = entry] /\ run' = [run EXCEPT ![w] = y]
  <2>1. y.pc = "put" /\ y.remote = x.remote /\ y.doc = x.doc
      BY <1>1 DEF Run
  <2>2. /\ binding' = [binding EXCEPT ![r] = c] /\ c.phase = binding[r].phase
        /\ c.etag = binding[r].etag /\ c.pending = entry
      BY <1>1, <1>3 DEF TypeOK, Binding
  <2>3. entry.doc = x.doc /\ entry # None
    <3>1. entry.doc = x.doc
        OBVIOUS
    <3>2. entry # None
        <4>1. entry \in Pending
            BY <1>1, OwnFacts DEF Pending, Run, Reply
        <4> QED BY <4>1, JournalAssumption
    <3> QED BY <3>1, <3>2
  <2> HIDE DEF y, c, entry
  <2>4. run'[w] = y /\ \A v \in Workers \ {w} : run'[v] = run[v]
      BY <1>3 DEF TypeOK
  <2>5. binding'[r] = c /\ \A q \in Replicas \ {r} : binding'[q] = binding[q]
      BY <1>1, <2>2 DEF TypeOK
  <2>6. c.etag = x.remote.etag
      BY <1>0, <1>1, <2>2 DEF OwnsAt
  <2>7. OwnsAt(y, r, c)
      BY <1>0, <1>1, <2>1, <2>2, <2>3, <2>6 DEF OwnsAt, Fetched
  <2>8. Recognised(r, c) /\ KeepsLinks
      BY <1>1, <2>2, <2>6, AcceptedOwns, WrittenLinks
  <2> QED BY <1>0, <2>4, <2>5, <2>7, <2>8, OwnStep
<1> QED BY <1>1, <1>2, <1>3 DEF Journal
\* A head that is stored belongs to the one replica whose binding has journaled it.
LEMMA OwnPut ==
    ASSUME TypeOK, RequestsOK, UnlinkedOK, HistoryInv, OwnInv,
           NEW w \in Workers, PutHead(w) \/ PutHeadAckLost(w)
    PROVE  OwnInv'
<1> DEFINE r == Home[w]
           x == run[w]
           d == x.doc
<1>0. /\ Active(w) /\ x.pc = "put" /\ x.remote.etag = cur
      /\ heads' = Append(heads, d) /\ cur' = Len(heads) + 1
    BY DEF PutHead, PutHeadAckLost, Stored, Active, At
<1>1. x \in Run /\ r \in Replicas /\ heads \in Seq(Doc) /\ OwnsAt(x, r, binding[r])
      /\ Holds(w) /\ DocSound(x, rowState[r].base, r) /\ Linked(r)
    BY <1>0, OwnFacts, HistoryFacts, LinkedHolder DEF KnowsAt, Knows
<1>2. d \in Doc /\ d.by = r /\ binding[r].pending # None /\ binding[r].pending.doc = d
    BY <1>0, <1>1 DEF RequestsOK, RequestOK, Run, MaybeDoc, DocSound, OwnsAt
<1>3. /\ Len(heads) \in Nat /\ Len(heads') = Len(heads) + 1 /\ heads'[Len(heads) + 1] = d
      /\ \A e \in 1..Len(heads) : heads'[e] = heads[e]
    BY <1>0, <1>1, <1>2
<1>4. KeepsLinks /\ \A q \in Replicas : /\ binding'[q].etag = binding[q].etag
                                        /\ binding'[q].pending = binding[q].pending
  <2>1. binding' = binding \/ binding' = Noted(w)
      BY DEF PutHead, PutHeadAckLost, Fail
  <2> QED BY <2>1, NotedLinks, NotedStays
<1>5. \A v \in Workers : run'[v] = run[v] \/ run'[v].pc \notin Fetched
  <2>1. CASE run' = [run EXCEPT ![w].pc = "confirm"]
      BY <1>1, <2>1 DEF TypeOK, Run, Fetched
  <2>2. CASE End(w)
      BY <2>2 DEF End, TypeOK, IdleRun, Fetched
  <2> QED BY <2>1, <2>2 DEF PutHead, PutHeadAckLost, Goto, Fail
<1>6. \A v \in Workers \ {w} : Active(v) => Home[v] # r
    BY <1>0, HolderAlone DEF HistoryInv
<1> HIDE DEF d, x, r
<1>7. ASSUME NEW q \in Replicas, ~Linked(q)', NEW e \in 1..Len(heads') PROVE heads'[e].by # q
  <2>1. ~Linked(q) /\ q # r
      BY <1>1, <1>4, <1>7 DEF KeepsLinks
  <2>2. CASE e \in 1..Len(heads)
      BY <1>3, <2>1, <2>2 DEF OwnInv
  <2>3. CASE e = Len(heads) + 1
      BY <1>2, <1>3, <2>1, <2>3
  <2> QED BY <1>3, <2>2, <2>3
<1>8. ASSUME NEW q \in Replicas PROVE Recognised(q, binding[q])'
  <2>1. heads'[cur'] = d
      BY <1>0, <1>3
  <2>2. CASE q = r
      BY <1>2, <1>4, <2>1, <2>2 DEF Recognised
  <2>3. CASE q # r
      BY <1>2, <2>1, <2>3 DEF Recognised
  <2> QED BY <2>2, <2>3
<1>9. ASSUME NEW v \in Workers PROVE OwnsAt(run[v], Home[v], binding[Home[v]])'
  <2>1. CASE run'[v].pc \notin Fetched
      BY <2>1 DEF OwnsAt, Fetched
  <2>2. CASE run'[v].pc \in Fetched
    <3>1. run'[v] = run[v] /\ Active(v) /\ Home[v] \in Replicas
        BY <1>5, <2>2, HomeType DEF Active, Fetched
    <3>2. v # w
      <4> SUFFICES ASSUME v = w PROVE FALSE
          OBVIOUS
      <4>1. run'[w].pc = "put"
          BY <1>0, <3>1 DEF x
      <4>2. (PutHead(w) => run'[w].pc = "confirm") /\ (PutHeadAckLost(w) => run'[w].pc = "idle")
          BY <1>1 DEF PutHead, PutHeadAckLost, Goto, Fail, End, TypeOK, Run, IdleRun, x
      <4> QED BY <4>1, <4>2
    <3>3. Home[v] # r
        BY <1>6, <3>1, <3>2
    <3>4. OwnsAt(run[v], Home[v], binding[Home[v]])
        BY DEF OwnInv
    <3>5. ASSUME NEW e \in 1..Len(heads'), e > run[v].remote.etag PROVE heads'[e].by # Home[v]
      <4>1. CASE e \in 1..Len(heads)
          BY <1>3, <2>2, <3>1, <3>4, <3>5, <4>1 DEF OwnsAt
      <4>2. CASE e = Len(heads) + 1
          BY <1>2, <1>3, <3>3, <4>2
      <4> QED BY <1>3, <4>1, <4>2
    <3> QED BY <1>4, <3>1, <3>4, <3>5 DEF OwnsAt
  <2> QED BY <2>1, <2>2
<1> QED BY <1>7, <1>8, <1>9 DEF OwnInv

\* Whoever lost the compare-and-swap lost it to another replica.
LEMMA OwnLost ==
    ASSUME TypeOK, HistoryInv, OwnInv, NEW w \in Workers, PutHeadLost(w)
    PROVE  OwnInv'
<1> DEFINE r == Home[w]
           x == run[w]
           c == [binding[r] EXCEPT !.pending = None]
           y == [IdleRun EXCEPT !.pc = "fetch", !.passes = x.passes + 1]
<1>0. Active(w) /\ UNCHANGED <<heads, cur>> /\ x.pc = "put" /\ x.remote.etag # cur
    BY DEF PutHeadLost, Active, At, cloud
<1>1. x \in Run /\ r \in Replicas /\ binding[r] \in Binding /\ OwnsAt(x, r, binding[r])
    BY OwnFacts
<1>2. binding' = [binding EXCEPT ![r] = c] /\ c.phase = binding[r].phase /\ c.etag = x.remote.etag
    BY <1>0, <1>1 DEF PutHeadLost, TypeOK, Binding, OwnsAt
<1>3. y.pc \notin Fetched /\ IdleRun.pc \notin Fetched
    BY DEF IdleRun, Fetched
<1>4. run' = [run EXCEPT ![w] = y] \/ run' = [run EXCEPT ![w] = IdleRun]
    BY DEF PutHeadLost, End
<1>5. x.pc \in Fetched
    BY <1>0 DEF Fetched
<1> HIDE DEF y, c
<1> QED BY <1>0, <1>2, <1>3, <1>4, <1>5, OwnAccepts

LEMMA OwnConfirm ==
    ASSUME TypeOK, HistoryInv, OwnInv, NEW w \in Workers, Confirm(w)
    PROVE  OwnInv'
<1> DEFINE r == Home[w]
           x == run[w]
           b == binding[r]
           c == [b EXCEPT !.etag = cur, !.head = x.doc,
                          !.pending = IF @ = None THEN None ELSE [@ EXCEPT !.applied = TRUE]]
           y == [x EXCEPT !.pc = "settle", !.remote = [doc |-> x.doc, etag |-> cur]]
<1>0. Active(w) /\ UNCHANGED <<heads, cur>> /\ x.pc = "confirm"
    BY DEF Confirm, Active, At, cloud
<1>1. x \in Run /\ r \in Replicas /\ b \in Binding
    BY OwnFacts
<1>2. CASE Fail(w) \/ (End(w) /\ UNCHANGED binding)
    BY <1>0, <1>2, OwnEnds DEF Fail
<1>3. CASE binding' = [binding EXCEPT ![r] = c] /\ run' = [run EXCEPT ![w] = y]
  <2>1. y.pc = "settle" /\ y.remote.etag = cur
      BY <1>1 DEF Run
  <2>2. c.phase = b.phase /\ c.etag = cur
      BY <1>1 DEF Binding
  <2> HIDE DEF y, c
  <2>3. run'[w] = y /\ \A v \in Workers \ {w} : run'[v] = run[v]
      BY <1>3 DEF TypeOK
  <2>4. binding'[r] = c /\ \A q \in Replicas \ {r} : binding'[q] = binding[q]
      BY <1>1, <1>3 DEF TypeOK
  <2>5. \A e \in 1..Len(heads) : ~(e > cur)
      BY OwnFacts
  <2>6. OwnsAt(y, r, c)
      BY <2>1, <2>5 DEF OwnsAt
  <2>7. Recognised(r, c) /\ KeepsLinks
      BY <1>3, <2>2, WrittenLinks DEF Recognised
  <2> QED BY <1>0, <2>3, <2>4, <2>6, <2>7, OwnStep
<1> QED BY <1>2, <1>3 DEF Confirm

LEMMA OwnSettle ==
    ASSUME TypeOK, HistoryInv, OwnInv, NEW w \in Workers, Settle(w)
    PROVE  OwnInv'
<1> DEFINE r == Home[w]
           x == run[w]
           document == x.remote.doc
           c == [Anchored(binding[r], Content(document), document.gen) EXCEPT
                   !.etag = x.remote.etag, !.head = document]
           y == [x EXCEPT !.pc = "finish"]
<1>0. Active(w) /\ UNCHANGED <<heads, cur>> /\ x.pc = "settle" /\ x.pc \in Fetched
    BY DEF Settle, Active, At, cloud, Fetched
<1>1. x \in Run /\ r \in Replicas /\ binding[r] \in Binding
    BY OwnFacts
<1>2. CASE Fail(w)
    BY <1>0, <1>2, OwnEnds DEF Fail
<1>3. CASE binding' = [binding EXCEPT ![r] = c] /\ Goto(w, "finish")
  <2>1. y.pc \notin Fetched
      BY <1>1 DEF Run, Fetched
  <2>2. run' = [run EXCEPT ![w] = y]
      BY <1>3 DEF Goto, TypeOK
  <2>3. c.etag = x.remote.etag /\ c.phase = "linked"
      BY <1>1 DEF Anchored, Binding
  <2> HIDE DEF y, c
  <2> QED BY <1>0, <1>3, <2>1, <2>2, <2>3, OwnAccepts
<1> QED BY <1>2, <1>3 DEF Settle

LEMMA OwnFinish ==
    ASSUME TypeOK, UnlinkedOK, HistoryInv, OwnInv, NEW w \in Workers, Finish(w)
    PROVE  OwnInv'
<1> DEFINE r == Home[w]
<1>0. Active(w) /\ UNCHANGED <<heads, cur>>
    BY DEF Finish, Active, At, cloud
<1>1. \A v \in Workers : run'[v] = run[v] \/ run'[v].pc \notin Fetched
    BY DEF Finish, End, TypeOK, IdleRun, Fetched
<1>2. CASE binding' = binding
    BY <1>0, <1>1, <1>2, OwnQuiet DEF KeepsLinks, Linked
<1>3. CASE \E phase \in {"bootstrap", "linked"} : binding' = [binding EXCEPT ![r] = [@ EXCEPT !.phase = phase]]
  <2>1. PICK phase \in {"bootstrap", "linked"} : binding' = [binding EXCEPT ![r] = [@ EXCEPT !.phase = phase]]
      BY <1>3
  <2> DEFINE c == [binding[r] EXCEPT !.phase = phase]
  <2>2. c.phase = phase /\ c.etag = binding[r].etag /\ c.pending = binding[r].pending
      BY OwnFacts DEF Binding
  <2>3. binding' = [binding EXCEPT ![r] = c]
      BY <2>1 DEF TypeOK
  <2> HIDE DEF c
  <2>4. \A q \in Replicas : binding'[q].etag = binding[q].etag /\ binding'[q].pending = binding[q].pending
      BY <2>2, <2>3, OwnFacts DEF TypeOK
  <2>5. KeepsLinks
      BY <2>1, <2>2, <2>3, WrittenLinks
  <2> QED BY <1>0, <1>1, <2>4, <2>5, OwnQuiet
<1>4. \/ binding' = binding
      \/ \E phase \in {"bootstrap", "linked"} : binding' = [binding EXCEPT ![r] = [@ EXCEPT !.phase = phase]]
  <2>1. CASE ~Holds(w)
      BY <2>1 DEF Finish
  <2>2. CASE Holds(w) /\ binding[r].phase = "publication_unknown" /\ binding[r].pending = None
      BY <2>2 DEF Finish
  <2>3. CASE Holds(w) /\ ~(binding[r].phase = "publication_unknown" /\ binding[r].pending = None)
    <3>1. binding' = [binding EXCEPT ![r] = binding[r]]
        BY <2>3 DEF Finish
    <3> QED BY <3>1, OwnFacts DEF TypeOK
  <2> QED BY <2>1, <2>2, <2>3
<1> QED BY <1>2, <1>3, <1>4
\* Starting, resolving, failing: nothing that was fetched moves.
LEMMA OwnRest ==
    ASSUME TypeOK, UnlinkedOK, HistoryInv, OwnInv, NEW w \in Workers,
           \/ StartCycle(w) \/ ResolveStart(w) \/ ResolveStep(w) \/ ResolveAckLost(w)
           \/ RequestFails(w)
    PROVE  OwnInv'
<1>0. run[w] \in Run /\ Home[w] \in Replicas /\ IdleRun.pc \notin Fetched
    BY OwnFacts DEF IdleRun, Fetched
<1>1. CASE StartCycle(w) \/ ResolveStart(w) \/ ResolveStep(w)
  <2>1. UNCHANGED <<heads, cur, binding>> /\ KeepsLinks
      BY <1>1 DEF StartCycle, ResolveStart, StartResolve, ResolveStep, ResolveLease, ResolveFetch,
         ResolveWrite, cloud, KeepsLinks, Linked
  <2>2. \A v \in Workers : run'[v] = run[v] \/ run'[v].pc \notin Fetched
    <3>1. CASE StartCycle(w)
      <4> DEFINE y == [run[w] EXCEPT !.pc = "fetch"]
      <4>1. run' = [run EXCEPT ![w] = y]
          BY <3>1 DEF StartCycle, Goto, TypeOK
      <4>2. y.pc \notin Fetched
          BY <1>0 DEF Run, Fetched
      <4> HIDE DEF y
      <4> QED BY <4>1, <4>2 DEF TypeOK
    <3>2. CASE ResolveStart(w)
      <4>1. PICK k \in Keys, choice \in {"keep-local", "keep-remote"} : StartResolve(w, k, choice)
          BY <3>2 DEF ResolveStart
      <4> DEFINE y == [IdleRun EXCEPT !.pc = "resolve-lease", !.seen = binding[Home[w]],
                                      !.key = k, !.choice = choice]
      <4>2. run' = [run EXCEPT ![w] = y]
          BY <4>1 DEF StartResolve
      <4>3. y.pc \notin Fetched
          BY DEF IdleRun, Fetched
      <4> HIDE DEF y
      <4> QED BY <4>2, <4>3 DEF TypeOK
    <3>3. CASE ResolveLease(w)
      <4> DEFINE y == [run[w] EXCEPT !.pc = "resolve-fetch", !.images = open[Home[w]][run[w].key]]
      <4>1. run' = [run EXCEPT ![w] = y] \/ run' = [run EXCEPT ![w] = IdleRun]
          BY <3>3 DEF ResolveLease, TypeOK
      <4>2. y.pc \notin Fetched
          BY <1>0 DEF Run, Fetched
      <4> HIDE DEF y
      <4> QED BY <1>0, <4>1, <4>2 DEF TypeOK
    <3>4. CASE ResolveFetch(w) \/ ResolveWrite(w)
      <4> DEFINE y == [run[w] EXCEPT !.pc = "resolve-write"]
      <4>1. run' = [run EXCEPT ![w] = y] \/ run' = [run EXCEPT ![w] = IdleRun]
          BY <3>4 DEF ResolveFetch, ResolveWrite, Goto, End, TypeOK
      <4>2. y.pc \notin Fetched
          BY <1>0 DEF Run, Fetched
      <4> HIDE DEF y
      <4> QED BY <1>0, <4>1, <4>2 DEF TypeOK
    <3> QED BY <1>1, <3>1, <3>2, <3>3, <3>4 DEF ResolveStep
  <2> QED BY <2>1, <2>2, OwnQuiet
<1>2. CASE ResolveAckLost(w)
  <2> DEFINE c == [binding[Home[w]] EXCEPT !.phase = "publication_unknown"]
  <2>1. c.phase = "publication_unknown" /\ c.etag = binding[Home[w]].etag
        /\ c.pending = binding[Home[w]].pending
      BY <1>0, OwnFacts DEF Binding
  <2>2. /\ UNCHANGED <<heads, cur>> /\ binding' = [binding EXCEPT ![Home[w]] = c]
        /\ run' = [run EXCEPT ![w] = IdleRun]
      BY <1>2 DEF ResolveAckLost, End, TypeOK, cloud
  <2> HIDE DEF c
  <2>3. KeepsLinks
      BY <2>1, <2>2, WrittenLinks
  <2>4. \A r \in Replicas : binding'[r].etag = binding[r].etag /\ binding'[r].pending = binding[r].pending
      BY <2>1, <2>2 DEF TypeOK
  <2>5. \A v \in Workers : run'[v] = run[v] \/ run'[v].pc \notin Fetched
      BY <1>0, <2>2 DEF TypeOK
  <2> QED BY <2>2, <2>3, <2>4, <2>5, OwnQuiet
<1>3. CASE RequestFails(w)
    BY <1>3, OwnEnds DEF RequestFails, Fail, cloud
<1> QED BY <1>1, <1>2, <1>3

\* Users and the link: what a replica published it published while linked, and it stays so.
LEMMA OwnUser ==
    ASSUME "unlink" \notin Faults, TypeOK, UnlinkedOK, HistoryInv, OwnInv,
           NEW r \in Replicas, UserStep(r) \/ LinkStep(r)
    PROVE  OwnInv'
<1>0. binding[r] \in Binding
    BY DEF TypeOK
<1>1. ASSUME NEW k \in Keys, Edit(r, k) \/ Remove(r, k) PROVE OwnInv'
    BY <1>1, OwnQuiet DEF Edit, Remove, UserWrites, cloud, KeepsLinks, Linked
<1>2. CASE Enable(r) \/ Pause(r)
  <2>1. UNCHANGED <<heads, cur, run>> /\ \E on : binding' = [binding EXCEPT ![r].enabled = on]
      BY <1>2 DEF Enable, Pause, cloud
  <2>2. PICK on : binding' = [binding EXCEPT ![r].enabled = on]
      BY <2>1
  <2>3. \A q \in Replicas : /\ binding'[q].etag = binding[q].etag /\ binding'[q].phase = binding[q].phase
                            /\ binding'[q].pending = binding[q].pending
      BY <1>0, <2>2 DEF TypeOK, Binding
  <2> QED BY <2>1, <2>3, OwnQuiet DEF KeepsLinks, Linked
<1>3. CASE Unlink(r)
    BY <1>3 DEF Unlink, Fault
<1>4. CASE LinkStep(r)
  <2>1. /\ UNCHANGED <<heads, cur, run, lease>> /\ ~Linked(r)
        /\ \A q \in Replicas \ {r} : binding'[q] = binding[q]
      BY <1>4 DEF LinkStep, LinkBegin, LinkDone, LinkAbort, Linked, TypeOK, cloud
  <2>2. \A v \in Workers : Active(v) => Home[v] # r
      BY <2>1, NobodyAtWork
  <2>3. \A e \in 1..Len(heads) : heads[e].by # r
      BY <2>1 DEF OwnInv
  <2>4. ASSUME NEW q \in Replicas, ~Linked(q)', NEW e \in 1..Len(heads') PROVE heads'[e].by # q
    <3>1. CASE q = r
        BY <2>1, <2>3, <2>4, <3>1
    <3>2. CASE q # r
      <4>1. ~Linked(q)
          BY <2>1, <2>4, <3>2 DEF Linked
      <4> QED BY <2>1, <2>4, <4>1 DEF OwnInv
    <3> QED BY <3>1, <3>2
  <2>5. ASSUME NEW q \in Replicas PROVE Recognised(q, binding[q])'
    <3>1. CASE q = r
      <4>1. cur = Len(heads) /\ Len(heads) \in Nat
          BY DEF HistoryInv, OpsOnce, TypeOK
      <4> QED BY <2>1, <2>3, <3>1, <4>1 DEF Recognised
    <3>2. CASE q # r
        BY <2>1, <3>2 DEF OwnInv, Recognised
    <3> QED BY <3>1, <3>2
  <2>6. ASSUME NEW v \in Workers PROVE OwnsAt(run[v], Home[v], binding[Home[v]])'
    <3>1. CASE ~Active(v)
        BY <2>1, <3>1 DEF OwnsAt, Active, Fetched
    <3>2. CASE Active(v)
      <4>1. binding'[Home[v]] = binding[Home[v]]
          BY <2>1, <2>2, <3>2, HomeType
      <4> QED BY <2>1, <4>1 DEF OwnInv, OwnsAt
    <3> QED BY <3>1, <3>2
  <2> QED BY <2>4, <2>5, <2>6 DEF OwnInv
<1> QED BY <1>1, <1>2, <1>3, <1>4 DEF UserStep

LEMMA InitOwn == Init => OwnInv
<1> SUFFICES ASSUME Init PROVE OwnInv
  OBVIOUS
<1>1. heads = <<>> /\ cur = 0 /\ Len(heads) = 0
    BY DEF Init
<1>2. \A w \in Workers : run[w].pc = "idle"
    BY DEF Init, IdleRun
<1> QED BY <1>1, <1>2 DEF OwnInv, Recognised, OwnsAt, Fetched

LEMMA OwnKept ==
    ASSUME Answered, "unlink" \notin Faults, Inv, HistoryInv, OwnInv, [Next]_vars
    PROVE  OwnInv'
<1> USE DEF Inv
<1>1. CASE UNCHANGED vars
    BY <1>1, OwnQuiet DEF vars, KeepsLinks, Linked
<1>2. ASSUME NEW r \in Replicas, UserStep(r) \/ LinkStep(r) \/ Expire(r) PROVE OwnInv'
    BY <1>2, OwnUser, NoExpiry
<1>3. ASSUME NEW w \in Workers, StartCycle(w) \/ ResolveStart(w) \/ ResolveStep(w) PROVE OwnInv'
    BY <1>3, OwnRest
<1>4. ASSUME NEW w \in Workers, CycleStep(w) PROVE OwnInv'
  <2>1. ASSUME RetryPut(w) \/ RetryPutStopped(w) \/ RetryConfirm(w) \/ RetryConfirmLate(w) \/ RetryCommit(w)
        PROVE  FALSE
      BY <2>1, NoRetry DEF RetryPut, RetryPutStopped, RetryConfirm, RetryConfirmLate, RetryCommit, At
  <2>2. ASSUME PutHeadStopped(w) PROVE FALSE
      BY <2>2 DEF PutHeadStopped, At, Active, HistoryInv, Leased
  <2> QED BY <1>4, <2>1, <2>2, OwnFetch, OwnPlan, OwnApply, OwnRemember, OwnAccept, OwnAnchor, OwnBuild,
             OwnJournal, OwnPut, OwnLost, OwnConfirm, OwnSettle, OwnFinish DEF CycleStep
<1>5. CASE FaultStep
  <2>1. CASE (\E r \in Replicas : Crash(r)) \/ CloudRollback \/ CloudLoss
      BY <2>1 DEF Crash, CloudRollback, CloudLoss, Fault, Answered
  <2>2. ASSUME NEW w \in Workers, PutFails(w) \/ RetryPutAckLost(w) PROVE FALSE
      BY <2>2, NoRetry DEF PutFails, RetryPutAckLost, At, Fault, Answered
  <2>3. ASSUME NEW w \in Workers,
               RequestFails(w) \/ PutHeadAckLost(w) \/ ApplyAckLost(w) \/ ResolveAckLost(w)
        PROVE  OwnInv'
      BY <2>3, OwnRest, OwnPut, OwnApply
  <2> QED BY <1>5, <2>1, <2>2, <2>3 DEF FaultStep
<1> QED BY <1>1, <1>2, <1>3, <1>4, <1>5 DEF Next

LEMMA MergesTraced ==
    ASSUME TypeOK, HistoryInv
    PROVE  MergedHeadIsCloudHead /\ BaseWasPublished
<1>1. MergedHeadIsCloudHead
    BY HistoryFacts DEF MergedHeadIsCloudHead, KnowsAt, Knows, Names
<1>2. BaseWasPublished
    BY DEF BaseWasPublished, HistoryInv, ReplicaKnows, Published
<1> QED BY <1>1, <1>2

LEMMA OwnHeadTraced ==
    ASSUME TypeOK, HistoryInv, OwnInv
    PROVE  OwnHeadKnown
<1> SUFFICES ASSUME cur # 0
             PROVE  LET b == binding[heads[cur].by]
                    IN  b.etag = cur \/ (b.pending # None /\ b.pending.doc = heads[cur])
    BY DEF OwnHeadKnown
<1>1. heads \in Seq(Doc) /\ cur \in Nat /\ cur = Len(heads)
    BY DEF TypeOK, HistoryInv, OpsOnce
<1>2. cur \in 1..Len(heads)
    BY <1>1
<1>3. heads[cur] \in Doc
    BY <1>1, <1>2
<1>4. heads[cur].by \in Replicas
    BY <1>3 DEF Doc
<1> QED BY <1>4 DEF OwnInv, Recognised

\* Every cycle merges the head its etag names, and every base is a version that was
\* published, whoever links, pauses or leaves.
THEOREM MergesAreTraced ==
    ASSUME Answered PROVE Spec => [](MergedHeadIsCloudHead /\ BaseWasPublished)
<1>1. Init => Inv /\ HistoryInv
    BY InitInv, InitHistory
<1>2. Inv /\ HistoryInv /\ [Next]_vars => (Inv /\ HistoryInv)'
    BY NextTypes, StepKept, HistoryKept DEF Inv, Kept
<1>3. Inv /\ HistoryInv => MergedHeadIsCloudHead /\ BaseWasPublished
    BY MergesTraced DEF Inv
<1> QED BY <1>1, <1>2, <1>3, PTL DEF Spec

\* While nobody unlinks, a replica also knows its own head: it accepted it or journaled it.
THEOREM HeadsAreTraced == ASSUME Answered, "unlink" \notin Faults PROVE Spec => []Provenance
<1>1. Init => Inv /\ HistoryInv /\ OwnInv
    BY InitInv, InitHistory, InitOwn
<1>2. Inv /\ HistoryInv /\ OwnInv /\ [Next]_vars => (Inv /\ HistoryInv /\ OwnInv)'
    BY NextTypes, StepKept, HistoryKept, OwnKept DEF Inv, Kept
<1>3. Inv /\ HistoryInv /\ OwnInv => Provenance
    BY MergesTraced, OwnHeadTraced DEF Inv, Provenance
<1> QED BY <1>1, <1>2, <1>3, PTL DEF Spec
=============================================================================
