--------------------------- MODULE SyncInvariants ---------------------------
(***************************************************************************)
(* Why the accepted head of a replica never goes back: the inductive       *)
(* invariant behind TypeOK and AcceptedMonotone.                           *)
(*                                                                         *)
(* A request reads the head once and then works through a dozen awaits.    *)
(* What it fetched stays newer than what the binding has accepted because  *)
(* only the holder of the lease writes the head or the baseline of the     *)
(* binding; a request that lost the lease may keep anything it likes.      *)
(***************************************************************************)
EXTENDS SyncProperties

\* A request has what its step needs: a fetched head, a document, a journal, a
\* conflict.
RequestOK(x) ==
    /\ x.pc \in {"apply", "accept", "anchor", "settle"} => x.remote.doc # None
    /\ x.pc \in {"journal", "put", "confirm"} => x.doc # None
    /\ x.pc \in {"retry-put", "retry-confirm", "retry-commit"} => x.seen.pending # None
    /\ x.pc \in {"resolve-lease", "resolve-fetch", "resolve-write"} => x.key # None
    /\ x.pc \in {"resolve-fetch", "resolve-write"} => x.images # None

RequestsOK == \A w \in Workers : RequestOK(run[w])

\* A replica that is not linked has accepted nothing, runs nothing, holds no lease.
UnlinkedOK ==
    \A r \in Replicas :
        ~Linked(r) => /\ binding[r].head = None
                      /\ ~binding[r].enabled
                      /\ lease[r].holder = None

\* The accepted head and the baseline of one generation are one document.
Consistent(b) ==
    b.head # None /\ b.baseline # None /\ b.baseline.gen = b.head.gen =>
        b.baseline.content = Content(b.head)

\* The document may follow, or must follow, what the binding has accepted.
Follows(b, document) ==
    /\ b.head # None =>
          /\ b.head.gen <= document.gen
          /\ b.head.gen = document.gen => Content(b.head) = Content(document)
    /\ b.baseline # None /\ b.baseline.gen # None =>
          /\ b.baseline.gen <= document.gen
          /\ b.baseline.gen = document.gen => b.baseline.content = Content(document)

Precedes(b, document) ==
    /\ b.head # None => b.head.gen < document.gen
    /\ b.baseline # None /\ b.baseline.gen # None => b.baseline.gen < document.gen

\* What the lease protects, step by step.
HolderOK(b, x) ==
    /\ x.pc \in {"plan", "apply", "remember", "accept", "anchor", "build", "settle"}
          /\ x.remote.doc # None => Follows(b, x.remote.doc)
    /\ x.pc \in {"plan", "remember", "build"} /\ x.remote.doc = None =>
          b.baseline = None /\ x.seen.head = b.head
    /\ x.pc \in {"journal", "put", "confirm"} => Precedes(b, x.doc)
    /\ x.pc = "retry-commit" => x.seen.head = b.head

\* What a request that holds the lease fetched still follows everything the binding has
\* accepted, through all its awaits; and the head and the baseline of one generation are
\* one document.
HeadsOK ==
    /\ \A r \in Replicas : Consistent(binding[r])
    /\ \A w \in Workers : Holds(w) => HolderOK(binding[Home[w]], run[w])

Inv == TypeOK /\ RequestsOK /\ UnlinkedOK /\ HeadsOK
=============================================================================
