--------------------------- MODULE SyncProperties ---------------------------
(***************************************************************************)
(* What continuous sync promises.                                          *)
(***************************************************************************)
EXTENDS ContinuousSync

\* A cycle merges the head its etag names: a 304 stands for the stored head document,
\* which is the one on the server.
MergedHeadIsCloudHead ==
    \A w \in Workers :
        At(w, "plan") /\ run[w].remote.doc # None =>
            run[w].remote.doc = heads[run[w].remote.etag]

\* A base is a version some stored head held: a three-way merge never calls an
\* unpublished local row "unchanged since the last sync".
BaseWasPublished ==
    \A r \in Replicas, k \in Keys :
        rowState[r].base[k] # None =>
            \E e \in DOMAIN heads : heads[e].rows[k] = rowState[r].base[k]

\* Some head holds this version of the row.
Published(k, row) == \E e \in DOMAIN heads : heads[e].rows[k] = row

\* The step is the user's reviewed choice on this key of the replica.
Chose(r, k) == \E w \in Workers : /\ Home[w] = r /\ run[w].key = k
                                  /\ At(w, "resolve-write") /\ run'[w] = IdleRun

\* Sync overwrites or deletes a local row only when some head holds that version, or
\* the user chose to in a reviewed conflict.
NoSilentLoss ==
    [][\A r \in Replicas, k \in Keys :
          rows[r][k] # None /\ rows'[r][k] # rows[r][k] =>
              edits' # edits \/ Chose(r, k) \/ Published(k, rows[r][k])]_vars

\* While a replica stays linked its accepted head never goes back, and two heads it
\* accepts with one generation have the same content.
AcceptedMonotone ==
    [][\A r \in Replicas :
          LET old == binding[r].head
              new == binding'[r].head
          IN  old # None /\ binding'[r].phase # "unlinked" =>
                  /\ new # None
                  /\ new.gen >= old.gen
                  /\ new.gen = old.gen => Content(new) = Content(old)]_vars

\* The replica that stored the current head knows: it has accepted it, or journaled it.
OwnHeadKnown ==
    cur # 0 /\ Linked(heads[cur].by) =>
        LET b == binding[heads[cur].by]
        IN  b.etag = cur \/ (b.pending # None /\ b.pending.doc = heads[cur])

\* What a cycle merges and what it takes for its base come from heads the cloud holds
\* or held, and a head of its own never comes back to it as another's.
Provenance == MergedHeadIsCloudHead /\ BaseWasPublished /\ OwnHeadKnown

\* A publication replaces a cloud row only with the replaced version as the base of its
\* replica: no other member's row is overwritten unseen.
NoLostUpdate ==
    [][heads' # heads /\ cur # 0 =>
          LET old == heads[cur]
              new == heads'[Len(heads')]
          IN  \A k \in Keys :
                old.rows[k] # None /\ new.rows[k] # old.rows[k] =>
                    rowState[new.by].base[k] = old.rows[k]]_vars

\* Users stop editing (MaxEdits) and review nothing: replicas that keep cycling then end
\* up with the cloud rows, those with an open conflict apart.
Unreviewed == [](\A w \in Workers : ~At(w, "resolve-lease"))

Settles ==
    Unreviewed =>
        <>[](\A r \in Replicas :
                binding[r].enabled /\ (\A k \in Keys : open[r][k] = None) =>
                    cur # 0 /\ rows[r] = heads[cur].rows)

\* The stored heads as the history HeadLog describes.
History == INSTANCE HeadLog WITH
    log <- [e \in DOMAIN heads |->
              [op |-> heads[e].op, parent |-> heads[e].parent, gen |-> heads[e].gen]],
    stored <- cur

\* The published heads are one history: every PUT extends the head it was merged from.
OneHistory == History!Spec

\* A journaled operation whose local rows moved on is retained, not replaced.
JournalRetained ==
    [][\A r \in Replicas :
          LET old == binding[r].pending
              new == binding'[r].pending
          IN  old # None /\ new # None /\ Local(r) # old.capture => new.doc = old.doc]_vars

\* A merge never brings in two active focus sessions.
ImportsOneActive ==
    \A w \in Workers : At(w, "apply") => OneActive(AppliedRows(run[w], run[w].cap.rows))
=============================================================================
