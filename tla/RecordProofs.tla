---------------------------- MODULE RecordProofs ----------------------------
(***************************************************************************)
(* The records pages write behind the fence, for any number of records,    *)
(* pages and tabs: notes and items with their links, tasks, the clocks and *)
(* their settings, the saved game.  What replaces a row was shown that row, *)
(* and what crosses on one row agrees.                                     *)
(***************************************************************************)
EXTENDS LinkedRecords, TaskRecords, ClockRecords, GameSaves, Backups, TLAPS,
        FiniteSetTheorems, WellFoundedInduction

-----------------------------------------------------------------------------
(***************************************************************************)
(* Numbers and hashes.                                                     *)
(***************************************************************************)
\* A set of naturals that is not empty has a least member.
LEMMA LeastExists ==
    ASSUME NEW T \in SUBSET Nat, T # {}
    PROVE  \E m \in T : \A n \in T : m <= n
<1> DEFINE Below == {pair \in Nat \X Nat : pair[1] < pair[2]}
<1>1. IsWellFoundedOn(Below, Nat)
  BY NatLessThanWellFounded DEF OpToRel
<1> HIDE DEF Below
<1>2. PICK m \in T : \A n \in T : ~(<<n, m>> \in Below)
  BY <1>1, WFMin
<1>3. \A n \in T : ~(n < m)
  BY <1>2 DEF Below
<1> QED BY <1>3

\* One that a number bounds has a greatest.
LEMMA GreatestExists ==
    ASSUME NEW T \in SUBSET Nat, T # {}, NEW b \in Nat, \A n \in T : n <= b
    PROVE  \E m \in T : \A n \in T : n <= m
<1> DEFINE Gaps == {b - n : n \in T}
<1>1. Gaps \in SUBSET Nat /\ Gaps # {}
  <2>1. \A n \in T : b - n \in Nat
    OBVIOUS
  <2>2. Gaps # {}
    OBVIOUS
  <2> QED BY <2>1, <2>2
<1>2. PICK g \in Gaps : \A h \in Gaps : g <= h
  BY <1>1, LeastExists
<1>3. PICK m \in T : g = b - m
  BY <1>2
<1>4. \A n \in T : b - m <= b - n
  BY <1>2, <1>3
<1> QED BY <1>4

\* A member of a sequence replaced by another.
LEMMA PutMember ==
    ASSUME NEW S, NEW s \in Seq(S), NEW i \in DOMAIN s, NEW v \in S
    PROVE  /\ s[i] \in S
           /\ [s EXCEPT ![i] = v] \in Seq(S)
           /\ DOMAIN [s EXCEPT ![i] = v] = DOMAIN s
           /\ \A j \in DOMAIN s : [s EXCEPT ![i] = v][j] = IF j = i THEN v ELSE s[j]
OBVIOUS

\* A version that is presented is the version that is stored.
LEMMA PresentedIsActual ==
    ASSUME NEW hash, NEW actual, Presented(hash, actual), hash # NoHash \/ fenced
    PROVE  hash = actual
BY DEF Presented

-----------------------------------------------------------------------------
(***************************************************************************)
(* Notes and items, tags and categories.                                   *)
(***************************************************************************)
TagRow == [name : TagNames, version : Nat]

\* Every link joins a note that exists to a tag that exists.
LinksJoin ==
    /\ text \in [Notes -> Nat]
    /\ tagRow \in Seq(TagRow)
    /\ link \subseteq Present \X TagIds

LinkedPage ==
    [step : {"closed", "shown", "locked", "read", "judged", "find"}, view : View, proof : View,
     presents : BOOLEAN]

\* The history forgets what the sync service wrote when the link ends.
LinkedTypeOK ==
    /\ fenced \in BOOLEAN /\ (~fenced => theirs = {})
    /\ notePage \in [NotePages -> LinkedPage]
    /\ \A p \in NotePages : notePage[p].view.note = 0 \/ notePage[p].view.tag = 0
    /\ \A q \in posting : q.item \in Notes

(* What a transaction has read is still so when it writes: its parent is there, no     *)
(* insertion under way refers to it, and the rows are those it compared; and one that  *)
(* passed without a hash finds nothing of the sync service's.                          *)
Stands(p) ==
    LET page == notePage[p]  now == ViewNow(page.view)
    IN  /\ ParentThere(page.view)
        /\ \A q \in posting : page.view.tag \notin q.ids
        /\ page.step = "locked" => page.proof = [now EXCEPT !.links = {}]
        /\ page.step = "read" => page.proof = now
        /\ page.step = "judged" => IF page.presents THEN page.view = now ELSE theirs = {}
ReadsStand ==
    /\ \A p, q \in Inside : p = q
    /\ \A p \in Inside : Stands(p)

LinkedInv == LinksJoin /\ LinkedTypeOK /\ ReadsStand /\ NoBlindWrite

\* Links replaced by those to tags that exist still join.
LEMMA ReplaceJoins ==
    ASSUME LinksJoin, NEW n \in Notes, NEW ids, ReplaceTags(n, ids),
           text' \in [Notes -> Nat], \A m \in Notes : text[m] # 0 => text'[m] # 0, text'[n] # 0,
           UNCHANGED tagRow
    PROVE  LinksJoin'
BY DEF LinksJoin, ReplaceTags, Present, TagIds, LinksOf

\* A note that goes takes its links with it.
LEMMA NoteGone ==
    ASSUME LinksJoin, NEW n \in Notes, text' = [text EXCEPT ![n] = 0],
           link' = link \ LinksOf(n), UNCHANGED tagRow
    PROVE  LinksJoin'
BY DEF LinksJoin, Present, TagIds, LinksOf

\* A tag that goes takes the links to it along.
LEMMA TagGone ==
    ASSUME LinksJoin, NEW i \in TagIds, tagRow' = [tagRow EXCEPT ![i].version = 0],
           link' = link \ LinksTo(i), UNCHANGED text
    PROVE  LinksJoin'
<1> DEFINE gone == [tagRow[i] EXCEPT !.version = 0]
<1>1. tagRow \in Seq(TagRow) /\ i \in DOMAIN tagRow
  BY DEF LinksJoin, TagIds
<1>2. gone \in TagRow /\ gone.version = 0
  <2>1. tagRow[i] \in TagRow
    BY <1>1
  <2> QED BY <2>1 DEF TagRow
<1>3. tagRow' = [tagRow EXCEPT ![i] = gone]
  OBVIOUS
<1> HIDE DEF gone
<1>4. /\ tagRow' \in Seq(TagRow)
      /\ DOMAIN tagRow' = DOMAIN tagRow
      /\ \A j \in DOMAIN tagRow : tagRow'[j] = IF j = i THEN gone ELSE tagRow[j]
  BY <1>1, <1>2, <1>3, PutMember
<1>5. TagIds' = TagIds \ {i}
  BY <1>2, <1>4 DEF TagIds
<1> QED BY <1>4, <1>5 DEF LinksJoin, Present, LinksTo

\* A column of a note changes, the note stays.
LEMMA NoteKept ==
    ASSUME LinksJoin, NEW n \in Notes, text' = [text EXCEPT ![n] = @ + 1], UNCHANGED <<tagRow, link>>
    PROVE  LinksJoin'
BY DEF LinksJoin, Present, TagIds

\* A new tag has no links.
LEMMA TagInserted ==
    ASSUME LinksJoin, NEW name \in TagNames, InsertTag(name)
    PROVE  LinksJoin'
<1>1. tagRow' \in Seq(TagRow)
  BY DEF LinksJoin, InsertTag, TagRow
<1>2. TagIds \subseteq TagIds'
  BY DEF LinksJoin, InsertTag, TagIds
<1> QED BY <1>1, <1>2 DEF LinksJoin, InsertTag, Present

\* A step leaves no link behind.
LEMMA JoinStep == LinkedInv /\ [LinkedNext]_linkedVars => LinksJoin'
<1> SUFFICES ASSUME LinksJoin, LinkedTypeOK, ReadsStand, [LinkedNext]_linkedVars PROVE LinksJoin'
  BY DEF LinkedInv
<1>0. ASSUME NEW p \in NotePages, NEW rows, Erases(p, rows) PROVE ParentThere(notePage[p].view)
  BY <1>0 DEF Erases, ReadsStand, Inside, Stands
<1>1. ASSUME NEW n \in Notes, NEW ids, Create(n, ids) PROVE LinksJoin'
  <2>1. text' \in [Notes -> Nat] /\ (\A m \in Notes : text[m] # 0 => text'[m] # 0) /\ text'[n] # 0
    BY <1>1 DEF Create, LinksJoin
  <2> QED BY <1>1, <2>1, ReplaceJoins DEF Create
<1>2. ASSUME NEW p \in NotePages, NEW columns \in BOOLEAN, NEW tags \in BOOLEAN, PatchNote(p, columns, tags)
      PROVE  LinksJoin'
  <2> DEFINE n == notePage[p].view.note
  <2>1. n \in Notes /\ text[n] # 0 /\ UNCHANGED tagRow
    BY <1>0, <1>2 DEF PatchNote, ParentThere, Present
  <2>2. text' = [text EXCEPT ![n] = @ + 1] \/ UNCHANGED text
    BY <1>2 DEF PatchNote
  <2>3. text' \in [Notes -> Nat] /\ (\A m \in Notes : text[m] # 0 => text'[m] # 0)
    BY <2>1, <2>2 DEF LinksJoin
  <2>4. (\E ids : ReplaceTags(n, ids)) \/ UNCHANGED link
    BY <1>2 DEF PatchNote
  <2>5. CASE UNCHANGED link
    BY <2>1, <2>3, <2>5 DEF LinksJoin, Present, TagIds
  <2> QED BY <2>1, <2>3, <2>4, <2>5, ReplaceJoins
<1>3. ASSUME NEW p \in NotePages, DeleteNote(p) PROVE LinksJoin'
  BY <1>0, <1>3, NoteGone DEF DeleteNote, ParentThere, Present
<1>4. ASSUME NEW p \in NotePages, DropTag(p) PROVE LinksJoin'
  BY <1>0, <1>4, TagGone DEF DropTag, ParentThere
<1>5. ASSUME NEW p \in NotePages, NEW name \in TagNames, PatchCategory(p, name)
      PROVE  LinksJoin'
  <2> DEFINE i == notePage[p].view.tag
  <2>1. i \in DOMAIN tagRow /\ UNCHANGED <<text, link>> /\ tagRow \in Seq(TagRow)
    BY <1>0, <1>5 DEF PatchCategory, ParentThere, TagIds, LinksJoin
  <2> DEFINE renamed == [name |-> name, version |-> tagRow[i].version + 1]
  <2>2. tagRow' = [tagRow EXCEPT ![i] = renamed]
    BY <1>5 DEF PatchCategory
  <2>3. renamed \in TagRow /\ renamed.version # 0
    <3>1. tagRow[i] \in TagRow
      BY <2>1
    <3> QED BY <3>1 DEF TagRow
  <2> HIDE DEF i, renamed
  <2>4. /\ tagRow' \in Seq(TagRow)
        /\ DOMAIN tagRow' = DOMAIN tagRow
        /\ \A j \in DOMAIN tagRow : tagRow'[j] = IF j = i THEN renamed ELSE tagRow[j]
    BY <2>1, <2>2, <2>3, PutMember DEF LinksJoin
  <2>5. TagIds \subseteq TagIds'
    BY <2>3, <2>4 DEF TagIds
  <2> QED BY <2>1, <2>4, <2>5 DEF LinksJoin, Present
<1>6. ASSUME NEW name \in TagNames, InsertTag(name) PROVE LinksJoin'
  BY <1>6, TagInserted
<1>7. CASE ApplyRow
  <2>1. ASSUME NEW n \in Present, NEW i \in TagIds,
               link' = IF <<n, i>> \in link THEN link \ {<<n, i>>} ELSE link \cup {<<n, i>>},
               UNCHANGED <<text, tagRow>>
        PROVE  LinksJoin'
    BY <2>1 DEF LinksJoin, Present, TagIds
  <2> QED BY <1>7, <2>1, NoteKept, NoteGone, TagGone DEF ApplyRow, Present
<1>8. CASE UNCHANGED <<text, tagRow, link>>
  BY <1>8 DEF LinksJoin, Present, TagIds
<1>9. ASSUME NEW q \in posting, CreateItem(q) PROVE LinksJoin'
  BY <1>1, <1>9 DEF CreateItem, LinkedTypeOK
<1>10. ASSUME NEW p \in NotePages, LockParent(p) \/ ReadLinks(p) \/ (\E presents \in BOOLEAN : Passes(p, presents))
       PROVE  LinksJoin'
  <2>1. CASE LockParent(p)
    BY <1>8, <2>1 DEF LockParent
  <2>2. CASE ReadLinks(p)
    BY <1>8, <2>2 DEF ReadLinks
  <2>3. ASSUME NEW presents \in BOOLEAN, Passes(p, presents) PROVE LinksJoin'
    BY <1>8, <2>3 DEF Passes
  <2> QED BY <1>10, <2>1, <2>2, <2>3
<1>11. ASSUME NEW p \in NotePages, NEW view, Open(p, view) PROVE LinksJoin'
  BY <1>8, <1>11 DEF Open
<1>12. ASSUME NEW n \in Notes, NEW ids, PostItem(n, ids) PROVE LinksJoin'
  BY <1>8, <1>12 DEF PostItem
<1>13. ASSUME NEW p \in NotePages, ClosePage(p) \/ FindTag(p) PROVE LinksJoin'
  BY <1>8, <1>13 DEF ClosePage, FindTag
<1>14. ASSUME NEW p \in NotePages, NEW name \in TagNames, CreateTag(p, name) PROVE LinksJoin'
  BY <1>6, <1>8, <1>14 DEF CreateTag
<1>15. CASE LinkBinding
  BY <1>8, <1>15 DEF LinkBinding
<1>16. CASE UNCHANGED linkedVars
  BY <1>8, <1>16 DEF linkedVars
<1> QED
  BY <1>1, <1>2, <1>3, <1>4, <1>5, <1>6, <1>7, <1>9, <1>10, <1>11, <1>12, <1>13, <1>14, <1>15, <1>16
     DEF LinkedNext, OpenNote, OpenItem, OpenTag, OpenCategory, CreateNote, DeleteTag, DeleteCategory, CreateCategory

\* The views of the records there are.
LEMMA LinkedViewTypes ==
    ASSUME LinksJoin, NEW view \in View, ParentThere(view)
    PROVE  ViewNow(view) \in View
<1>1. DOMAIN tagRow \subseteq Nat /\ link \subseteq Notes \X Nat
  BY DEF LinksJoin, Present, TagIds
<1>2. CASE view.tag = 0
  BY <1>1, <1>2 DEF ViewNow, NoteView, View, ParentThere, Present, LinksOf, LinksJoin
<1>3. CASE view.tag # 0
  <2>1. view.tag \in DOMAIN tagRow /\ tagRow[view.tag] \in TagRow
    BY <1>3 DEF ParentThere, TagIds, LinksJoin
  <2> QED BY <1>1, <1>3, <2>1 DEF ViewNow, TagView, View, TagRow, LinksTo
<1> QED BY <1>2, <1>3

\* A step at whose end no transaction is inside.
LEMMA NobodyInside ==
    ASSUME Inside' = {}, NoBlindWrite', LinkedTypeOK', LinksJoin'
    PROVE  LinkedInv'
BY DEF LinkedInv, ReadsStand

\* A step that changes nothing a transaction has read.
LEMMA NothingRead ==
    ASSUME LinkedInv, LinksJoin', LinkedTypeOK', UNCHANGED <<theirs, blind>>,
           Inside' \subseteq Inside,
           \A p \in Inside' : /\ notePage'[p] = notePage[p]
                              /\ ViewNow(notePage[p].view)' = ViewNow(notePage[p].view)
                              /\ ParentThere(notePage[p].view)'
                              /\ \A q \in posting' : notePage[p].view.tag \notin q.ids
    PROVE  LinkedInv'
<1>1. ASSUME NEW p \in Inside' PROVE Stands(p)'
  <2>1. Stands(p) /\ notePage'[p] = notePage[p]
    BY <1>1 DEF LinkedInv, ReadsStand
  <2> QED BY <1>1, <2>1 DEF Stands, ViewNow, ParentThere
<1> QED BY <1>1 DEF LinkedInv, ReadsStand, NoBlindWrite

\* A page that is given another state, and nothing else that its type speaks of.
LEMMA PageTyped ==
    ASSUME LinkedTypeOK, NEW p \in NotePages, NEW page \in LinkedPage, page.view.note = 0 \/ page.view.tag = 0,
           notePage' = [notePage EXCEPT ![p] = page], theirs' \subseteq theirs,
           UNCHANGED <<fenced, posting>>
    PROVE  LinkedTypeOK'
BY DEF LinkedTypeOK

LEMMA ClosedType == Closed \in LinkedPage /\ Closed.view.note = 0
<1>1. NothingShown \in View
  BY DEF NothingShown, View
<1> QED BY <1>1 DEF Closed, LinkedPage, NothingShown

\* A page that closes takes no other into a transaction.
LEMMA PageCloses ==
    ASSUME LinkedTypeOK, NEW p \in NotePages, notePage' = [notePage EXCEPT ![p] = Closed]
    PROVE  Inside' = Inside \ {p} /\ \A q \in Inside' : notePage'[q] = notePage[q]
BY DEF Inside, LinkedTypeOK, Closed

(* The write of the one transaction inside erases rows that it has compared, and      *)
(* nothing of the sync service's if it compared none.                                 *)
LEMMA ErasesShown ==
    ASSUME LinkedInv, NEW p \in NotePages, NEW rows, Erases(p, rows),
           LET view == notePage[p].view
           IN  rows \subseteq {<<view.note, view.tag>>} \cup ViewNow(view).links,
           LinksJoin', UNCHANGED <<fenced, posting>>
    PROVE  LinkedInv'
<1>1. p \in Inside /\ Stands(p) /\ notePage[p].step = "judged"
  BY DEF Erases, Inside, LinkedInv, ReadsStand
<1>2. Inside' = {}
  BY <1>1, PageCloses DEF Erases, LinkedInv, ReadsStand
<1>3. ~blind'
  <2>1. CASE notePage[p].presents
    BY <1>1, <2>1 DEF Stands, Erases, LinkedInv, NoBlindWrite
  <2>2. CASE ~notePage[p].presents
    BY <1>1, <2>2 DEF Stands, Erases, LinkedInv, NoBlindWrite
  <2> QED BY <2>1, <2>2
<1>4. LinkedTypeOK'
  BY ClosedType, PageTyped DEF Erases, LinkedInv
<1> QED BY <1>2, <1>3, <1>4, NobodyInside DEF NoBlindWrite

\* A page in a transaction that only reads: it is the one inside, and what it has read stands.
LEMMA PageReads ==
    ASSUME LinkedInv, NEW p \in NotePages, NEW page \in LinkedPage, NEW view, view = notePage[p].view,
           page.view = view, page.step \in {"locked", "read", "judged"},
           Inside \subseteq {p}, ParentThere(view), \A q \in posting : view.tag \notin q.ids,
           page.step = "locked" => page.proof = [ViewNow(view) EXCEPT !.links = {}],
           page.step = "read" => page.proof = ViewNow(view),
           page.step = "judged" => IF page.presents THEN view = ViewNow(view) ELSE theirs = {},
           notePage' = [notePage EXCEPT ![p] = page],
           UNCHANGED <<fenced, app, text, tagRow, link, posting, theirs, blind>>
    PROVE  LinkedInv'
<1>1. notePage'[p] = page /\ \A q \in NotePages \ {p} : notePage'[q] = notePage[q]
  BY DEF LinkedInv, LinkedTypeOK
<1>2. Inside' = {p}
  BY <1>1 DEF Inside
<1>3. LinkedTypeOK'
  <2>1. page.view.note = 0 \/ page.view.tag = 0
    BY DEF LinkedInv, LinkedTypeOK
  <2> QED BY <2>1, PageTyped DEF LinkedInv
<1>4. LinksJoin'
  BY DEF LinkedInv, LinksJoin, Present, TagIds
<1>5. ParentThere(view)' /\ ViewNow(view)' = ViewNow(view)
  BY DEF ViewNow, NoteView, TagView, ParentThere, Present, TagIds, LinksOf, LinksTo
<1>6. Stands(p)'
  BY <1>1, <1>5 DEF Stands, ViewNow, ParentThere
<1> QED BY <1>2, <1>3, <1>4, <1>6 DEF LinkedInv, ReadsStand, NoBlindWrite

\* The three statements of a transaction before its write.
LEMMA LocksStand == ASSUME LinkedInv, NEW p \in NotePages, LockParent(p) PROVE LinkedInv'
<1> DEFINE view == notePage[p].view
           page == [notePage[p] EXCEPT !.step = "locked", !.proof = [ViewNow(view) EXCEPT !.links = {}]]
<1>1. notePage[p] \in LinkedPage /\ view \in View /\ ViewNow(view) \in View
  BY LinkedViewTypes DEF LinkedInv, LinkedTypeOK, LinkedPage, LockParent
<1>2. page \in LinkedPage /\ page.view = view /\ page.step = "locked"
      /\ page.proof = [ViewNow(view) EXCEPT !.links = {}]
  BY <1>1 DEF LinkedPage, View
<1>3. notePage' = [notePage EXCEPT ![p] = page]
  BY DEF LockParent
<1> HIDE DEF page
<1> QED BY <1>2, <1>3, PageReads DEF LockParent

LEMMA LinksStand == ASSUME LinkedInv, NEW p \in NotePages, ReadLinks(p) PROVE LinkedInv'
<1> DEFINE view == notePage[p].view
           page == [notePage[p] EXCEPT !.step = "read", !.proof = [@ EXCEPT !.links = ViewNow(view).links]]
<1>1. Stands(p) /\ Inside = {p}
  BY DEF ReadLinks, Inside, LinkedInv, ReadsStand
<1>2. /\ notePage[p] \in LinkedPage /\ view \in View /\ ViewNow(view) \in View
      /\ notePage[p].proof = [ViewNow(view) EXCEPT !.links = {}]
  BY <1>1, LinkedViewTypes DEF LinkedInv, LinkedTypeOK, LinkedPage, ReadLinks, Stands
<1>3. page \in LinkedPage /\ page.view = view /\ page.step = "read" /\ page.proof = ViewNow(view)
  BY <1>2 DEF LinkedPage, View
<1>4. notePage' = [notePage EXCEPT ![p] = page]
  BY DEF ReadLinks
<1> HIDE DEF page
<1> QED BY <1>1, <1>3, <1>4, PageReads DEF ReadLinks, Stands

LEMMA HashStands == ASSUME LinkedInv, NEW p \in NotePages, NEW presents \in BOOLEAN, Passes(p, presents)
                    PROVE  LinkedInv'
<1> DEFINE view == notePage[p].view
           page == [notePage[p] EXCEPT !.step = "judged", !.proof = NothingShown, !.presents = presents]
<1>1. Stands(p) /\ Inside = {p}
  BY DEF Passes, Inside, LinkedInv, ReadsStand
<1>2. notePage[p] \in LinkedPage /\ view \in View /\ notePage[p].proof = ViewNow(view)
  BY <1>1 DEF LinkedInv, LinkedTypeOK, LinkedPage, Passes, Stands
<1>3. page \in LinkedPage /\ page.view = view /\ page.step = "judged" /\ page.presents = presents
  BY <1>2, ClosedType DEF LinkedPage, Closed
<1>4. notePage' = [notePage EXCEPT ![p] = page]
  BY DEF Passes
<1>5. CASE presents
  <2>1. view = ViewNow(view)
    BY <1>2, <1>5, HashAssumption DEF Passes, Presented, NoteHash
  <2> HIDE DEF page
  <2> QED BY <1>1, <1>3, <1>4, <1>5, <2>1, PageReads DEF Passes, Stands
<1>6. CASE ~presents
  <2>1. theirs = {}
    BY <1>6 DEF Passes, Presented, LinkedInv, LinkedTypeOK
  <2> HIDE DEF page
  <2> QED BY <1>1, <1>3, <1>4, <1>6, <2>1, PageReads DEF Passes, Stands
<1> QED BY <1>5, <1>6

LEMMA LinkedStep == LinkedInv /\ [LinkedNext]_linkedVars => LinkedInv'
<1> SUFFICES ASSUME LinkedInv, [LinkedNext]_linkedVars PROVE LinkedInv'
  OBVIOUS
<1> USE JoinStep
<1>0. LinksJoin /\ LinkedTypeOK /\ ReadsStand /\ NoBlindWrite
  BY DEF LinkedInv
<1>1. ASSUME UNCHANGED <<text, tagRow, link, posting, theirs, fenced, blind>>, LinkedTypeOK', Inside' \subseteq Inside,
             \A q \in Inside' : notePage'[q] = notePage[q]
      PROVE  LinkedInv'
  <2>1. ASSUME NEW q \in Inside'
        PROVE  /\ ViewNow(notePage[q].view)' = ViewNow(notePage[q].view)
               /\ ParentThere(notePage[q].view)'
               /\ \A r \in posting' : notePage[q].view.tag \notin r.ids
    <3>1. Stands(q) /\ notePage'[q] = notePage[q]
      BY <1>0, <1>1, <2>1 DEF ReadsStand
    <3> QED BY <1>1, <3>1
            DEF Stands, ViewNow, NoteView, TagView, ParentThere, Present, TagIds, LinksOf, LinksTo
  <2> QED BY <1>1, <2>1, NothingRead
<1>2. ASSUME NEW p \in NotePages, notePage' = [notePage EXCEPT ![p] = Closed],
             UNCHANGED <<text, tagRow, link, posting, theirs, fenced, blind>>
      PROVE  LinkedInv'
  BY <1>0, <1>1, <1>2, ClosedType, PageTyped, PageCloses
<1>3. ASSUME NEW p \in NotePages, NEW view \in View, view.note = 0 \/ view.tag = 0, Open(p, view)
      PROVE  LinkedInv'
  <2> DEFINE page == [Closed EXCEPT !.step = "shown", !.view = view]
  <2>1. page \in LinkedPage /\ page.view = view /\ page.step = "shown"
    BY <1>3, ClosedType DEF LinkedPage, Closed
  <2>2. notePage' = [notePage EXCEPT ![p] = page] /\ notePage[p].step = "closed"
        /\ UNCHANGED <<text, tagRow, link, posting, theirs, fenced, blind>>
    BY <1>3 DEF Open
  <2> HIDE DEF page
  <2>3. LinkedTypeOK'
    BY <1>0, <1>3, <2>1, <2>2, PageTyped
  <2>4. Inside' \subseteq Inside /\ \A q \in Inside' : notePage'[q] = notePage[q]
    BY <1>0, <2>1, <2>2 DEF Inside, LinkedTypeOK
  <2> QED BY <1>1, <2>2, <2>3, <2>4
<1>4. ASSUME NEW n \in Present PROVE NoteView(n) \in View /\ NoteView(n).tag = 0
  BY <1>0 DEF LinksJoin, NoteView, View, Present, TagIds, LinksOf
<1>5. ASSUME NEW i \in TagIds PROVE TagView(i) \in View /\ TagView(i).note = 0
  <2>1. tagRow[i] \in TagRow
    BY <1>0, <1>5 DEF TagIds, LinksJoin
  <2> QED BY <1>0, <1>5, <2>1 DEF LinksJoin, TagView, View, TagRow, LinksTo, Present, TagIds
<1>6. ASSUME Inside = {}, UNCHANGED <<notePage, posting, blind>>, LinksJoin',
             fenced' \in BOOLEAN, ~fenced' => theirs' = {}
      PROVE  LinkedInv'
  BY <1>0, <1>6, NobodyInside DEF Inside, LinkedTypeOK, NoBlindWrite
<1>7. ASSUME NEW n \in Notes, NEW ids, CreateNote(n, ids) PROVE LinkedInv'
  BY <1>0, <1>6, <1>7 DEF CreateNote, Create, LinkedTypeOK
<1>8. CASE ApplyRow
  <2>1. Inside = {} /\ fenced /\ UNCHANGED <<fenced, notePage, posting, blind>>
    BY <1>8 DEF ApplyRow, TablesFree
  <2> QED BY <1>0, <1>6, <2>1 DEF LinkedTypeOK
<1>9. ASSUME NEW n \in Notes, NEW ids, PostItem(n, ids) PROVE LinkedInv'
  <2>1. LinkedTypeOK'
    BY <1>0, <1>9 DEF LinkedTypeOK, PostItem
  <2>2. ASSUME NEW q \in Inside'
        PROVE  /\ notePage'[q] = notePage[q] /\ q \in Inside
               /\ ViewNow(notePage[q].view)' = ViewNow(notePage[q].view)
               /\ ParentThere(notePage[q].view)'
               /\ \A r \in posting' : notePage[q].view.tag \notin r.ids
    <3>1. q \in Inside /\ UNCHANGED <<text, tagRow, link, notePage>>
      BY <1>9, <2>2 DEF Inside, PostItem
    <3>2. Stands(q) /\ notePage[q].view.tag \notin ids
      BY <1>0, <1>9, <3>1 DEF ReadsStand, PostItem, TagsHeld
    <3> QED BY <1>9, <3>1, <3>2
            DEF Stands, ViewNow, NoteView, TagView, ParentThere, Present, TagIds, LinksOf, LinksTo, PostItem
  <2> QED BY <1>9, <2>1, <2>2, NothingRead DEF PostItem
<1>10. ASSUME NEW q \in posting, CreateItem(q) PROVE LinkedInv'
  <2>1. LinkedTypeOK' /\ UNCHANGED <<fenced, app, tagRow, notePage, theirs, blind>>
    BY <1>0, <1>10 DEF LinkedTypeOK, CreateItem, Create
  <2>2. q.item \in Notes /\ text[q.item] = 0 /\ text' = [text EXCEPT ![q.item] = 1] /\ posting' \subseteq posting
        /\ link' = (link \ LinksOf(q.item)) \cup {<<q.item, i>> : i \in q.ids}
    BY <1>0, <1>10 DEF LinkedTypeOK, CreateItem, Create, ReplaceTags
  <2>3. ASSUME NEW p \in Inside'
        PROVE  /\ notePage'[p] = notePage[p] /\ p \in Inside
               /\ ViewNow(notePage[p].view)' = ViewNow(notePage[p].view)
               /\ ParentThere(notePage[p].view)'
               /\ \A r \in posting' : notePage[p].view.tag \notin r.ids
    <3>1. p \in Inside
      BY <2>1, <2>3 DEF Inside
    <3> DEFINE view == notePage[p].view
    <3>2. ParentThere(view) /\ \A r \in posting : view.tag \notin r.ids
      BY <1>0, <3>1 DEF ReadsStand, Stands
    <3>3. ParentThere(view)'
      BY <1>0, <2>1, <2>2, <3>2 DEF ParentThere, Present, TagIds, LinksJoin
    <3>4. CASE view.tag = 0
      <4>1. view.note \in Notes /\ view.note # q.item
        BY <2>2, <3>2, <3>4 DEF ParentThere, Present
      <4>2. LinksOf(view.note)' = LinksOf(view.note) /\ text'[view.note] = text[view.note]
        BY <1>0, <2>1, <2>2, <4>1 DEF LinksOf, LinksJoin
      <4> QED BY <2>1, <2>2, <3>1, <3>2, <3>3, <3>4, <4>2 DEF ViewNow, NoteView
    <3>5. CASE view.tag # 0
      <4>1. LinksOf(q.item) = {}
        BY <1>0, <2>2 DEF LinksOf, LinksJoin, Present
      <4>2. LinksTo(view.tag)' = LinksTo(view.tag)
        BY <1>10, <2>1, <2>2, <3>2, <4>1 DEF LinksTo
      <4> QED BY <2>1, <2>2, <3>1, <3>2, <3>3, <3>5, <4>2 DEF ViewNow, TagView
    <3> QED BY <3>4, <3>5
  <2> QED BY <2>1, <2>3, NothingRead
<1>11. ASSUME NEW name \in TagNames, InsertTag(name) PROVE LinkedInv'
  <2>1. LinkedTypeOK' /\ UNCHANGED <<fenced, app, text, link, notePage, posting, theirs, blind>>
    BY <1>0, <1>11 DEF LinkedTypeOK, InsertTag
  <2>2. /\ \A i \in DOMAIN tagRow : i \in DOMAIN tagRow' /\ tagRow'[i] = tagRow[i]
    BY <1>0, <1>11 DEF InsertTag, LinksJoin
  <2>3. ASSUME NEW p \in Inside'
        PROVE  /\ notePage'[p] = notePage[p] /\ p \in Inside
               /\ ViewNow(notePage[p].view)' = ViewNow(notePage[p].view)
               /\ ParentThere(notePage[p].view)'
               /\ \A r \in posting' : notePage[p].view.tag \notin r.ids
    <3>1. p \in Inside
      BY <2>1, <2>3 DEF Inside
    <3>2. Stands(p)
      BY <1>0, <3>1 DEF ReadsStand
    <3> QED BY <2>1, <2>2, <3>1, <3>2
            DEF Stands, ViewNow, NoteView, TagView, ParentThere, Present, TagIds, LinksOf, LinksTo
  <2> QED BY <2>1, <2>3, NothingRead
<1>12. ASSUME NEW p \in NotePages, NEW name \in TagNames, CreateTag(p, name) PROVE LinkedInv'
  <2>1. CASE InsertTag(name)
    BY <1>11, <2>1
  <2>2. CASE ~InsertTag(name)
    <3> DEFINE page == [notePage[p] EXCEPT !.step = "find"]
    <3>1. notePage' = [notePage EXCEPT ![p] = page] /\ notePage[p].step = "closed"
          /\ UNCHANGED <<text, tagRow, link, posting, theirs, fenced, blind>>
      BY <1>12, <2>2 DEF CreateTag
    <3>2. notePage[p] \in LinkedPage
      BY <1>0 DEF LinkedTypeOK
    <3>3. page \in LinkedPage /\ page.view = notePage[p].view /\ page.step = "find"
      BY <3>2 DEF LinkedPage
    <3> HIDE DEF page
    <3>4. LinkedTypeOK'
      BY <1>0, <3>1, <3>3, PageTyped DEF LinkedTypeOK
    <3>5. Inside' \subseteq Inside /\ \A q \in Inside' : notePage'[q] = notePage[q]
      BY <1>0, <3>1, <3>3 DEF Inside, LinkedTypeOK
    <3> QED BY <1>1, <3>1, <3>4, <3>5
  <2> QED BY <2>1, <2>2
<1>13. ASSUME NEW p \in NotePages, ClosePage(p) \/ FindTag(p) PROVE LinkedInv'
  BY <1>2, <1>13 DEF ClosePage, FindTag
<1>14. CASE LinkBinding
  <2>1. LinkedTypeOK' /\ LinksJoin' /\ Inside' = Inside /\ NoBlindWrite'
    BY <1>0, <1>14 DEF LinkBinding, ToggleFence, LinkedTypeOK, Inside, NoBlindWrite
  <2>2. ASSUME NEW p \in Inside' PROVE Stands(p)'
    <3>1. Stands(p)
      BY <1>0, <2>1, <2>2 DEF ReadsStand
    <3> QED BY <1>14, <3>1
            DEF LinkBinding, Stands, ViewNow, NoteView, TagView, ParentThere, Present, TagIds, LinksOf, LinksTo
  <2> QED BY <1>0, <2>1, <2>2 DEF LinkedInv, ReadsStand
<1>15. ASSUME NEW p \in NotePages, NEW columns \in BOOLEAN, NEW tags \in BOOLEAN, PatchNote(p, columns, tags)
       PROVE  LinkedInv'
  <2> DEFINE n == notePage[p].view.note
             rows == (IF columns THEN {<<n, 0>>} ELSE {}) \cup (IF tags THEN LinksOf(n) ELSE {})
  <2>1. Erases(p, rows) /\ notePage[p].view.tag = 0 /\ UNCHANGED <<fenced, posting>>
    BY <1>15 DEF PatchNote
  <2>2. rows \subseteq {<<n, notePage[p].view.tag>>} \cup ViewNow(notePage[p].view).links
    BY <2>1 DEF ViewNow, NoteView
  <2> HIDE DEF rows
  <2> QED BY <1>0, <2>1, <2>2, ErasesShown
<1>16. ASSUME NEW p \in NotePages, DeleteNote(p) PROVE LinkedInv'
  <2> DEFINE n == notePage[p].view.note
             rows == {<<n, 0>>} \cup LinksOf(n)
  <2>1. Erases(p, rows) /\ notePage[p].view.tag = 0 /\ UNCHANGED <<fenced, posting>>
    BY <1>16 DEF DeleteNote
  <2>2. rows \subseteq {<<n, notePage[p].view.tag>>} \cup ViewNow(notePage[p].view).links
    BY <2>1 DEF ViewNow, NoteView
  <2> HIDE DEF rows
  <2> QED BY <1>0, <2>1, <2>2, ErasesShown
<1>17. ASSUME NEW p \in NotePages, DropTag(p) PROVE LinkedInv'
  <2> DEFINE i == notePage[p].view.tag
             rows == {<<0, i>>} \cup LinksTo(i)
  <2>1. Erases(p, rows) /\ i # 0 /\ UNCHANGED <<fenced, posting>>
    BY <1>17 DEF DropTag
  <2>2. rows \subseteq {<<notePage[p].view.note, i>>} \cup ViewNow(notePage[p].view).links
    BY <1>0, <2>1 DEF ViewNow, TagView, LinkedTypeOK
  <2> HIDE DEF rows
  <2> QED BY <1>0, <2>1, <2>2, ErasesShown
<1>18. ASSUME NEW p \in NotePages, NEW name \in TagNames, PatchCategory(p, name) PROVE LinkedInv'
  <2> DEFINE i == notePage[p].view.tag
  <2>1. Erases(p, {<<0, i>>}) /\ i # 0 /\ UNCHANGED <<fenced, posting>>
    BY <1>18 DEF PatchCategory
  <2>2. {<<0, i>>} \subseteq {<<notePage[p].view.note, i>>} \cup ViewNow(notePage[p].view).links
    BY <1>0, <2>1 DEF LinkedTypeOK
  <2> QED BY <1>0, <2>1, <2>2, ErasesShown
<1>19. ASSUME NEW p \in NotePages, LockParent(p) \/ ReadLinks(p) \/ (\E presents \in BOOLEAN : Passes(p, presents))
       PROVE  LinkedInv'
  BY <1>19, LocksStand, LinksStand, HashStands
<1>20. CASE UNCHANGED linkedVars
  <2>1. UNCHANGED <<text, tagRow, link, posting, theirs, fenced, blind, notePage>> /\ Inside' = Inside
    BY <1>20 DEF linkedVars, Inside
  <2> QED BY <1>0, <1>1, <2>1 DEF LinkedTypeOK
<1>21. ASSUME NEW p \in NotePages, NEW n \in Notes, OpenNote(p, n) \/ OpenItem(p, n) PROVE LinkedInv'
  BY <1>3, <1>4, <1>21 DEF OpenNote, OpenItem
<1>22. ASSUME NEW p \in NotePages, NEW i, OpenTag(p, i) \/ OpenCategory(p, i) PROVE LinkedInv'
  BY <1>3, <1>5, <1>22 DEF OpenTag, OpenCategory
<1> QED
  BY <1>7, <1>8, <1>9, <1>10, <1>11, <1>12, <1>13, <1>14, <1>15, <1>16, <1>17, <1>18, <1>19, <1>20, <1>21, <1>22
     DEF LinkedNext, DeleteTag, DeleteCategory, CreateCategory

LEMMA LinkedAlways == LinkedSpec => []LinkedInv
<1>1. LinkedInit => LinkedInv
  <2> SUFFICES ASSUME LinkedInit PROVE LinkedInv
    OBVIOUS
  <2>1. LinksJoin
    BY DEF LinkedInit, LinksJoin, Present, TagIds
  <2>2. LinkedTypeOK
    BY ClosedType DEF LinkedInit, LinkedTypeOK
  <2>3. Inside = {}
    BY DEF LinkedInit, Inside, Closed
  <2> QED BY <2>1, <2>2, <2>3 DEF LinkedInit, LinkedInv, ReadsStand, NoBlindWrite
<1> QED BY <1>1, LinkedStep, PTL DEF LinkedSpec

(* Of every page, through the statements of its transaction and whatever else commits  *)
(* between them: a hash that passed covers every row that its write then erases, and    *)
(* no write erases unseen what the sync service wrote while the binding is fenced       *)
(* (lockedNoteHash, itemProof, the PATCH and DELETE routes of notes and assets).        *)
THEOREM LinkedWritesShown == LinkedSpec => []NoBlindWrite
<1> QED BY LinkedAlways, PTL DEF LinkedInv

(* No link is left behind by a note or a tag that another page, or another server,     *)
(* removed between two requests (the INSERT ... SELECT of owned tags, the cascades).   *)
THEOREM LinksStayJoined == LinkedSpec => []LinksJoin
<1> QED BY LinkedAlways, PTL DEF LinkedInv

-----------------------------------------------------------------------------
(***************************************************************************)
(* Tasks.                                                                  *)
(***************************************************************************)
\* The pages whose request has the completion of t still to publish.
Publishing(t) == {p \in TaskPages : taskPage[p].pc = "publish" /\ taskPage[p].id = t}

TaskRow == [version : Int, status : {"todo", "done"}, startAt : Nat, dueAt : Nat, completedAt : Nat]

TaskPage == [pc : {"closed", "open", "publish"}, id : Tasks \cup {Null}, seen : TaskRow]

TaskTypeOK ==
    /\ task \in [Tasks -> TaskRow]
    /\ taskPage \in [TaskPages -> TaskPage]
    /\ \A p \in TaskPages : taskPage[p].pc # "closed" => taskPage[p].id \in Tasks
    /\ untold \in [Tasks -> Int]

(* Completions not yet published are exactly those a request is about to publish: the  *)
(* counter alone would not show that one page cannot use up what another is owed.      *)
Owed == \A t \in Tasks : untold[t] = Cardinality(Publishing(t))

TaskInv == TaskTypeOK /\ IntervalsValid /\ Owed

\* What a patch may hold.
LEMMA PatchFields ==
    ASSUME NEW patch \in Patches
    PROVE  /\ "status" \in DOMAIN patch => patch.status \in {"todo", "done"}
           /\ "startAt" \in DOMAIN patch => patch.startAt \in Nat
           /\ "dueAt" \in DOMAIN patch => patch.dueAt \in Nat
<1>0. Null \in Nat /\ Instants \subseteq Nat
  BY TaskAssumption DEF Null
<1>1. CASE patch \in [status : {"todo", "done"}]
  BY <1>1
<1>2. CASE patch \in [startAt : Instants \cup {Null}]
  BY <1>0, <1>2
<1>3. CASE patch \in [dueAt : Instants \cup {Null}]
  BY <1>0, <1>3
<1>4. CASE patch \in [status : {"todo", "done"}, startAt : Instants, dueAt : Instants]
  BY <1>0, <1>4
<1> QED BY <1>1, <1>2, <1>3, <1>4 DEF Patches

\* A merged row is a row.
LEMMA MergedType ==
    ASSUME NEW old \in TaskRow, NEW patch \in Patches
    PROVE  MergedTask(old, patch) \in TaskRow
BY PatchFields DEF MergedTask, TaskRow, Null

\* Rows that are no task yet, or none any more.
LEMMA RowTypes == NoTask \in TaskRow /\ Deleted \in TaskRow /\ ValidInterval(Deleted.startAt, Deleted.dueAt)
BY DEF NoTask, Deleted, TaskRow, Null, ValidInterval

\* There are finitely many pages, so finitely many that have something to publish.
LEMMA PublishingFinite ==
    ASSUME NEW t PROVE IsFiniteSet(Publishing(t)) /\ Cardinality(Publishing(t)) \in Nat
<1>1. Publishing(t) \in SUBSET TaskPages
  BY DEF Publishing
<1> QED BY <1>1, TaskAssumption, FS_Subset, FS_CardinalityType

\* A page that closes without publishing changes no count, and neither does one that opens.
LEMMA PublishingKept ==
    ASSUME TaskTypeOK, NEW p \in TaskPages, taskPage[p].pc # "publish",
           NEW new, new.pc # "publish", taskPage' = [taskPage EXCEPT ![p] = new], NEW t
    PROVE  Publishing(t)' = Publishing(t)
BY DEF TaskTypeOK, Publishing

\* One row changes, to a row whose interval is valid.
LEMMA OneRow ==
    ASSUME TaskTypeOK, IntervalsValid, NEW t \in Tasks, NEW new \in TaskRow,
           ValidInterval(new.startAt, new.dueAt), task' = [task EXCEPT ![t] = new]
    PROVE  task' \in [Tasks -> TaskRow] /\ IntervalsValid'
BY DEF TaskTypeOK, IntervalsValid

\* One page changes.
LEMMA OnePage ==
    ASSUME TaskTypeOK, NEW p \in TaskPages,
           NEW new \in TaskPage,
           new.pc # "closed" => new.id \in Tasks,
           taskPage' = [taskPage EXCEPT ![p] = new]
    PROVE  /\ taskPage' \in [TaskPages -> TaskPage]
           /\ \A q \in TaskPages : taskPage'[q].pc # "closed" => taskPage'[q].id \in Tasks
BY DEF TaskTypeOK

\* What a page without a request looks like.
LEMMA PageTypes ==
    /\ NoPage \in TaskPage /\ NoPage.pc = "closed"
    /\ \A t \in Tasks : [NoPage EXCEPT !.pc = "publish", !.id = t] \in TaskPage
    /\ \A t \in Tasks, row0 \in TaskRow : [pc |-> "open", id |-> t, seen |-> row0] \in TaskPage
BY RowTypes DEF NoPage, TaskPage

\* A row changes and no page does.
LEMMA RowStep ==
    ASSUME TaskInv, NEW t \in Tasks, NEW new \in TaskRow, ValidInterval(new.startAt, new.dueAt),
           task' = [task EXCEPT ![t] = new], UNCHANGED <<taskPage, untold>>
    PROVE  TaskInv'
BY OneRow DEF TaskInv, TaskTypeOK, Owed, Publishing

\* A page changes and nothing is owed by it before or after.
LEMMA PageStep ==
    ASSUME TaskInv, NEW p \in TaskPages, taskPage[p].pc # "publish", NEW new \in TaskPage,
           new.pc # "publish", new.pc # "closed" => new.id \in Tasks,
           taskPage' = [taskPage EXCEPT ![p] = new], UNCHANGED untold
    PROVE  Owed' /\ taskPage' \in [TaskPages -> TaskPage]
                 /\ \A q \in TaskPages : taskPage'[q].pc # "closed" => taskPage'[q].id \in Tasks
BY OnePage, PublishingKept DEF TaskInv, Owed

\* A patch: the row it leaves, and one event owed if that row has just become done.
LEMMA PatchStep ==
    ASSUME TaskInv, NEW p \in TaskPages, NEW presents, NEW patch \in Patches,
           PatchTask(p, presents, patch)
    PROVE  TaskInv'
<1>1. PICK t \in Tasks : t = taskPage[p].id /\ task[t] \in TaskRow /\ taskPage[p].pc = "open"
  BY DEF PatchTask, TaskInv, TaskTypeOK
<1> DEFINE new == MergedTask(task[t], patch)
           completes == Completes(p, task[t], patch)
           page == IF completes THEN [NoPage EXCEPT !.pc = "publish", !.id = t] ELSE NoPage
<1>2. new \in TaskRow
  BY <1>1, MergedType
<1>3. page \in TaskPage /\ (page.pc # "closed" => page.id \in Tasks)
      /\ (completes => page.pc = "publish" /\ page.id = t) /\ (~completes => page.pc # "publish")
  BY <1>1, PageTypes DEF NoPage
<1>4. /\ task' = [task EXCEPT ![t] = new]
      /\ ValidInterval(new.startAt, new.dueAt)
      /\ taskPage' = [taskPage EXCEPT ![p] = page]
  BY <1>1 DEF PatchTask, IntervalAccepted
<1>5. completes <=> task[t].status # "done" /\ new.status = "done"
  BY <1>1 DEF Completes, MergedTask
<1>6. untold' = IF completes THEN [untold EXCEPT ![t] = @ + 1] ELSE untold
  <2>1. untold' = [untold EXCEPT ![t] = IF task[t].status # "done" /\ new.status = "done"
                                           THEN untold[t] + 1 ELSE untold[t]]
    BY <1>1 DEF PatchTask
  <2> QED BY <2>1, <1>1, <1>5 DEF TaskInv, TaskTypeOK
<1> HIDE DEF new, completes, page
<1>7. TaskTypeOK' /\ IntervalsValid'
  <2>1. task' \in [Tasks -> TaskRow] /\ IntervalsValid'
    BY <1>1, <1>2, <1>4, OneRow DEF TaskInv
  <2>2. taskPage' \in [TaskPages -> TaskPage]
        /\ \A q \in TaskPages : taskPage'[q].pc # "closed" => taskPage'[q].id \in Tasks
    BY <1>3, <1>4, OnePage DEF TaskInv
  <2>3. untold' \in [Tasks -> Int]
    BY <1>1, <1>6 DEF TaskInv, TaskTypeOK
  <2> QED BY <2>1, <2>2, <2>3 DEF TaskTypeOK
<1>8. CASE completes
  <2>1. \A q \in TaskPages : taskPage'[q] = IF q = p THEN page ELSE taskPage[q]
    BY <1>4 DEF TaskInv, TaskTypeOK
  <2>2. Publishing(t)' = Publishing(t) \cup {p} /\ p \notin Publishing(t)
    BY <1>1, <1>3, <2>1, <1>8 DEF Publishing
  <2>3. Cardinality(Publishing(t)') = Cardinality(Publishing(t)) + 1
    BY <2>2, PublishingFinite, FS_AddElement
  <2>4. ASSUME NEW u \in Tasks PROVE untold'[u] = Cardinality(Publishing(u)')
    <3>1. CASE u = t
      BY <2>3, <3>1, <1>1, <1>6, <1>8 DEF TaskInv, TaskTypeOK, Owed
    <3>2. CASE u # t
      <4>1. Publishing(u)' = Publishing(u)
        BY <1>3, <2>1, <3>2, <1>1, <1>8 DEF Publishing
      <4> QED BY <3>2, <4>1, <1>1, <1>6, <1>8 DEF TaskInv, TaskTypeOK, Owed
    <3> QED BY <3>1, <3>2
  <2> QED BY <2>4, <1>7 DEF TaskInv, Owed
<1>9. CASE ~completes
  <2>1. Owed'
    BY <1>1, <1>3, <1>4, <1>6, <1>9, PublishingKept DEF TaskInv, Owed
  <2> QED BY <1>7, <2>1 DEF TaskInv
<1> QED BY <1>8, <1>9

\* The event is published: one less owed.
LEMMA PublishStep ==
    ASSUME TaskInv, NEW p \in TaskPages, PublishCompleted(p)
    PROVE  TaskInv'
<1>1. PICK t \in Tasks : t = taskPage[p].id /\ p \in Publishing(t)
  BY DEF PublishCompleted, TaskInv, TaskTypeOK, Publishing
<1>2. taskPage' = [taskPage EXCEPT ![p] = NoPage] /\ untold' = [untold EXCEPT ![t] = @ - 1]
      /\ UNCHANGED task
  BY <1>1 DEF PublishCompleted
<1>3. TaskTypeOK' /\ IntervalsValid'
  <2>1. taskPage' \in [TaskPages -> TaskPage]
        /\ \A q \in TaskPages : taskPage'[q].pc # "closed" => taskPage'[q].id \in Tasks
    BY <1>2, OnePage, PageTypes DEF TaskInv
  <2>2. untold' \in [Tasks -> Int]
    BY <1>1, <1>2 DEF TaskInv, TaskTypeOK
  <2> QED BY <1>2, <2>1, <2>2 DEF TaskInv, TaskTypeOK, IntervalsValid
<1>4. \A q \in TaskPages : taskPage'[q] = IF q = p THEN NoPage ELSE taskPage[q]
  BY <1>2 DEF TaskInv, TaskTypeOK
<1>5. Publishing(t)' = Publishing(t) \ {p}
  BY <1>4, PageTypes DEF Publishing
<1>6. Cardinality(Publishing(t)') = Cardinality(Publishing(t)) - 1
  BY <1>1, <1>5, PublishingFinite, FS_RemoveElement
<1>7. ASSUME NEW u \in Tasks PROVE untold'[u] = Cardinality(Publishing(u)')
  <2>1. CASE u = t
    BY <1>1, <1>2, <1>6, <2>1 DEF TaskInv, TaskTypeOK, Owed
  <2>2. CASE u # t
    <3>1. Publishing(u)' = Publishing(u)
      BY <1>1, <1>4, <2>2, PageTypes DEF Publishing
    <3> QED BY <1>1, <1>2, <2>2, <3>1 DEF TaskInv, TaskTypeOK, Owed
  <2> QED BY <2>1, <2>2
<1> QED BY <1>3, <1>7 DEF TaskInv, Owed

\* Every step of the tasks keeps the invariant.
LEMMA TaskInvKept == TaskInv /\ [TaskNext]_taskVars => TaskInv'
<1> SUFFICES ASSUME TaskInv, [TaskNext]_taskVars PROVE TaskInv'
  OBVIOUS
<1>1. ASSUME NEW t \in Tasks, NEW status \in {"todo", "done"}, NEW startAt \in Instants \cup {Null},
             NEW dueAt \in Instants \cup {Null}, CreateTask(t, status, startAt, dueAt)
      PROVE  TaskInv'
  <2> DEFINE new == [version |-> 1, status |-> status, startAt |-> startAt, dueAt |-> dueAt,
                     completedAt |-> Stamp(status)]
  <2>1. new \in TaskRow /\ ValidInterval(new.startAt, new.dueAt)
    BY <1>1, TaskAssumption DEF CreateTask, TaskRow, Stamp, Null
  <2>2. task' = [task EXCEPT ![t] = new] /\ UNCHANGED <<taskPage, untold>>
    BY <1>1 DEF CreateTask
  <2> QED BY <2>1, <2>2, RowStep
<1>2. ASSUME NEW p \in TaskPages, NEW t \in Tasks, OpenTask(p, t) PROVE TaskInv'
  <2>1. task[t] \in TaskRow
    BY DEF TaskInv, TaskTypeOK
  <2> QED BY <1>2, <2>1, PageStep, PageTypes DEF OpenTask, TaskInv, TaskTypeOK, IntervalsValid
<1>3. ASSUME NEW p \in TaskPages, NEW presents, NEW patch \in Patches, PatchTask(p, presents, patch)
      PROVE  TaskInv'
  BY <1>3, PatchStep
<1>4. ASSUME NEW p \in TaskPages, NEW presents, DeleteTask(p, presents) PROVE TaskInv'
  <2>1. taskPage[p].id \in Tasks
    BY <1>4 DEF DeleteTask, TaskInv, TaskTypeOK
  <2>2. task' \in [Tasks -> TaskRow] /\ IntervalsValid'
    BY <1>4, <2>1, RowTypes, OneRow DEF DeleteTask, TaskInv
  <2> QED BY <1>4, <2>2, PageStep, PageTypes DEF DeleteTask, TaskInv, TaskTypeOK
<1>5. ASSUME NEW p \in TaskPages, RefuseTask(p) PROVE TaskInv'
  BY <1>5, PageStep, PageTypes DEF RefuseTask, TaskInv, TaskTypeOK, IntervalsValid
<1>6. ASSUME NEW p \in TaskPages, PublishCompleted(p) PROVE TaskInv'
  BY <1>6, PublishStep
<1>7. ASSUME NEW t \in Tasks, NEW new \in Rows, ApplyTask(t, new) PROVE TaskInv'
  <2> DEFINE applied == [new EXCEPT !.version = task[t].version + 1, !.completedAt = Stamp(new.status)]
  <2>1. task[t] \in TaskRow
    BY DEF TaskInv, TaskTypeOK
  <2>2. new.status \in {"todo", "done"} /\ new.startAt \in Nat /\ new.dueAt \in Nat
        /\ new = [version |-> 0, status |-> new.status, startAt |-> new.startAt, dueAt |-> new.dueAt,
                  completedAt |-> Null]
    BY TaskAssumption DEF Rows
  <2>5. applied \in TaskRow /\ applied.startAt = new.startAt /\ applied.dueAt = new.dueAt
    <3>1. new \in TaskRow
      BY <2>2 DEF TaskRow, Null
    <3> DEFINE numbered == [new EXCEPT !.version = task[t].version + 1]
    <3>2. numbered \in TaskRow /\ numbered.startAt = new.startAt /\ numbered.dueAt = new.dueAt
      BY <2>1, <3>1 DEF TaskRow
    <3>3. applied = [numbered EXCEPT !.completedAt = Stamp(new.status)]
      OBVIOUS
    <3>4. Stamp(new.status) \in Nat
      BY DEF Stamp, Null
    <3> HIDE DEF numbered
    <3> QED BY <3>2, <3>3, <3>4 DEF TaskRow
  <2>3. task' = [task EXCEPT ![t] = applied] /\ UNCHANGED <<taskPage, untold>>
    BY <1>7 DEF ApplyTask
  <2>4. ValidInterval(applied.startAt, applied.dueAt)
    BY <1>7, <2>5 DEF ApplyTask
  <2> QED BY <2>3, <2>4, <2>5, RowStep
<1>8. CASE UNCHANGED <<task, taskPage, untold>>
  BY <1>8 DEF TaskInv, TaskTypeOK, IntervalsValid, Owed, Publishing
<1> QED BY <1>1, <1>2, <1>3, <1>4, <1>5, <1>6, <1>7, <1>8 DEF TaskNext, taskVars, LinkTasks

(* Whatever patches cross on one row, from however many pages, no deadline comes       *)
(* before its start and no completion is published twice (PATCH tasks/:id).            *)
THEOREM TaskPatchesAgree == TaskSpec => []PatchesAgree
<1>1. TaskInit => TaskInv
  <2> SUFFICES ASSUME TaskInit PROVE TaskInv
    OBVIOUS
  <2>1. \A t \in Tasks : Publishing(t) = {}
    BY DEF TaskInit, Publishing, NoPage
  <2>2. Owed
    BY <2>1, FS_EmptySet DEF TaskInit, Owed
  <2>3. TaskTypeOK
    <3>1. NoTask \in TaskRow /\ NoPage \in TaskPage /\ NoPage.pc = "closed"
      BY RowTypes, PageTypes
    <3> QED BY <3>1 DEF TaskInit, TaskTypeOK
  <2>4. IntervalsValid
    BY DEF TaskInit, IntervalsValid, ValidInterval, NoTask
  <2> QED BY <2>2, <2>3, <2>4 DEF TaskInv
<1>2. TaskInv => PatchesAgree
  BY PublishingFinite DEF TaskInv, Owed, PatchesAgree, CompletedOnce
<1> QED BY <1>1, <1>2, TaskInvKept, PTL DEF TaskSpec

-----------------------------------------------------------------------------
(***************************************************************************)
(* World clocks and the settings of the clock.                             *)
(***************************************************************************)
ClockPage ==
    [pc : {"closed", "list", "form", "saving"}, order : {<<>>} \cup [WorldClocks -> Nat],
     version : Nat, presents : BOOLEAN]

ClockTypeOK ==
    /\ place \in [WorldClocks -> Nat]
    /\ settings \in Nat
    /\ clockPage \in [ClockPages -> ClockPage]

\* The places are bounded, though reordering and other servers may raise the bound.
PlacesBounded == \E b \in Nat : \A c \in WorldClocks : place[c] <= b

(* The owner lock is held by one request, and what it presented is still what is       *)
(* stored: nothing else writes the settings until it commits.                          *)
OneSaves ==
    /\ \A p, q \in InTransaction : p = q
    /\ \A p \in InTransaction : clockPage[p].presents => clockPage[p].version = settings

PlacesInv == ClockTypeOK /\ PlacesBounded /\ PlacesDistinct
SettingsInv == OneSaves /\ SettingsNotOverwritten

\* The last place is not before any other.
LEMMA LastIsLast ==
    ASSUME ClockTypeOK, PlacesBounded
    PROVE  LastPlace \in Nat /\ \A c \in Listed : place[c] <= LastPlace
<1>1. CASE Listed = {}
  BY <1>1 DEF LastPlace
<1>2. CASE Listed # {}
  <2> DEFINE Taken == {place[c] : c \in Listed}
  <2>1. \A c \in Listed : place[c] \in Nat
    BY DEF ClockTypeOK, Listed
  <2>2. Taken \in SUBSET Nat /\ Taken # {}
    BY <1>2, <2>1
  <2>3. PICK b \in Nat : \A c \in WorldClocks : place[c] <= b
    BY DEF PlacesBounded
  <2>4. \A n \in Taken : n <= b
    BY <2>3 DEF Listed
  <2> HIDE DEF Taken
  <2>5. PICK m \in Taken : \A n \in Taken : n <= m
    BY <2>2, <2>4, GreatestExists
  <2>6. \E c \in Listed : \A d \in Listed : place[d] <= place[c]
    BY <2>5 DEF Taken
  <2> DEFINE last == CHOOSE c \in Listed : \A d \in Listed : place[d] <= place[c]
  <2>7. last \in Listed /\ \A d \in Listed : place[d] <= place[last]
    BY <2>6
  <2>8. LastPlace = place[last]
    BY <1>2 DEF LastPlace
  <2> QED BY <2>1, <2>7, <2>8
<1> QED BY <1>1, <1>2

\* A clock appended after all the others is distinct from them.
LEMMA AppendPlaces ==
    ASSUME PlacesInv, NEW c \in WorldClocks, AppendClock(c)
    PROVE  place' \in [WorldClocks -> Nat] /\ PlacesBounded' /\ PlacesDistinct'
<1>1. PICK n \in Nat : n = LastPlace /\ \A d \in Listed : place[d] <= n
  BY LastIsLast DEF PlacesInv
<1>2. place' = [place EXCEPT ![c] = n + 1] /\ foreign' = foreign \ {c} /\ place[c] = 0
  BY <1>1 DEF AppendClock
<1>3. place' \in [WorldClocks -> Nat]
  BY <1>2 DEF PlacesInv, ClockTypeOK
<1>4. \A d \in WorldClocks : place'[d] <= n + 1 /\ place'[d] = IF d = c THEN n + 1 ELSE place[d]
  BY <1>1, <1>2 DEF PlacesInv, ClockTypeOK, Listed
<1>5. \A d \in Listed : d # c /\ place[d] \in Nat /\ place[d] # n + 1
  BY <1>1, <1>2 DEF Listed, PlacesInv, ClockTypeOK
<1>6. PlacesBounded'
  <2>1. n + 1 \in Nat
    OBVIOUS
  <2> QED BY <1>4, <2>1 DEF PlacesBounded
<1>7. PlacesDistinct'
  <2>1. ASSUME NEW d \in WorldClocks, NEW e \in WorldClocks, place'[d] # 0, place'[e] # 0,
               d \notin foreign', e \notin foreign', d # e
        PROVE  place'[d] # place'[e]
    <3>1. d # c => d \in Listed \ foreign /\ place'[d] = place[d]
      BY <1>2, <1>4, <2>1 DEF Listed
    <3>2. e # c => e \in Listed \ foreign /\ place'[e] = place[e]
      BY <1>2, <1>4, <2>1 DEF Listed
    <3> QED BY <1>4, <1>5, <2>1, <3>1, <3>2 DEF PlacesInv, PlacesDistinct
  <2> QED BY <2>1 DEF PlacesDistinct, Listed
<1> QED BY <1>3, <1>6, <1>7

\* The places of an order are its indices, so no two clocks have one.
LEMMA ReorderPlaces ==
    ASSUME PlacesInv, NEW p, NEW ids \in Orders, NEW presents, ReorderClocks(p, ids, presents)
    PROVE  place' \in [WorldClocks -> Nat] /\ PlacesBounded' /\ PlacesDistinct'
<1>1. PICK n \in Int : n >= 0 /\ ids \in [1..n -> WorldClocks]
  BY DEF Orders
<1> DEFINE At(c) == CHOOSE k \in DOMAIN ids : ids[k] = c
<1>2. \A c \in Listed : At(c) \in 1..n /\ ids[At(c)] = c
  <2>1. \A c \in Listed : \E k \in DOMAIN ids : ids[k] = c
    BY DEF ReorderClocks
  <2>2. \A c \in Listed : At(c) \in DOMAIN ids /\ ids[At(c)] = c
    BY <2>1
  <2> QED BY <1>1, <2>2
<1>3. place' = [c \in WorldClocks |-> IF c \in Listed THEN At(c) ELSE 0]
  BY DEF ReorderClocks
<1> HIDE DEF At
<1>4. \A c \in WorldClocks : place'[c] \in Nat /\ place'[c] <= n
  BY <1>1, <1>2, <1>3
<1>5. \A c \in WorldClocks : place'[c] # 0 => c \in Listed /\ place'[c] = At(c)
  BY <1>3
<1>6. PlacesDistinct'
  <2>1. ASSUME NEW d \in WorldClocks, NEW e \in WorldClocks, place'[d] # 0, place'[e] # 0, d # e
        PROVE  place'[d] # place'[e]
    BY <1>2, <1>5, <2>1
  <2> QED BY <2>1 DEF PlacesDistinct, Listed
<1>7. PlacesBounded'
  BY <1>1, <1>4 DEF PlacesBounded
<1>8. place' \in [WorldClocks -> Nat]
  BY <1>3, <1>4
<1> QED BY <1>6, <1>7, <1>8

\* A place given by another server is not numbered here.
LEMMA ApplyPlaces ==
    ASSUME PlacesInv, NEW c \in WorldClocks, NEW n \in 0..MaxPlace, ApplyClock(c, n)
    PROVE  place' \in [WorldClocks -> Nat] /\ PlacesBounded' /\ PlacesDistinct'
<1>1. n \in Nat /\ place' = [place EXCEPT ![c] = n] /\ foreign' = foreign \cup {c}
  BY ClockAssumption DEF ApplyClock
<1>2. PICK b \in Nat : \A d \in WorldClocks : place[d] <= b
  BY DEF PlacesInv, PlacesBounded
<1>3. \A d \in WorldClocks : place[d] \in Nat /\ place'[d] = IF d = c THEN n ELSE place[d]
  BY <1>1 DEF PlacesInv, ClockTypeOK
<1>4. PlacesBounded'
  <2>1. b + n \in Nat /\ \A d \in WorldClocks : place'[d] <= b + n
    BY <1>1, <1>2, <1>3
  <2> QED BY <2>1 DEF PlacesBounded
<1>5. PlacesDistinct'
  BY <1>1, <1>3 DEF PlacesInv, PlacesDistinct, Listed
<1> QED BY <1>1, <1>4, <1>5 DEF PlacesInv, ClockTypeOK

\* A clock that is removed has no place.
LEMMA RemovePlaces ==
    ASSUME PlacesInv, NEW p, NEW c \in WorldClocks, NEW presents, RemoveClock(p, c, presents)
    PROVE  place' \in [WorldClocks -> Nat] /\ PlacesBounded' /\ PlacesDistinct'
<1>1. place' = [place EXCEPT ![c] = 0] /\ foreign' = foreign
  BY DEF RemoveClock
<1>2. PICK b \in Nat : \A d \in WorldClocks : place[d] <= b
  BY DEF PlacesInv, PlacesBounded
<1>3. \A d \in WorldClocks : place[d] \in Nat /\ place'[d] = IF d = c THEN 0 ELSE place[d]
  BY <1>1 DEF PlacesInv, ClockTypeOK
<1>4. PlacesBounded'
  BY <1>2, <1>3 DEF PlacesBounded
<1>5. PlacesDistinct'
  BY <1>1, <1>3 DEF PlacesInv, PlacesDistinct, Listed
<1> QED BY <1>1, <1>4, <1>5 DEF PlacesInv, ClockTypeOK

\* A page moves from one view to another.
LEMMA ViewTypes ==
    /\ NoView \in ClockPage /\ NoView.pc = "closed"
    /\ \A order \in [WorldClocks -> Nat] : [NoView EXCEPT !.pc = "list", !.order = order] \in ClockPage
    /\ \A v \in Nat, presents \in BOOLEAN :
          [NoView EXCEPT !.pc = "form", !.version = v, !.presents = presents] \in ClockPage
    /\ \A view \in ClockPage : [view EXCEPT !.pc = "saving"] \in ClockPage
BY DEF NoView, ClockPage

\* One page changes, to one that does not save.
LEMMA ViewStep ==
    ASSUME ClockTypeOK, SettingsInv, NEW p \in ClockPages, NEW view \in ClockPage, view.pc # "saving",
           clockPage' = [clockPage EXCEPT ![p] = view], UNCHANGED <<settings, overwrote>>
    PROVE  clockPage' \in [ClockPages -> ClockPage] /\ SettingsInv'
<1>1. \A q \in ClockPages : clockPage'[q] = IF q = p THEN view ELSE clockPage[q]
  BY DEF ClockTypeOK
<1>2. InTransaction' \subseteq InTransaction /\ \A q \in InTransaction' : clockPage'[q] = clockPage[q]
  BY <1>1 DEF InTransaction
<1>3. clockPage' \in [ClockPages -> ClockPage]
  BY DEF ClockTypeOK
<1> QED BY <1>2, <1>3 DEF SettingsInv, OneSaves, SettingsNotOverwritten

\* A request that takes the owner lock is the only one, and has seen what is stored.
LEMMA BeginStep ==
    ASSUME ClockTypeOK, SettingsInv, NEW p \in ClockPages, BeginSave(p)
    PROVE  clockPage' \in [ClockPages -> ClockPage] /\ SettingsInv'
<1> DEFINE view == [clockPage[p] EXCEPT !.pc = "saving"]
<1>1. clockPage[p] \in ClockPage
  BY DEF ClockTypeOK
<1>2. view \in ClockPage /\ view.version = clockPage[p].version /\ view.presents = clockPage[p].presents
  BY <1>1, ViewTypes DEF ClockPage
<1>3. clockPage' = [clockPage EXCEPT ![p] = view]
  BY DEF BeginSave
<1> HIDE DEF view
<1>4. clockPage' \in [ClockPages -> ClockPage]
      /\ \A q \in ClockPages : clockPage'[q] = IF q = p THEN view ELSE clockPage[q]
  BY <1>2, <1>3 DEF ClockTypeOK
<1>5. InTransaction' \subseteq {p}
  BY <1>4 DEF BeginSave, OwnerSetFree, InTransaction
<1>6. clockPage[p].presents => clockPage[p].version = settings
  <2>1. clockPage[p].version # NoHash
    BY <1>1, FenceAssumption DEF ClockPage
  <2> QED BY <2>1, PresentedIsActual DEF BeginSave
<1>7. settings' = settings /\ overwrote' = overwrote
  BY DEF BeginSave
<1> QED BY <1>2, <1>4, <1>5, <1>6, <1>7 DEF SettingsInv, OneSaves, SettingsNotOverwritten

\* The request that holds the lock writes over what it has seen.
LEMMA CommitStep ==
    ASSUME ClockTypeOK, SettingsInv, NEW p \in ClockPages, CommitSave(p)
    PROVE  clockPage' \in [ClockPages -> ClockPage] /\ SettingsInv' /\ settings' \in Nat
<1>1. p \in InTransaction /\ clockPage' = [clockPage EXCEPT ![p] = NoView]
  BY DEF CommitSave, InTransaction
<1>2. clockPage' \in [ClockPages -> ClockPage]
      /\ \A q \in ClockPages : clockPage'[q] = IF q = p THEN NoView ELSE clockPage[q]
  BY <1>1, ViewTypes DEF ClockTypeOK
<1>3. InTransaction' = {}
  BY <1>1, <1>2, ViewTypes DEF InTransaction, SettingsInv, OneSaves
<1>4. ~overwrote'
  BY <1>1 DEF CommitSave, SettingsInv, OneSaves, SettingsNotOverwritten
<1>5. settings' \in Nat
  BY DEF CommitSave, ClockTypeOK
<1> QED BY <1>2, <1>3, <1>4, <1>5 DEF SettingsInv, OneSaves, SettingsNotOverwritten

ClockInv == PlacesInv /\ SettingsInv

\* A step that only moves a page keeps the places.
LEMMA PlacesKept ==
    ASSUME PlacesInv, UNCHANGED <<place, foreign>>, settings' \in Nat,
           clockPage' \in [ClockPages -> ClockPage]
    PROVE  PlacesInv'
BY DEF PlacesInv, ClockTypeOK, PlacesBounded, PlacesDistinct, Listed

\* Every step of the clocks keeps the invariant.
LEMMA ClockInvKept == ClockInv /\ [ClockNext]_clockVars => ClockInv'
<1> SUFFICES ASSUME ClockInv, [ClockNext]_clockVars PROVE ClockInv'
  OBVIOUS
<1> USE DEF ClockInv
<1>0. ClockTypeOK
  BY DEF PlacesInv
<1>1. ASSUME NEW p \in ClockPages, ViewClocks(p) \/ LeaveClocks(p) \/ \E presents \in BOOLEAN : ViewSettings(p, presents)
      PROVE  ClockInv'
  <2>1. \E view \in ClockPage : view.pc # "saving" /\ clockPage' = [clockPage EXCEPT ![p] = view]
    <3>1. CASE ViewClocks(p)
      BY <3>1, <1>0, ViewTypes DEF ViewClocks, ClockTypeOK, NoView
    <3>2. CASE LeaveClocks(p)
      BY <3>2, ViewTypes DEF LeaveClocks, NoView
    <3>3. CASE \E presents \in BOOLEAN : ViewSettings(p, presents)
      BY <3>3, <1>0, ViewTypes DEF ViewSettings, ClockTypeOK, NoView
    <3> QED BY <1>1, <3>1, <3>2, <3>3
  <2>2. UNCHANGED <<place, foreign, settings, overwrote>>
    BY <1>1 DEF ViewClocks, LeaveClocks, ViewSettings
  <2> QED BY <1>0, <2>1, <2>2, ViewStep, PlacesKept DEF ClockTypeOK
<1>2. ASSUME NEW p \in ClockPages, BeginSave(p) PROVE ClockInv'
  BY <1>0, <1>2, BeginStep, PlacesKept DEF BeginSave, ClockTypeOK
<1>3. ASSUME NEW p \in ClockPages, CommitSave(p) PROVE ClockInv'
  BY <1>0, <1>3, CommitStep, PlacesKept DEF CommitSave
<1>4. ASSUME NEW c \in WorldClocks, AppendClock(c) PROVE ClockInv'
  BY <1>4, AppendPlaces
     DEF AppendClock, PlacesInv, ClockTypeOK, SettingsInv, OneSaves, SettingsNotOverwritten, InTransaction
<1>5. ASSUME NEW c \in WorldClocks, NEW n \in 0..MaxPlace, ApplyClock(c, n) PROVE ClockInv'
  BY <1>5, ApplyPlaces
     DEF ApplyClock, PlacesInv, ClockTypeOK, SettingsInv, OneSaves, SettingsNotOverwritten, InTransaction
<1>6. ASSUME NEW p \in ClockPages, NEW c \in WorldClocks, NEW presents, RemoveClock(p, c, presents)
      PROVE  ClockInv'
  BY <1>0, <1>6, RemovePlaces, ViewStep, ViewTypes DEF RemoveClock, PlacesInv, ClockTypeOK
<1>7. ASSUME NEW p \in ClockPages, NEW ids \in Orders, NEW presents, ReorderClocks(p, ids, presents)
      PROVE  ClockInv'
  BY <1>0, <1>7, ReorderPlaces, ViewStep, ViewTypes DEF ReorderClocks, PlacesInv, ClockTypeOK
<1>8. CASE ApplySettings
  BY <1>8 DEF ApplySettings, PlacesInv, ClockTypeOK, PlacesBounded, PlacesDistinct, Listed,
              SettingsInv, OneSaves, SettingsNotOverwritten, InTransaction
<1>9. CASE UNCHANGED <<place, foreign, settings, clockPage, overwrote>>
  BY <1>9 DEF PlacesInv, ClockTypeOK, PlacesBounded, PlacesDistinct, Listed,
              SettingsInv, OneSaves, SettingsNotOverwritten, InTransaction
<1> QED BY <1>1, <1>2, <1>3, <1>4, <1>5, <1>6, <1>7, <1>8, <1>9 DEF ClockNext, clockVars, LinkClock

(* Whatever is appended, removed, reordered and applied, two clocks this server        *)
(* numbered never share a place, and a save that presents a hash never replaces        *)
(* settings its page had not seen (POST world-clocks, PUT order, saveSettings).        *)
THEOREM ClocksOrdered == ClockSpec => []ClockWritesOrdered
<1>1. ClockInit => ClockInv
  <2> SUFFICES ASSUME ClockInit PROVE ClockInv
    OBVIOUS
  <2>1. ClockTypeOK
    <3>1. NoView \in ClockPage
      BY ViewTypes
    <3> QED BY <3>1 DEF ClockInit, ClockTypeOK
  <2>2. PlacesBounded /\ PlacesDistinct
    BY DEF ClockInit, PlacesBounded, PlacesDistinct, Listed
  <2>3. SettingsInv
    BY ViewTypes DEF ClockInit, SettingsInv, OneSaves, SettingsNotOverwritten, InTransaction
  <2> QED BY <2>1, <2>2, <2>3 DEF ClockInv, PlacesInv
<1>2. ClockInv => ClockWritesOrdered
  BY DEF ClockInv, PlacesInv, SettingsInv, ClockWritesOrdered
<1> QED BY <1>1, <1>2, ClockInvKept, PTL DEF ClockSpec

-----------------------------------------------------------------------------
(***************************************************************************)
(* The saved game.                                                         *)
(***************************************************************************)
Hashes == Nat \cup {NoHash}
Game == [version : Nat, score : Int, revision : Nat]
Put == [step : {"none"}] \cup [step : {"sent"}, score : Int, revision : Nat \ {0}, hash : Hashes]
       \cup [step : {"answer"}, answer : [accepted : BOOLEAN, revision : Nat, hash : Nat]]
Get == [step : {"none", "asked"}] \cup [step : {"answer"}, row : Game]
Tab == [phase : {"loading", "ready"}, score : Int, revision : Nat, hash : Hashes, hold : BOOLEAN,
        loaded : BOOLEAN, queued : Int, put : Put, get : Get]

\* A page that has no hash has no revision either, and its save can only be the first.
Knows(page) ==
    /\ page \in Tab
    /\ page.hash = NoHash => page.revision = 0
    /\ page.put.step = "sent" /\ page.put.hash = NoHash => page.put.revision = 1

RowOK == row \in Game /\ (row.version = 0 => row = NoSave) /\ (row # NoSave => row.revision >= 1)

GameInv == GameNotStolen /\ RowOK /\ tab \in [Tabs -> Tab] /\ \A p \in Tabs : Knows(tab[p])

\* Sending the latest board.
LEMMA SendKnows == ASSUME NEW page, Knows(page) PROVE Knows(Send(page))
<1> DEFINE sent == [step |-> "sent", score |-> page.queued, revision |-> page.revision + 1, hash |-> page.hash]
           taken == [page EXCEPT !.queued = None]
<1>1. taken \in Tab /\ taken.hash = page.hash /\ taken.revision = page.revision
  BY DEF Knows, Tab, None
<1>2. sent \in Put
  BY DEF Knows, Put, Tab
<1> HIDE DEF taken
<1>3. Knows([taken EXCEPT !.put = sent])
  BY <1>1, <1>2 DEF Knows, Tab
<1>4. [page EXCEPT !.queued = None, !.put = sent] = [taken EXCEPT !.put = sent]
  BY DEF taken
<1> QED BY <1>3, <1>4 DEF Send

\* A page that keeps its hash, its revision and its save still knows what it knew.
LEMMA StillKnows ==
    ASSUME NEW old, NEW new \in Tab, Knows(old),
           new.hash = old.hash, new.revision = old.revision, new.put = old.put
    PROVE  Knows(new)
BY DEF Knows

\* One page changes and the row does not.
LEMMA TabStep ==
    ASSUME GameInv, NEW p \in Tabs, NEW page, Knows(page), SetTab(p, page), OnlyPages
    PROVE  GameInv'
<1>1. page \in Tab
  BY DEF Knows
<1>2. tab' \in [Tabs -> Tab] /\ \A q \in Tabs : tab'[q] = IF q = p THEN page ELSE tab[q]
  BY <1>1 DEF SetTab, GameInv
<1>3. \A q \in Tabs : Knows(tab'[q])
  BY <1>2 DEF GameInv
<1> QED BY <1>2, <1>3 DEF OnlyPages, GameInv, GameNotStolen, RowOK, Knows

\* A move and a new game.
LEMMA PlayKnows ==
    ASSUME GameInv, NEW p \in Tabs, Move(p) \/ NewGame(p)
    PROVE  GameInv'
<1>1. ASSUME NEW n \in Int, NEW m \in Int PROVE Knows([tab[p] EXCEPT !.score = n, !.queued = m])
  <2> DEFINE scored == [tab[p] EXCEPT !.score = n]
  <2>1. scored \in Tab /\ scored.hash = tab[p].hash /\ scored.revision = tab[p].revision
        /\ scored.put = tab[p].put
    BY DEF GameInv, Tab
  <2> HIDE DEF scored
  <2>2. LET new == [scored EXCEPT !.queued = m]
        IN  new \in Tab /\ new.hash = scored.hash /\ new.revision = scored.revision /\ new.put = scored.put
    BY <2>1 DEF Tab
  <2>3. [tab[p] EXCEPT !.score = n, !.queued = m] = [scored EXCEPT !.queued = m]
    BY DEF scored
  <2> QED BY <2>1, <2>2, <2>3, StillKnows DEF GameInv
<1>2. tab[p].score + 1 \in Int
  BY DEF GameInv, Tab
<1>3. CASE Move(p)
  <2>1. SetTab(p, Send([tab[p] EXCEPT !.score = tab[p].score + 1, !.queued = tab[p].score + 1])) /\ OnlyPages
    BY <1>3 DEF Move
  <2> QED BY <1>1, <1>2, <2>1, SendKnows, TabStep
<1>4. CASE NewGame(p)
  <2>1. \A n \in Int : Knows([tab[p] EXCEPT !.score = n, !.queued = n])
    BY <1>1
  <2>2. PICK zero \in Int : zero = 0
    OBVIOUS
  <2>3. SetTab(p, Send([tab[p] EXCEPT !.score = zero, !.queued = zero])) /\ OnlyPages
    BY <1>4, <2>2 DEF NewGame
  <2> QED BY <2>1, <2>3, SendKnows, TabStep
<1> QED BY <1>3, <1>4

\* A load that is asked for or fails changes nothing the page knows.
LEMMA LoadKnows ==
    ASSUME GameInv, NEW p \in Tabs, Reload(p) \/ LoadFails(p) \/ GetSave(p)
    PROVE  GameInv'
<1> DEFINE page == tab[p]
<1>0. page \in Tab /\ Knows(page) /\ row \in Game
  BY DEF GameInv, RowOK
<1>1. ASSUME NEW get \in Get PROVE Knows([page EXCEPT !.get = get])
  BY <1>0 DEF Knows, Tab
<1>2. ASSUME NEW get \in Get PROVE Knows([page EXCEPT !.phase = "ready", !.get = get])
  <2> DEFINE ready == [page EXCEPT !.phase = "ready"]
  <2>1. Knows(ready)
    BY <1>0 DEF Knows, Tab
  <2> HIDE DEF ready
  <2>2. Knows([ready EXCEPT !.get = get])
    BY <2>1 DEF Knows, Tab
  <2> QED BY <2>2 DEF ready
<1>3. ASSUME NEW get \in Get PROVE Knows([page EXCEPT !.score = 0, !.phase = "ready", !.get = get])
  <2> DEFINE zero == [page EXCEPT !.score = 0]
             ready == [zero EXCEPT !.phase = "ready"]
  <2>1. Knows(zero)
    BY <1>0 DEF Knows, Tab
  <2> HIDE DEF zero
  <2>2. Knows(ready)
    BY <2>1 DEF Knows, Tab
  <2> HIDE DEF ready
  <2>3. Knows([ready EXCEPT !.get = get])
    BY <2>2 DEF Knows, Tab
  <2> QED BY <2>3 DEF ready, zero
<1>4. [step |-> "asked"] \in Get /\ [step |-> "none"] \in Get /\ [step |-> "answer", row |-> row] \in Get
  BY <1>0 DEF Get
<1>5. CASE Reload(p)
  BY <1>1, <1>4, <1>5, TabStep DEF Reload
<1>6. CASE LoadFails(p)
  BY <1>2, <1>3, <1>4, <1>6, TabStep DEF LoadFails, Fresh
<1>7. CASE GetSave(p)
  BY <1>1, <1>4, <1>7, TabStep DEF GetSave
<1> QED BY <1>5, <1>6, <1>7

\* A page that loaded the row knows its hash.
LEMMA LoadedKnows ==
    ASSUME GameInv, NEW p \in Tabs, Loaded(p)
    PROVE  GameInv'
<1> DEFINE page == tab[p]
           answer == page.get.row
           calm == [page EXCEPT !.hold = FALSE]
           empty == [calm EXCEPT !.queued = None]
           loadedNow == [empty EXCEPT !.loaded = TRUE]
           clean == [loadedNow EXCEPT !.hash = answer.version]
           none == [step |-> "none"]
<1>1. page \in Tab /\ Knows(page) /\ answer \in Game /\ none \in Get
  <2>1. page \in Tab /\ Knows(page) /\ page.get.step = "answer"
    BY DEF GameInv, Loaded
  <2>2. page.get \in Get
    BY <2>1 DEF Tab
  <2> QED BY <2>1, <2>2 DEF Get
<1>2. Knows(calm)
  BY <1>1 DEF Knows, Tab
<1> HIDE DEF calm
<1>3. Knows(empty)
  BY <1>2 DEF Knows, Tab, None
<1> HIDE DEF empty
<1>4. Knows(loadedNow)
  BY <1>3 DEF Knows, Tab
<1> HIDE DEF loadedNow
<1>5. Knows(clean) /\ clean.hash # NoHash
  BY <1>1, <1>4, FenceAssumption DEF Knows, Tab, Game, Hashes
<1>6. clean = [tab[p] EXCEPT !.hold = FALSE, !.queued = None, !.loaded = TRUE, !.hash = answer.version]
  BY DEF loadedNow, empty, calm
<1> HIDE DEF clean
<1>7. ASSUME NEW n \in Int, NEW m \in Nat
      PROVE  Knows([clean EXCEPT !.score = n, !.revision = m, !.phase = "ready", !.get = none])
  <2> DEFINE scored == [clean EXCEPT !.score = n]
             revised == [scored EXCEPT !.revision = m]
             ready == [revised EXCEPT !.phase = "ready"]
  <2>1. Knows(scored) /\ scored.hash # NoHash
    BY <1>5 DEF Knows, Tab
  <2> HIDE DEF scored
  <2>2. Knows(revised)
    BY <2>1 DEF Knows, Tab
  <2> HIDE DEF revised
  <2>3. Knows(ready)
    BY <2>2 DEF Knows, Tab
  <2> HIDE DEF ready
  <2>4. Knows([ready EXCEPT !.get = none])
    BY <1>1, <2>3 DEF Knows, Tab
  <2> QED BY <2>4 DEF ready, revised, scored
<1>8. Knows(Fresh(clean))
  <2> DEFINE zero == [clean EXCEPT !.score = 0]
             ready == [zero EXCEPT !.phase = "ready"]
  <2>1. Knows(zero)
    BY <1>5 DEF Knows, Tab
  <2> HIDE DEF zero
  <2>2. Knows(ready)
    BY <2>1 DEF Knows, Tab
  <2> HIDE DEF ready
  <2>3. Knows([ready EXCEPT !.get = none])
    BY <1>1, <2>2 DEF Knows, Tab
  <2> QED BY <2>3 DEF ready, zero, Fresh
<1>9. answer.score \in Int /\ answer.revision \in Nat
  BY <1>1 DEF Game
<1> HIDE DEF none, answer
<1>10. SetTab(p, IF answer = NoSave THEN Fresh(clean)
                 ELSE [clean EXCEPT !.score = answer.score, !.revision = answer.revision,
                                    !.phase = "ready", !.get = none]) /\ OnlyPages
  BY <1>6 DEF Loaded, none, answer
<1> QED BY <1>7, <1>8, <1>9, <1>10, TabStep

\* A page that gives up its save knows no less.
LEMMA HeldKnows == ASSUME NEW page, Knows(page) PROVE Knows(Held(page))
<1> DEFINE held == [page EXCEPT !.hold = TRUE]
           empty == [held EXCEPT !.queued = None]
           none == [step |-> "none"]
<1>1. Knows(held)
  BY DEF Knows, Tab
<1> HIDE DEF held
<1>2. Knows(empty)
  BY <1>1 DEF Knows, Tab, None
<1> HIDE DEF empty
<1>3. none \in Put
  BY DEF Put
<1>4. Knows([empty EXCEPT !.put = none])
  BY <1>2, <1>3 DEF Knows, Tab
<1> QED BY <1>4 DEF empty, held, Held

\* A page that has its save answered knows the hash of what it wrote.
LEMMA AnsweredKnows ==
    ASSUME GameInv, NEW p \in Tabs, SaveAnswered(p)
    PROVE  GameInv'
<1> DEFINE page == tab[p]
           answer == page.put.answer
           none == [step |-> "none"]
           free == [page EXCEPT !.put = none]
           revised == [free EXCEPT !.revision = answer.revision]
           wrote == [revised EXCEPT !.hash = answer.hash]
<1>1. page \in Tab /\ Knows(page) /\ answer \in [accepted : BOOLEAN, revision : Nat, hash : Nat]
  <2>1. page \in Tab /\ Knows(page) /\ page.put.step = "answer"
    BY DEF GameInv, SaveAnswered
  <2>2. page.put \in Put
    BY <2>1 DEF Tab
  <2> QED BY <2>1, <2>2 DEF Put
<1>2. free \in Tab /\ free.put.step = "none"
  BY <1>1 DEF Tab, Put
<1> HIDE DEF free
<1>3. revised \in Tab /\ revised.put.step = "none"
  BY <1>1, <1>2 DEF Tab
<1> HIDE DEF revised
<1>4. Knows(wrote)
  BY <1>1, <1>3, FenceAssumption DEF Knows, Tab, Hashes
<1>5. wrote = [tab[p] EXCEPT !.put = none, !.revision = answer.revision, !.hash = answer.hash]
  BY DEF revised, free
<1> HIDE DEF wrote, answer
<1>6. SetTab(p, IF ~answer.accepted THEN Held(tab[p]) ELSE Send(wrote)) /\ OnlyPages
  BY <1>5 DEF SaveAnswered, answer
<1> QED BY <1>1, <1>4, <1>6, HeldKnows, SendKnows, TabStep

\* An answer leaves the page as it is, but for the save.
LEMMA AnswerKnows ==
    ASSUME GameInv, NEW p \in Tabs, NEW accepted \in BOOLEAN, NEW saved \in Game
    PROVE  Knows([tab[p] EXCEPT !.put = [step |-> "answer", answer |->
                    [accepted |-> accepted, revision |-> saved.revision, hash |-> saved.version]]])
<1> DEFINE put == [step |-> "answer", answer |->
                     [accepted |-> accepted, revision |-> saved.revision, hash |-> saved.version]]
<1>1. put \in Put /\ put.step = "answer"
  BY DEF Put, Game
<1> HIDE DEF put
<1>2. Knows([tab[p] EXCEPT !.put = put])
  BY <1>1 DEF GameInv, Knows, Tab
<1> QED BY <1>2 DEF put

(* A save is accepted with the hash of the row it replaces; one without a hash is the  *)
(* first save of its page, which a row that exists is never older than.                *)
LEMMA PutReplacesKnown ==
    ASSUME GameInv, NEW p \in Tabs, PutSave(p)
    PROVE  GameInv'
<1> DEFINE put == tab[p].put
           next == [version |-> row.version + 1, score |-> put.score, revision |-> put.revision]
<1>1. put \in Put /\ put.step = "sent" /\ Knows(tab[p]) /\ RowOK
  BY DEF GameInv, PutSave, Tab
<1>2. put.revision \in Nat /\ put.revision >= 1 /\ put.score \in Int
  BY <1>1 DEF Put
<1>3. next \in Game /\ next.version # 0 /\ next.revision >= 1
  BY <1>1, <1>2 DEF RowOK, Game
<1>4. row = NoSave \/ put.hash = row.version
  <2>1. CASE put.hash = NoHash
    <3>1. put.revision = 1
      BY <1>1, <2>1 DEF Knows
    <3>2. row = NoSave \/ row.revision < 1
      BY <3>1 DEF PutSave, Newer
    <3> QED BY <1>1, <3>2 DEF RowOK, Game
  <2>2. CASE put.hash # NoHash
    BY <2>2, PresentedIsActual DEF PutSave
  <2> QED BY <2>1, <2>2
<1>5. row' = next /\ ~stolen'
  BY <1>4 DEF PutSave, GameInv, GameNotStolen
<1> DEFINE answered == [step |-> "answer", answer |->
                          [accepted |-> TRUE, revision |-> next.revision, hash |-> next.version]]
<1>6. tab' = [tab EXCEPT ![p] = [tab[p] EXCEPT !.put = answered]]
  BY DEF PutSave, Answer, SetTab
<1>7. Knows([tab[p] EXCEPT !.put = answered])
  BY <1>3, AnswerKnows
<1> HIDE DEF answered, next
<1>8. tab' \in [Tabs -> Tab] /\ \A q \in Tabs : Knows(tab'[q])
  BY <1>6, <1>7 DEF GameInv, Knows
<1> QED BY <1>3, <1>5, <1>8 DEF GameInv, GameNotStolen, RowOK, Knows

\* Every step of the game keeps the invariant.
LEMMA GameInvKept == GameInv /\ [GameNext]_gameVars => GameInv'
<1> SUFFICES ASSUME GameInv, [GameNext]_gameVars PROVE GameInv'
  OBVIOUS
<1>1. ASSUME NEW p \in Tabs, SaveFails(p) PROVE GameInv'
  BY <1>1, HeldKnows, TabStep DEF SaveFails, GameInv
<1>2. ASSUME NEW p \in Tabs, RefuseSave(p) PROVE GameInv'
  <2>1. row \in Game
    BY DEF GameInv, RowOK
  <2> QED BY <1>2, <2>1, AnswerKnows, TabStep DEF RefuseSave, Answer
<1>3. CASE OtherSave
  <2>1. PICK score \in 0..MaxScore, revision \in 1..MaxBoards :
           row' = [version |-> row.version + 1, score |-> score, revision |-> revision]
    BY <1>3 DEF OtherSave
  <2>2. RowOK'
    BY <2>1, GameAssumption DEF GameInv, RowOK, Game
  <2> QED BY <1>3, <2>2 DEF OtherSave, GameInv, GameNotStolen, Knows
<1>4. CASE UNCHANGED gameVars
  BY <1>4 DEF gameVars, GameInv, GameNotStolen, RowOK, Knows
<1> QED BY <1>1, <1>2, <1>3, <1>4, PlayKnows, LoadKnows, LoadedKnows, AnsweredKnows, PutReplacesKnown
        DEF GameNext, Loading, Saving

(* A stored game is replaced only by a page that loaded or wrote that very row,        *)
(* whatever fails and however many tabs play (PUT saves).                              *)
THEOREM GameKept == GameSpec => []GameNotStolen
<1>1. GameInit => GameInv
  <2> SUFFICES ASSUME GameInit PROVE GameInv
    OBVIOUS
  <2>1. NewTab \in Tab /\ Knows(NewTab)
    BY DEF NewTab, Knows, Tab, Put, Get, Hashes, None
  <2>2. RowOK
    BY DEF GameInit, RowOK, NoSave, Game
  <2> QED BY <2>1, <2>2 DEF GameInit, GameInv, GameNotStolen
<1>2. GameInv => GameNotStolen
  BY DEF GameInv
<1> QED BY <1>1, <1>2, GameInvKept, PTL DEF GameSpec

-----------------------------------------------------------------------------
(***************************************************************************)
(* Backups.                                                                *)
(***************************************************************************)
RunPoints == {"new", "export", "previous", "objects", "upload", "manifest", "record", "finish", "over"}
BackupRun == [pc : RunPoints, mode : {"incremental", "full"}, place : Destinations \cup {"none"},
              holds : SUBSET BackupObjects, age : Nat, known : SUBSET BackupObjects, todo : SUBSET BackupObjects,
              sends : Files \cup {NoRun}, same : BackupRuns \cup {NoRun}, excused : BOOLEAN]
BackupRow == [id : BackupRuns, mode : {"incremental", "full"}, place : Destinations,
              holds : SUBSET BackupObjects, age : Nat, excused : BOOLEAN]

BackupTypeOK ==
    /\ data \in [objects : SUBSET BackupObjects, age : Nat]
    /\ target \in [place : Destinations \cup {"none"}, lease : BackupRuns \cup {NoRun}, live : BOOLEAN]
    /\ remote \in [Destinations -> [Files -> {"absent", "whole", "broken"}]]
    /\ backups \in Seq(BackupRow)
    /\ run \in [BackupRuns -> BackupRun]
    /\ \A b \in BackupRuns : run[b].pc \notin {"new", "over", "finish"} => run[b].place \in Destinations

\* A run stands where its mode leads it, and sends one of its objects or its manifest.
RunPlaces == \A b \in BackupRuns :
    /\ run[b].mode = "full" => run[b].pc \notin {"objects", "previous"}
    /\ run[b].mode = "incremental" => run[b].pc # "manifest"
    /\ run[b].pc \in {"upload", "record"} => run[b].sends \in Files
    /\ run[b].pc = "upload" /\ run[b].mode = "full" => run[b].sends = b
    /\ run[b].pc = "upload" /\ run[b].sends # b => run[b].sends \in BackupObjects
    /\ run[b].mode = "incremental" /\ (run[b].pc = "record" \/ (run[b].pc = "upload" /\ run[b].sends = b))
          => run[b].todo = {}

\* What a run has seen or sent is there, unless it disappeared since.
RunSent == \A b \in BackupRuns :
    ~run[b].excused =>
      /\ run[b].mode = "incremental" /\ run[b].pc \in {"objects", "upload", "record"} =>
            \A o \in run[b].holds \ run[b].todo : remote[run[b].place][o] = "whole"
      /\ run[b].pc = "record" => remote[run[b].place][b] = "whole"

(* The rows are in the order of the data they hold: a run that exported while it had    *)
(* the lease, and still has it, exported what is as new as anything recorded.           *)
AgesInOrder ==
    /\ \A i \in DOMAIN backups : backups[i].age <= data.age /\ \A j \in 1..i : backups[j].age <= backups[i].age
    /\ \A b \in BackupRuns :
          /\ run[b].age <= data.age
          /\ target.lease = b /\ run[b].pc \in {"previous", "objects", "manifest", "upload", "record"} =>
                \A i \in DOMAIN backups : backups[i].age <= run[b].age

BackupInv ==
    /\ BackupTypeOK /\ RunPlaces /\ RunSent /\ AgesInOrder
    /\ \A i \in DOMAIN backups : backups[i].excused \/ Restorable(backups[i])

\* A run before it starts and after it ended.
LEMMA NotStartedType ==
    /\ NotStarted \in BackupRun /\ NotStarted.pc = "new" /\ NotStarted.age = 0 /\ NotStarted.mode = "full"
    /\ \A b \in BackupRuns : Ends(b) \in BackupRun /\ Ends(b).pc = "over" /\ Ends(b).age = 0 /\ Ends(b).mode = "full"
<1>1. NotStarted \in BackupRun /\ NotStarted.pc = "new" /\ NotStarted.age = 0 /\ NotStarted.mode = "full"
  BY DEF NotStarted, BackupRun, RunPoints
<1>2. ASSUME NEW b \in BackupRuns
      PROVE  Ends(b) \in BackupRun /\ Ends(b).pc = "over" /\ Ends(b).age = 0 /\ Ends(b).mode = "full"
  BY <1>1 DEF Ends, BackupRun, RunPoints
<1> QED BY <1>1, <1>2

(* A run moves on; the lease stays or goes from it, and files only become whole.        *)
LEMMA RunMoves ==
    ASSUME BackupInv, NEW b \in BackupRuns, NEW new \in BackupRun, run' = [run EXCEPT ![b] = new],
           UNCHANGED <<data, backups>>,
           target' \in [place : Destinations \cup {"none"}, lease : BackupRuns \cup {NoRun}, live : BOOLEAN],
           \A c \in BackupRuns : c # b /\ target'.lease = c => target.lease = c,
           remote' \in [Destinations -> [Files -> {"absent", "whole", "broken"}]],
           \A p \in Destinations, f \in Files : remote[p][f] = "whole" => remote'[p][f] = "whole",
           new.pc \notin {"new", "over", "finish"} => new.place \in Destinations,
           /\ new.mode = "full" => new.pc \notin {"objects", "previous"}
           /\ new.mode = "incremental" => new.pc # "manifest"
           /\ new.pc \in {"upload", "record"} => new.sends \in Files
           /\ new.pc = "upload" /\ new.mode = "full" => new.sends = b
           /\ new.pc = "upload" /\ new.sends # b => new.sends \in BackupObjects
           /\ new.mode = "incremental" /\ (new.pc = "record" \/ (new.pc = "upload" /\ new.sends = b))
                 => new.todo = {},
           ~new.excused =>
             /\ new.mode = "incremental" /\ new.pc \in {"objects", "upload", "record"} =>
                   \A o \in new.holds \ new.todo : remote'[new.place][o] = "whole"
             /\ new.pc = "record" => remote'[new.place][b] = "whole",
           new.age <= data.age,
           target'.lease = b /\ new.pc \in {"previous", "objects", "manifest", "upload", "record"} =>
                \A i \in DOMAIN backups : backups[i].age <= new.age
    PROVE  BackupInv'
<1>1. /\ run' \in [BackupRuns -> BackupRun]
      /\ \A c \in BackupRuns : run'[c] = IF c = b THEN new ELSE run[c]
  BY DEF BackupInv, BackupTypeOK
<1>2. BackupTypeOK'
  BY <1>1 DEF BackupInv, BackupTypeOK
<1>3. RunPlaces'
  BY <1>1 DEF BackupInv, RunPlaces
<1>4. RunSent'
  <2> SUFFICES ASSUME NEW c \in BackupRuns, ~run'[c].excused
               PROVE  /\ run'[c].mode = "incremental" /\ run'[c].pc \in {"objects", "upload", "record"} =>
                            \A o \in run'[c].holds \ run'[c].todo : remote'[run'[c].place][o] = "whole"
                      /\ run'[c].pc = "record" => remote'[run'[c].place][c] = "whole"
    BY DEF RunSent
  <2>1. CASE c = b
    BY <1>1, <2>1
  <2>2. CASE c # b
    <3>1. run'[c] = run[c] /\ run[c] \in BackupRun /\ run[c].holds \subseteq Files
          /\ (run[c].pc \notin {"new", "over", "finish"} => run[c].place \in Destinations) /\ c \in Files
      BY <1>1, <2>2 DEF BackupInv, BackupTypeOK, BackupRun, Files
    <3> QED BY <3>1 DEF BackupInv, RunSent
  <2> QED BY <2>1, <2>2
<1>5. AgesInOrder'
  BY <1>1 DEF BackupInv, AgesInOrder
<1>6. \A i \in DOMAIN backups' : backups'[i].excused \/ Restorable(backups[i])'
  <2> SUFFICES ASSUME NEW i \in DOMAIN backups, Restorable(backups[i]) PROVE Restorable(backups[i])'
    BY DEF BackupInv
  <2>1. backups[i] \in BackupRow
    BY DEF BackupInv, BackupTypeOK
  <2>2. backups[i].holds \subseteq Files /\ backups[i].id \in Files /\ backups[i].place \in Destinations
    BY <2>1 DEF BackupRow, Files
  <2> QED BY <2>2 DEF Restorable
<1> QED BY <1>2, <1>3, <1>4, <1>5, <1>6 DEF BackupInv

\* A run that is over, or about to be, claims nothing any more.
LEMMA RunEnds ==
    ASSUME BackupInv, NEW b \in BackupRuns, NEW new \in BackupRun, run' = [run EXCEPT ![b] = new],
           new.pc \in {"finish", "over"}, new.age <= data.age, UNCHANGED <<data, backups>>,
           target' \in [place : Destinations \cup {"none"}, lease : BackupRuns \cup {NoRun}, live : BOOLEAN],
           \A c \in BackupRuns : c # b /\ target'.lease = c => target.lease = c,
           remote' \in [Destinations -> [Files -> {"absent", "whole", "broken"}]],
           \A p \in Destinations, f \in Files : remote[p][f] = "whole" => remote'[p][f] = "whole"
    PROVE  BackupInv'
BY RunMoves

\* The state of a run, field by field.
LEMMA RunFacts ==
    ASSUME BackupInv, NEW b \in BackupRuns
    PROVE  /\ run[b] \in BackupRun /\ run[b].age <= data.age /\ b \in Files /\ data.objects \subseteq BackupObjects
           /\ data.age \in Nat
           /\ run[b].pc \notin {"new", "over", "finish"} => run[b].place \in Destinations
           /\ run[b].todo \subseteq BackupObjects /\ BackupObjects \subseteq Files /\ BackupRuns \subseteq Files
           /\ run[b].holds \subseteq BackupObjects /\ run[b].age \in Nat /\ run[b].excused \in BOOLEAN
           /\ run[b].sends \in Files \cup {NoRun} /\ run[b].mode \in {"incremental", "full"}
           /\ target \in [place : Destinations \cup {"none"}, lease : BackupRuns \cup {NoRun}, live : BOOLEAN]
           /\ remote \in [Destinations -> [Files -> {"absent", "whole", "broken"}]]
BY DEF BackupInv, BackupTypeOK, BackupRun, Files, AgesInOrder

\* A step of a run that changes its own state only.
LEMMA RunReads ==
    ASSUME BackupInv, NEW b \in BackupRuns, NEW new \in BackupRun, run' = [run EXCEPT ![b] = new],
           UNCHANGED <<data, backups, target, remote>>,
           new.pc \notin {"new", "over", "finish"} => new.place \in Destinations,
           /\ new.mode = "full" => new.pc \notin {"objects", "previous"}
           /\ new.mode = "incremental" => new.pc # "manifest"
           /\ new.pc \in {"upload", "record"} => new.sends \in Files
           /\ new.pc = "upload" /\ new.mode = "full" => new.sends = b
           /\ new.pc = "upload" /\ new.sends # b => new.sends \in BackupObjects
           /\ new.mode = "incremental" /\ (new.pc = "record" \/ (new.pc = "upload" /\ new.sends = b))
                 => new.todo = {},
           ~new.excused =>
             /\ new.mode = "incremental" /\ new.pc \in {"objects", "upload", "record"} =>
                   \A o \in new.holds \ new.todo : remote[new.place][o] = "whole"
             /\ new.pc = "record" => remote[new.place][b] = "whole",
           new.age <= data.age,
           target.lease = b /\ new.pc \in {"previous", "objects", "manifest", "upload", "record"} =>
                \A i \in DOMAIN backups : backups[i].age <= new.age
    PROVE  BackupInv'
<1>1. /\ target' \in [place : Destinations \cup {"none"}, lease : BackupRuns \cup {NoRun}, live : BOOLEAN]
      /\ remote' \in [Destinations -> [Files -> {"absent", "whole", "broken"}]]
      /\ \A c \in BackupRuns : c # b /\ target'.lease = c => target.lease = c
      /\ \A p \in Destinations, f \in Files : remote[p][f] = "whole" => remote'[p][f] = "whole"
  BY RunFacts
<1> QED BY <1>1, RunMoves

\* The lease is claimed, the data exported.
LEMMA ClaimKeeps == ASSUME BackupInv, NEW b \in BackupRuns, ClaimLease(b) PROVE BackupInv'
<1>1. PICK m \in {"incremental", "full"} :
         run' = [run EXCEPT ![b] = [NotStarted EXCEPT !.pc = "export", !.mode = m, !.place = target.place]]
  BY DEF ClaimLease, Goes
<1>2. /\ target.place # "none" /\ UNCHANGED <<data, backups, remote>>
      /\ target' = [target EXCEPT !.lease = b, !.live = TRUE]
  BY DEF ClaimLease, BackupsRest
<1>3. target.place \in Destinations /\ data.age \in Nat
  BY <1>2, RunFacts
<1> DEFINE m1 == [NotStarted EXCEPT !.pc = "export"]
           m2 == [m1 EXCEPT !.mode = m]
           m3 == [m2 EXCEPT !.place = target.place]
<1>4. run' = [run EXCEPT ![b] = m3]
  BY <1>1
<1>5. m1 \in BackupRun /\ m1.pc = "export" /\ m1.age = 0
  BY NotStartedType DEF BackupRun, RunPoints
<1> HIDE DEF m1
<1>6. m2 \in BackupRun /\ m2.pc = "export" /\ m2.age = 0
  BY <1>5 DEF BackupRun
<1> HIDE DEF m2
<1>7. m3 \in BackupRun /\ m3.pc = "export" /\ m3.age = 0 /\ m3.place \in Destinations
  BY <1>3, <1>6 DEF BackupRun
<1> HIDE DEF m3
<1>8. PICK new \in BackupRun : new = m3
  BY <1>7
<1>9. run' = [run EXCEPT ![b] = new] /\ new.pc = "export" /\ new.age <= data.age /\ new.place \in Destinations
  BY <1>3, <1>4, <1>7, <1>8
<1>10. /\ target' \in [place : Destinations \cup {"none"}, lease : BackupRuns \cup {NoRun}, live : BOOLEAN]
       /\ \A c \in BackupRuns : c # b /\ target'.lease = c => target.lease = c
       /\ remote' \in [Destinations -> [Files -> {"absent", "whole", "broken"}]]
       /\ \A p \in Destinations, f \in Files : remote[p][f] = "whole" => remote'[p][f] = "whole"
  BY <1>2, RunFacts
<1> QED BY <1>2, <1>9, <1>10, RunMoves

LEMMA ExportKeeps == ASSUME BackupInv, NEW b \in BackupRuns, Export(b) PROVE BackupInv'
<1> DEFINE to == IF run[b].mode = "full" THEN "manifest" ELSE "previous"
           m1 == [run[b] EXCEPT !.pc = to]
           m2 == [m1 EXCEPT !.holds = data.objects]
           m3 == [m2 EXCEPT !.age = data.age]
<1>1. run' = [run EXCEPT ![b] = m3] /\ UNCHANGED <<data, backups, target, remote>> /\ run[b].pc = "export"
  BY DEF Export, Goes, BackupsRest, Standing
<1>2. m1 \in BackupRun /\ m1.pc = to /\ m1.mode = run[b].mode /\ m1.place = run[b].place
  BY RunFacts DEF BackupRun, RunPoints
<1> HIDE DEF m1
<1>3. m2 \in BackupRun /\ m2.pc = to /\ m2.mode = run[b].mode /\ m2.place = run[b].place
  BY <1>2, RunFacts DEF BackupRun
<1> HIDE DEF m2
<1>4. m3 \in BackupRun /\ m3.pc = to /\ m3.mode = run[b].mode /\ m3.place = run[b].place /\ m3.age = data.age
  BY <1>3, RunFacts DEF BackupRun
<1> HIDE DEF m3
<1>5. PICK new \in BackupRun : new = m3
  BY <1>4
<1>6. /\ run' = [run EXCEPT ![b] = new] /\ new.pc = to /\ new.mode = run[b].mode /\ new.place = run[b].place
      /\ new.age = data.age /\ new.mode \in {"incremental", "full"}
  BY <1>1, <1>4, <1>5, RunFacts
<1>7. new.place \in Destinations /\ new.pc \in {"manifest", "previous"} /\ (new.pc = "manifest" <=> new.mode = "full")
  BY <1>1, <1>6, RunFacts
<1>8. new.age <= data.age /\ \A i \in DOMAIN backups : backups[i].age <= new.age
  BY <1>6, RunFacts DEF BackupInv, AgesInOrder
<1> QED BY <1>1, <1>6, <1>7, <1>8, RunReads

\* The newest row of a kind is a row, so its id and its objects are known.
LEMMA NewestIsRow ==
    ASSUME BackupInv, NEW p, NewestIncremental(p) # NoRun
    PROVE  NewestIncremental(p) \in BackupRuns /\ HeldBy(NewestIncremental(p)) \in SUBSET BackupObjects
<1> DEFINE rows == {i \in DOMAIN backups : backups[i].place = p /\ backups[i].mode = "incremental"}
           newest == CHOOSE i \in rows : \A j \in rows : j <= i
<1>1. NewestIncremental(p) = backups[newest].id /\ rows # {}
  BY DEF NewestIncremental
<1>2. rows \in SUBSET Nat /\ Len(backups) \in Nat /\ \A i \in rows : i <= Len(backups)
  BY DEF BackupInv, BackupTypeOK
<1>3. \E i \in rows : \A j \in rows : j <= i
  <2> HIDE DEF rows
  <2> QED BY <1>1, <1>2, GreatestExists
<1>4. newest \in DOMAIN backups
  BY <1>3
<1> HIDE DEF newest
<1>5. \A i \in DOMAIN backups : backups[i] \in BackupRow
  BY DEF BackupInv, BackupTypeOK
<1>6. \A i \in DOMAIN backups : backups[i].id \in BackupRuns /\ backups[i].holds \in SUBSET BackupObjects
  BY <1>5 DEF BackupRow
<1>7. (CHOOSE i \in DOMAIN backups : backups[i].id = NewestIncremental(p)) \in DOMAIN backups
  BY <1>1, <1>4
<1> QED BY <1>1, <1>4, <1>6, <1>7 DEF HeldBy

\* What the previous backup holds is known, not yet confirmed.
LEMMA PreviousKeeps == ASSUME BackupInv, NEW b \in BackupRuns, ReadPrevious(b) PROVE BackupInv'
<1> DEFINE id == NewestIncremental(run[b].place)
           found == id # NoRun /\ There(b, id) = "whole"
<1>1. PICK known \in SUBSET BackupObjects : known = IF found THEN HeldBy(id) ELSE {}
  BY NewestIsRow
<1>2. PICK same \in BackupRuns \cup {NoRun} : same = IF found /\ HeldBy(id) = run[b].holds THEN id ELSE NoRun
  BY NewestIsRow
<1> DEFINE m1 == [run[b] EXCEPT !.pc = "objects"]
           m2 == [m1 EXCEPT !.todo = run[b].holds]
           m3 == [m2 EXCEPT !.known = known]
           m4 == [m3 EXCEPT !.same = same]
<1>3. run' = [run EXCEPT ![b] = m4] /\ UNCHANGED <<data, backups, target, remote>> /\ run[b].pc = "previous"
  BY <1>1, <1>2 DEF ReadPrevious, Goes, BackupsRest, Standing
<1>4. m1 \in BackupRun /\ m1.pc = "objects" /\ \A x \in {"mode", "place", "holds", "age"} : m1[x] = run[b][x]
  BY RunFacts DEF BackupRun, RunPoints
<1> HIDE DEF m1
<1>5. /\ m2 \in BackupRun /\ m2.pc = "objects" /\ m2.todo = run[b].holds
      /\ m2.mode = run[b].mode /\ m2.place = run[b].place /\ m2.holds = run[b].holds /\ m2.age = run[b].age
  BY <1>4, RunFacts DEF BackupRun
<1> HIDE DEF m2
<1>6. /\ m3 \in BackupRun /\ m3.pc = "objects" /\ m3.todo = run[b].holds
      /\ m3.mode = run[b].mode /\ m3.place = run[b].place /\ m3.holds = run[b].holds /\ m3.age = run[b].age
  BY <1>5 DEF BackupRun
<1> HIDE DEF m3
<1>7. /\ m4 \in BackupRun /\ m4.pc = "objects" /\ m4.todo = run[b].holds
      /\ m4.mode = run[b].mode /\ m4.place = run[b].place /\ m4.holds = run[b].holds /\ m4.age = run[b].age
  BY <1>6 DEF BackupRun
<1> HIDE DEF m4
<1>8. PICK new \in BackupRun : new = m4
  BY <1>7
<1>9. /\ run' = [run EXCEPT ![b] = new] /\ new.pc = "objects" /\ new.todo = new.holds
      /\ new.mode = "incremental" /\ new.place \in Destinations /\ new.age = run[b].age /\ new.age <= data.age
  BY <1>3, <1>7, <1>8, RunFacts DEF BackupInv, RunPlaces
<1>10. target.lease = b => \A i \in DOMAIN backups : backups[i].age <= new.age
  BY <1>3, <1>9 DEF BackupInv, AgesInOrder
<1> QED BY <1>3, <1>9, <1>10, RunReads

\* An object that the server confirms need not be sent.
LEMMA ConfirmKeeps == ASSUME BackupInv, NEW b \in BackupRuns, ConfirmObject(b) PROVE BackupInv'
<1>1. PICK o \in run[b].todo : /\ Confirmed(b, o) /\ run[b].pc = "objects"
                             /\ run' = [run EXCEPT ![b] = [run[b] EXCEPT !.todo = @ \ {o}]]
  BY DEF ConfirmObject, Goes, Standing
<1>2. UNCHANGED <<data, backups, target, remote>> /\ remote[run[b].place][o] = "whole"
  BY <1>1 DEF ConfirmObject, BackupsRest, Confirmed, There
<1> DEFINE moved == [run[b] EXCEPT !.todo = @ \ {o}]
<1>3. /\ moved \in BackupRun /\ moved.pc = "objects" /\ moved.todo = run[b].todo \ {o} /\ moved.mode = run[b].mode
      /\ moved.place = run[b].place /\ moved.holds = run[b].holds /\ moved.age = run[b].age
      /\ moved.excused = run[b].excused
  BY <1>1, RunFacts DEF BackupRun
<1> HIDE DEF moved
<1>4. PICK new \in BackupRun : new = moved
  BY <1>3
<1>5. /\ run' = [run EXCEPT ![b] = new] /\ new.pc = "objects" /\ new.place \in Destinations /\ new.age <= data.age
      /\ new.mode = "incremental" /\ new.todo = run[b].todo \ {o}
      /\ new.place = run[b].place /\ new.holds = run[b].holds /\ new.age = run[b].age /\ new.excused = run[b].excused
  BY <1>1, <1>3, <1>4, RunFacts DEF BackupInv, RunPlaces, moved
<1>6. ~new.excused => \A f \in new.holds \ new.todo : remote[new.place][f] = "whole"
  <2>1. run[b].mode = "incremental"
    BY <1>1, RunFacts DEF BackupInv, RunPlaces
  <2>2. ~run[b].excused => \A f \in run[b].holds \ run[b].todo : remote[run[b].place][f] = "whole"
    BY <1>1, <2>1 DEF BackupInv, RunSent
  <2> QED BY <1>2, <1>5, <2>2
<1>7. target.lease = b => \A i \in DOMAIN backups : backups[i].age <= new.age
  BY <1>1, <1>5 DEF BackupInv, AgesInOrder
<1> QED BY <1>2, <1>5, <1>6, <1>7, RunReads

(* A request goes out: for an object that is left, or for the manifest when none is.    *)
LEMMA SendKeeps == ASSUME BackupInv, NEW b \in BackupRuns, SendObject(b) \/ SendManifest(b) PROVE BackupInv'
<1>1. PICK f \in Files : /\ run' = [run EXCEPT ![b] = [run[b] EXCEPT !.pc = "upload", !.sends = f]]
                        /\ \/ f \in BackupObjects /\ run[b].pc = "objects"
                           \/ f = b /\ run[b].pc = "manifest"
                           \/ f = b /\ run[b].pc = "objects" /\ run[b].todo = {}
  BY RunFacts DEF SendObject, SendManifest, Goes, Standing
<1>2. UNCHANGED <<data, backups, target, remote>>
  BY DEF SendObject, SendManifest, BackupsRest
<1> DEFINE m1 == [run[b] EXCEPT !.pc = "upload"]
           m2 == [m1 EXCEPT !.sends = f]
<1>3. /\ m1 \in BackupRun /\ m1.pc = "upload" /\ m1.todo = run[b].todo /\ m1.mode = run[b].mode
      /\ m1.place = run[b].place /\ m1.holds = run[b].holds /\ m1.age = run[b].age /\ m1.excused = run[b].excused
  BY RunFacts DEF BackupRun, RunPoints
<1>4. run' = [run EXCEPT ![b] = m2]
  BY <1>1
<1> HIDE DEF m1
<1>5. /\ m2 \in BackupRun /\ m2.pc = "upload" /\ m2.todo = run[b].todo /\ m2.mode = run[b].mode /\ m2.sends = f
      /\ m2.place = run[b].place /\ m2.holds = run[b].holds /\ m2.age = run[b].age /\ m2.excused = run[b].excused
  BY <1>3 DEF BackupRun
<1> HIDE DEF m2
<1>6. PICK new \in BackupRun : new = m2
  BY <1>5
<1>7. /\ run' = [run EXCEPT ![b] = new] /\ new.pc = "upload" /\ new.todo = run[b].todo /\ new.mode = run[b].mode
      /\ new.sends = f /\ new.place = run[b].place /\ new.holds = run[b].holds /\ new.age = run[b].age
      /\ new.excused = run[b].excused /\ new.place \in Destinations /\ new.age <= data.age
  BY <1>1, <1>4, <1>5, <1>6, RunFacts
<1>8. /\ new.mode = "full" => new.sends = b
      /\ new.sends # b => new.sends \in BackupObjects
      /\ new.mode = "incremental" /\ new.sends = b => new.todo = {}
  BY <1>1, <1>7, BackupAssumption DEF BackupInv, RunPlaces
<1>9. ~new.excused /\ new.mode = "incremental" => \A o \in new.holds \ new.todo : remote[new.place][o] = "whole"
  <2>1. ~run[b].excused /\ run[b].mode = "incremental" =>
          \A o \in run[b].holds \ run[b].todo : remote[run[b].place][o] = "whole"
    BY <1>1 DEF BackupInv, RunSent, RunPlaces
  <2> QED BY <1>7, <2>1
<1>10. target.lease = b => \A i \in DOMAIN backups : backups[i].age <= new.age
  BY <1>1, <1>7 DEF BackupInv, AgesInOrder
<1> QED BY <1>2, <1>7, <1>8, <1>9, <1>10, RunReads

\* The server has the file: it is whole, and none that was whole changes.
LEMMA UploadKeeps == ASSUME BackupInv, NEW b \in BackupRuns, Upload(b) PROVE BackupInv'
<1> DEFINE p == run[b].place
           f == run[b].sends
<1>1. /\ run[b].pc = "upload" /\ remote[p][f] # "broken" /\ UNCHANGED <<data, backups, target>>
      /\ remote' = [remote EXCEPT ![p][f] = IF @ = "absent" THEN "whole" ELSE @]
      /\ run' = [run EXCEPT ![b] = IF f = b THEN [run[b] EXCEPT !.pc = "record"]
               ELSE [run[b] EXCEPT !.pc = "objects", !.todo = @ \ {f}, !.sends = NoRun]]
  BY DEF Upload, Goes, BackupsRest, Standing, There, Stored
<1>2. /\ p \in Destinations /\ f \in Files /\ remote \in [Destinations -> [Files -> {"absent", "whole", "broken"}]]
      /\ run[b] \in BackupRun /\ run[b].todo \subseteq BackupObjects
  BY <1>1, RunFacts DEF BackupInv, RunPlaces
<1>3. /\ remote' \in [Destinations -> [Files -> {"absent", "whole", "broken"}]] /\ remote'[p][f] = "whole"
      /\ \A q \in Destinations, g \in Files : remote[q][g] = "whole" => remote'[q][g] = "whole"
  BY <1>1, <1>2
<1>4. PICK new \in BackupRun :
        /\ run' = [run EXCEPT ![b] = new]
        /\ new.place = p /\ new.mode = run[b].mode /\ new.holds = run[b].holds /\ new.age = run[b].age
        /\ new.excused = run[b].excused
        /\ \/ f = b /\ new.pc = "record" /\ new.todo = run[b].todo /\ new.sends = b
           \/ f # b /\ new.pc = "objects" /\ new.todo = run[b].todo \ {f}
  <2>1. CASE f = b
    <3> DEFINE moved == [run[b] EXCEPT !.pc = "record"]
    <3>1. /\ moved \in BackupRun /\ moved.place = p /\ moved.mode = run[b].mode /\ moved.holds = run[b].holds
          /\ moved.age = run[b].age /\ moved.excused = run[b].excused /\ moved.pc = "record"
          /\ moved.todo = run[b].todo /\ moved.sends = f
      BY <1>2 DEF BackupRun, RunPoints
    <3>2. run' = [run EXCEPT ![b] = moved]
      BY <1>1, <2>1
    <3> HIDE DEF moved, p, f
    <3> QED BY <2>1, <3>1, <3>2
  <2>2. CASE f # b
    <3> DEFINE m1 == [run[b] EXCEPT !.pc = "objects"]
               m2 == [m1 EXCEPT !.todo = run[b].todo \ {f}]
               m3 == [m2 EXCEPT !.sends = NoRun]
    <3>1. run' = [run EXCEPT ![b] = m3]
      <4>1. m3 = [run[b] EXCEPT !.pc = "objects", !.todo = @ \ {f}, !.sends = NoRun]
        BY <1>2 DEF BackupRun
      <4> QED BY <1>1, <2>2, <4>1
    <3>2. /\ m1 \in BackupRun /\ m1.place = p /\ m1.mode = run[b].mode /\ m1.holds = run[b].holds
          /\ m1.age = run[b].age /\ m1.excused = run[b].excused /\ m1.pc = "objects"
      BY <1>2 DEF BackupRun, RunPoints
    <3> HIDE DEF m1
    <3>3. /\ m2 \in BackupRun /\ m2.place = p /\ m2.mode = run[b].mode /\ m2.holds = run[b].holds
          /\ m2.age = run[b].age /\ m2.excused = run[b].excused /\ m2.pc = "objects" /\ m2.todo = run[b].todo \ {f}
      BY <1>2, <3>2 DEF BackupRun
    <3> HIDE DEF m2
    <3>4. /\ m3 \in BackupRun /\ m3.place = p /\ m3.mode = run[b].mode /\ m3.holds = run[b].holds
          /\ m3.age = run[b].age /\ m3.excused = run[b].excused /\ m3.pc = "objects" /\ m3.todo = run[b].todo \ {f}
      BY <3>3 DEF BackupRun
    <3> HIDE DEF m3, p, f
    <3> QED BY <2>2, <3>1, <3>4
  <2> QED BY <2>1, <2>2
<1>5. /\ new.place \in Destinations /\ new.age <= data.age /\ run[b].mode \in {"incremental", "full"}
      /\ (run[b].mode = "full" => f = b) /\ (run[b].mode = "incremental" /\ f = b => run[b].todo = {})
  BY <1>1, <1>2, <1>4, RunFacts DEF BackupInv, RunPlaces
<1>6. ~run[b].excused /\ run[b].mode = "incremental" =>
        \A o \in run[b].holds \ run[b].todo : o \in Files /\ remote[p][o] = "whole"
  BY <1>1, <1>2, RunFacts DEF BackupInv, RunSent
<1>7. ~new.excused =>
             /\ new.mode = "incremental" /\ new.pc \in {"objects", "upload", "record"} =>
                   \A o \in new.holds \ new.todo : remote'[new.place][o] = "whole"
             /\ new.pc = "record" => remote'[new.place][b] = "whole"
  BY <1>2, <1>3, <1>4, <1>6
<1>8. /\ target' \in [place : Destinations \cup {"none"}, lease : BackupRuns \cup {NoRun}, live : BOOLEAN]
      /\ \A c \in BackupRuns : c # b /\ target'.lease = c => target.lease = c
  BY <1>1, RunFacts
<1>9. target'.lease = b => \A i \in DOMAIN backups : backups[i].age <= new.age
  BY <1>1, <1>4 DEF BackupInv, AgesInOrder
<1>10. /\ new.mode = "full" => new.pc \notin {"objects", "previous"}
       /\ new.mode = "incremental" => new.pc # "manifest"
       /\ new.pc \in {"upload", "record"} => new.sends \in Files
       /\ new.pc # "upload"
       /\ new.mode = "incremental" /\ new.pc = "record" => new.todo = {}
  BY <1>2, <1>4, <1>5
<1>11. /\ run' = [run EXCEPT ![b] = new] /\ UNCHANGED <<data, backups>>
       /\ remote' \in [Destinations -> [Files -> {"absent", "whole", "broken"}]]
       /\ \A q \in Destinations, g \in Files : remote[q][g] = "whole" => remote'[q][g] = "whole"
       /\ new.place \in Destinations /\ new.age <= data.age
  BY <1>1, <1>3, <1>4, <1>5
<1> HIDE DEF p, f
<1> QED BY <1>7, <1>8, <1>9, <1>10, <1>11, RunMoves

\* A request that failed, a run with nothing to record, an error, the end and a crash.
LEMMA EndKeeps ==
    ASSUME BackupInv, NEW b \in BackupRuns,
           UploadFails(b) \/ Unchanged(b) \/ RunFails(b) \/ FinishRun(b) \/ RunDies(b)
    PROVE  BackupInv'
<1>1. UNCHANGED <<data, backups>>
  BY DEF UploadFails, Unchanged, RunFails, FinishRun, RunDies, BackupsRest
<1> DEFINE finished == [run[b] EXCEPT !.pc = "finish"]
<1>2. finished \in BackupRun /\ finished.pc = "finish" /\ finished.age = run[b].age
  BY RunFacts DEF BackupRun, RunPoints
<1>3. run' = [run EXCEPT ![b] = finished] \/ run' = [run EXCEPT ![b] = Ends(b)]
  BY DEF UploadFails, Unchanged, RunFails, FinishRun, RunDies, Goes
<1> HIDE DEF finished
<1>4. PICK new \in BackupRun : run' = [run EXCEPT ![b] = new] /\ new.pc \in {"finish", "over"} /\ new.age <= data.age
  <2>1. finished.age <= data.age /\ Ends(b).age <= data.age
    BY <1>2, NotStartedType, RunFacts
  <2> QED BY <1>2, <1>3, <2>1, NotStartedType
<1>5. /\ target' \in [place : Destinations \cup {"none"}, lease : BackupRuns \cup {NoRun}, live : BOOLEAN]
      /\ \A c \in BackupRuns : c # b /\ target'.lease = c => target.lease = c
  <2>1. target' = target \/ target' = [target EXCEPT !.lease = NoRun, !.live = FALSE]
    BY DEF UploadFails, Unchanged, RunFails, FinishRun, RunDies
  <2>2. CASE target' = [target EXCEPT !.lease = NoRun, !.live = FALSE]
    <3> DEFINE m1 == [target EXCEPT !.lease = NoRun]
    <3>1. m1 \in [place : Destinations \cup {"none"}, lease : BackupRuns \cup {NoRun}, live : BOOLEAN] /\ m1.lease = NoRun
      BY RunFacts
    <3>2. target' = [m1 EXCEPT !.live = FALSE]
      BY <2>2
    <3> HIDE DEF m1
    <3> QED BY <3>1, <3>2, BackupAssumption
  <2> QED BY <2>1, <2>2, RunFacts
<1>6. /\ remote' \in [Destinations -> [Files -> {"absent", "whole", "broken"}]]
      /\ \A p \in Destinations, f \in Files : remote[p][f] = "whole" => remote'[p][f] = "whole"
  <2>1. CASE UploadFails(b)
    <3>1. PICK kept \in {"absent", "whole", "broken"} :
             remote' = [remote EXCEPT ![run[b].place][run[b].sends] = IF @ = "absent" THEN kept ELSE @]
      BY <2>1 DEF UploadFails
    <3>2. run[b].pc = "upload"
      BY <2>1 DEF UploadFails, Standing
    <3>3. run[b].place \in Destinations /\ run[b].sends \in Files
      BY <3>2, RunFacts DEF BackupInv, RunPlaces
    <3> QED BY <3>1, <3>3, RunFacts
  <2>2. CASE ~UploadFails(b)
    <3>1. remote' = remote
      BY <2>2 DEF Unchanged, RunFails, FinishRun, RunDies
    <3> QED BY <3>1, RunFacts
  <2> QED BY <2>1, <2>2
<1> QED BY <1>1, <1>4, <1>5, <1>6, RunEnds

(* The row is inserted under the lease: what it needs was seen or sent, and its data is *)
(* as new as that of every row there is.                                                *)
LEMMA RecordKeeps == ASSUME BackupInv, NEW b \in BackupRuns, RecordBackup(b) PROVE BackupInv'
<1> DEFINE added == [id |-> b, mode |-> run[b].mode, place |-> run[b].place,
                     holds |-> run[b].holds, age |-> run[b].age, excused |-> run[b].excused]
<1>1. /\ run[b].pc = "record" /\ target.lease = b /\ backups' = Append(backups, added)
      /\ run' = [run EXCEPT ![b] = [run[b] EXCEPT !.pc = "finish"]] /\ UNCHANGED <<data, target, remote>>
  BY DEF RecordBackup, HoldsLease, Goes, Standing
<1>2. added \in BackupRow /\ run[b].place \in Destinations
  BY <1>1, RunFacts DEF BackupRow
<1>3. /\ backups' \in Seq(BackupRow) /\ DOMAIN backups' = DOMAIN backups \cup {Len(backups) + 1}
      /\ backups'[Len(backups) + 1] = added /\ Len(backups) \in Nat /\ DOMAIN backups = 1..Len(backups)
      /\ \A i \in DOMAIN backups : backups'[i] = backups[i]
  <2> HIDE DEF added
  <2> QED BY <1>1, <1>2 DEF BackupInv, BackupTypeOK
<1>4. added.excused \/ Restorable(added)
  <2>1. run[b].mode = "incremental" => run[b].todo = {}
    BY <1>1 DEF BackupInv, RunPlaces
  <2>2. ~run[b].excused =>
           /\ run[b].mode = "incremental" => \A o \in run[b].holds : remote[run[b].place][o] = "whole"
           /\ remote[run[b].place][b] = "whole"
    BY <1>1, <2>1 DEF BackupInv, RunSent
  <2> QED BY <2>2 DEF Restorable
<1>5. added.age <= data.age /\ \A i \in DOMAIN backups : backups[i].age <= added.age
  BY <1>1, RunFacts DEF BackupInv, AgesInOrder
<1> DEFINE finished == [run[b] EXCEPT !.pc = "finish"]
<1>6. finished \in BackupRun /\ finished.pc = "finish" /\ finished.age <= data.age
  BY RunFacts DEF BackupRun, RunPoints
<1>7. run' = [run EXCEPT ![b] = finished]
  BY <1>1
<1> HIDE DEF finished
<1>8. PICK new \in BackupRun : /\ new.pc = "finish" /\ new.age <= data.age
                              /\ run' \in [BackupRuns -> BackupRun]
                              /\ \A c \in BackupRuns : run'[c] = IF c = b THEN new ELSE run[c]
  BY <1>6, <1>7 DEF BackupInv, BackupTypeOK
<1>9. BackupTypeOK'
  BY <1>1, <1>3, <1>8 DEF BackupInv, BackupTypeOK
<1>10. RunPlaces' /\ RunSent'
  BY <1>1, <1>8 DEF BackupInv, RunPlaces, RunSent
<1>11. AgesInOrder'
  <2>1. \A i \in DOMAIN backups' : backups'[i].age <= data.age
    BY <1>3, <1>5 DEF BackupInv, AgesInOrder
  <2>2. \A i \in DOMAIN backups' : \A j \in 1..i : backups'[j].age <= backups'[i].age
    <3> SUFFICES ASSUME NEW i \in DOMAIN backups', NEW j \in 1..i PROVE backups'[j].age <= backups'[i].age
      OBVIOUS
    <3>1. CASE i \in DOMAIN backups
      <4>1. j \in DOMAIN backups
        BY <1>3, <3>1
      <4> QED BY <1>3, <3>1, <4>1 DEF BackupInv, AgesInOrder
    <3>2. CASE i = Len(backups) + 1
      <4>1. added.age \in Nat
        BY <1>2 DEF BackupRow
      <4>2. j = i \/ j \in DOMAIN backups
        BY <1>3, <3>2
      <4> HIDE DEF added
      <4> QED BY <1>3, <1>5, <3>2, <4>1, <4>2
    <3> QED BY <1>3, <3>1, <3>2
  <2>3. \A c \in BackupRuns : /\ run'[c].age <= data.age
                              /\ target.lease = c => run'[c].pc = "finish"
    BY <1>1, <1>8 DEF BackupInv, AgesInOrder
  <2> QED BY <1>1, <2>1, <2>2, <2>3 DEF AgesInOrder
<1>12. \A i \in DOMAIN backups' : backups'[i].excused \/ Restorable(backups'[i])
  <2> HIDE DEF added
  <2> QED BY <1>3, <1>4 DEF BackupInv
<1>13. \A i \in DOMAIN backups' : backups'[i].excused \/ Restorable(backups[i])'
  BY <1>1, <1>12 DEF Restorable
<1> QED BY <1>9, <1>10, <1>11, <1>13 DEF BackupInv

\* The target is saved or removed, its lease expires.
LEMMA TargetKeeps ==
    ASSUME BackupInv, UNCHANGED <<data, backups, remote, run>>,
           target' \in [place : Destinations \cup {"none"}, lease : BackupRuns \cup {NoRun}, live : BOOLEAN],
           target'.lease \in {target.lease, NoRun}
    PROVE  BackupInv'
<1>1. \A b \in BackupRuns : target'.lease = b => target.lease = b
  BY BackupAssumption
<1> QED BY <1>1 DEF BackupInv, BackupTypeOK, RunPlaces, RunSent, AgesInOrder, Restorable

LEMMA OwnerKeeps == ASSUME BackupInv, SaveTarget \/ RemoveTarget \/ LeaseExpires PROVE BackupInv'
<1>1. UNCHANGED <<data, backups, remote, run>>
  BY DEF SaveTarget, RemoveTarget, LeaseExpires
<1>2. target \in [place : Destinations \cup {"none"}, lease : BackupRuns \cup {NoRun}, live : BOOLEAN]
  BY DEF BackupInv, BackupTypeOK
<1>3. CASE SaveTarget
  <2>1. PICK p \in Destinations : target' = [target EXCEPT !.place = p]
    BY <1>3 DEF SaveTarget
  <2> QED BY <1>1, <1>2, <2>1, TargetKeeps
<1>4. CASE RemoveTarget
  <2>1. target' = [place |-> "none", lease |-> NoRun, live |-> FALSE]
    BY <1>4 DEF RemoveTarget
  <2> QED BY <1>1, <2>1, TargetKeeps
<1>5. CASE LeaseExpires
  <2>1. target' = [target EXCEPT !.live = FALSE]
    BY <1>5 DEF LeaseExpires
  <2> QED BY <1>1, <1>2, <2>1, TargetKeeps
<1> QED BY <1>3, <1>4, <1>5

\* The user's data changes and is newer than before.
LEMMA EditKeeps == ASSUME BackupInv, EditData PROVE BackupInv'
<1>1. PICK objects \in SUBSET BackupObjects : data' = [objects |-> objects, age |-> data.age + 1]
  BY DEF EditData
<1>2. UNCHANGED <<target, remote, backups, run>> /\ data.age \in Nat
  BY RunFacts DEF EditData, BackupInv, BackupTypeOK
<1>3. \A b \in BackupRuns : run[b].age \in Nat
  BY RunFacts
<1>4. \A i \in DOMAIN backups : backups[i].age \in Nat
  <2>1. \A i \in DOMAIN backups : backups[i] \in BackupRow
    BY DEF BackupInv, BackupTypeOK
  <2> QED BY <2>1 DEF BackupRow
<1>5. AgesInOrder'
  BY <1>1, <1>2, <1>3, <1>4 DEF BackupInv, AgesInOrder
<1> QED BY <1>1, <1>2, <1>5 DEF BackupInv, BackupTypeOK, RunPlaces, RunSent, Restorable

\* A file disappears: whoever needs it is excused, the others do not need it.
LEMMA LossKeeps == ASSUME BackupInv, FileLost PROVE BackupInv'
<1>1. PICK p \in Destinations, f \in Files :
        /\ remote' = [remote EXCEPT ![p][f] = "absent"]
        /\ backups' = [i \in DOMAIN backups |->
                [backups[i] EXCEPT !.excused = @ \/ (backups[i].place = p
                    /\ Needs(backups[i].id, backups[i].mode, backups[i].holds, f))]]
        /\ run' = [b \in BackupRuns |->
                [run[b] EXCEPT !.excused = @ \/ (run[b].place = p /\ run[b].pc \in {"objects", "upload", "record"}
                    /\ Needs(b, run[b].mode, run[b].holds \ run[b].todo, f))]]
        /\ UNCHANGED <<data, target>>
  BY DEF FileLost
<1>2. /\ remote' \in [Destinations -> [Files -> {"absent", "whole", "broken"}]]
      /\ \A q \in Destinations, g \in Files : remote'[q][g] = IF q = p /\ g = f THEN "absent" ELSE remote[q][g]
  BY <1>1 DEF BackupInv, BackupTypeOK
<1> DEFINE lost(b) == run[b].place = p /\ run[b].pc \in {"objects", "upload", "record"}
                        /\ Needs(b, run[b].mode, run[b].holds \ run[b].todo, f)
           gone(i) == backups[i].place = p /\ Needs(backups[i].id, backups[i].mode, backups[i].holds, f)
<1>3. ASSUME NEW b \in BackupRuns
      PROVE  /\ run'[b] \in BackupRun /\ (run'[b].excused <=> run[b].excused \/ lost(b))
             /\ run'[b].pc = run[b].pc /\ run'[b].mode = run[b].mode /\ run'[b].place = run[b].place
             /\ run'[b].holds = run[b].holds /\ run'[b].age = run[b].age /\ run'[b].todo = run[b].todo
             /\ run'[b].sends = run[b].sends
  <2>1. PICK e \in BOOLEAN : e <=> run[b].excused \/ lost(b)
    OBVIOUS
  <2>2. run[b] \in BackupRun /\ run[b].excused \in BOOLEAN
    BY RunFacts
  <2>3. run'[b] = [run[b] EXCEPT !.excused = e]
    <3>1. (run[b].excused \/ lost(b)) = e
      BY <2>1, <2>2
    <3>2. run'[b] = [run[b] EXCEPT !.excused = (run[b].excused \/ lost(b))]
      BY <1>1
    <3> QED BY <3>1, <3>2
  <2> HIDE DEF lost
  <2> QED BY <2>1, <2>2, <2>3 DEF BackupRun
<1>13. ASSUME NEW b \in BackupRuns, ~run'[b].excused
       PROVE  ~run[b].excused /\ (run[b].place = p /\ run[b].pc \in {"objects", "upload", "record"}
                                     => ~Needs(b, run[b].mode, run[b].holds \ run[b].todo, f))
  BY <1>3, <1>13
<1> HIDE DEF lost
<1>4. backups \in Seq(BackupRow) /\ \A i \in DOMAIN backups : backups[i] \in BackupRow
  BY DEF BackupInv, BackupTypeOK
<1>5. DOMAIN backups' = DOMAIN backups
  BY <1>1
<1>6. ASSUME NEW i \in DOMAIN backups
      PROVE  /\ backups'[i] \in BackupRow /\ (backups'[i].excused <=> backups[i].excused \/ gone(i))
             /\ backups'[i].id = backups[i].id /\ backups'[i].mode = backups[i].mode
             /\ backups'[i].place = backups[i].place /\ backups'[i].holds = backups[i].holds
             /\ backups'[i].age = backups[i].age
  <2>1. PICK e \in BOOLEAN : e <=> backups[i].excused \/ gone(i)
    OBVIOUS
  <2>2. backups[i] \in BackupRow
    BY <1>4
  <2>3. backups[i].excused \in BOOLEAN
    BY <2>2 DEF BackupRow
  <2>4. backups'[i] = [backups[i] EXCEPT !.excused = e]
    <3>1. (backups[i].excused \/ gone(i)) = e
      BY <2>1, <2>3
    <3>2. backups'[i] = [backups[i] EXCEPT !.excused = (backups[i].excused \/ gone(i))]
      BY <1>1
    <3> QED BY <3>1, <3>2
  <2> HIDE DEF gone
  <2> QED BY <2>1, <2>2, <2>4 DEF BackupRow
<1>7. backups' \in Seq(BackupRow)
  <2>1. PICK n \in Nat : n = Len(backups) /\ DOMAIN backups = 1..n
    BY <1>4
  <2>2. backups' \in [1..n -> BackupRow]
    <3>1. \A i \in 1..n : backups'[i] \in BackupRow
      BY <1>6, <2>1
    <3>2. \E g : backups' = [i \in 1..n |-> g[i]]
      <4> DEFINE g == backups'
      <4>1. backups' = [i \in 1..n |-> backups'[i]]
        BY <1>1, <2>1
      <4> QED BY <4>1
    <3> QED BY <3>1, <3>2
  <2> QED BY <2>2
<1>8. BackupTypeOK'
  <2>1. run' \in [BackupRuns -> BackupRun]
    BY <1>1, <1>3
  <2> QED BY <1>1, <1>2, <1>3, <1>7, <2>1 DEF BackupInv, BackupTypeOK
<1>14. \A b \in BackupRuns : /\ run'[b].pc = run[b].pc /\ run'[b].mode = run[b].mode
                              /\ run'[b].place = run[b].place /\ run'[b].holds = run[b].holds
                              /\ run'[b].todo = run[b].todo /\ run'[b].sends = run[b].sends
  BY <1>3
<1>9. RunPlaces'
  <2>1. RunPlaces
    BY DEF BackupInv
  <2> QED BY <2>1, <1>14 DEF RunPlaces
<1>10. RunSent'
  <2> SUFFICES ASSUME NEW b \in BackupRuns, ~run'[b].excused
               PROVE  /\ run'[b].mode = "incremental" /\ run'[b].pc \in {"objects", "upload", "record"} =>
                            \A o \in run'[b].holds \ run'[b].todo : remote'[run'[b].place][o] = "whole"
                      /\ run'[b].pc = "record" => remote'[run'[b].place][b] = "whole"
    BY DEF RunSent
  <2>1. ~run[b].excused /\ (run[b].place = p /\ run[b].pc \in {"objects", "upload", "record"}
                               => ~Needs(b, run[b].mode, run[b].holds \ run[b].todo, f))
    BY <1>13
  <2>2. /\ run[b].mode = "incremental" /\ run[b].pc \in {"objects", "upload", "record"} =>
              \A o \in run[b].holds \ run[b].todo : remote[run[b].place][o] = "whole"
        /\ run[b].pc = "record" => remote[run[b].place][b] = "whole"
    BY <2>1 DEF BackupInv, RunSent
  <2>3. run[b].pc \in {"objects", "upload", "record"} => run[b].place \in Destinations
    BY RunFacts
  <2>4. run[b].holds \subseteq Files /\ b \in Files
    BY RunFacts
  <2>5. /\ run[b].mode = "incremental" /\ run[b].pc \in {"objects", "upload", "record"} =>
              \A o \in run[b].holds \ run[b].todo : remote'[run[b].place][o] = "whole"
        /\ run[b].pc = "record" => remote'[run[b].place][b] = "whole"
    BY <1>2, <2>1, <2>2, <2>3, <2>4 DEF Needs
  <2> QED BY <1>14, <2>5
<1>11. AgesInOrder'
  <2>1. data' = data /\ target' = target
    BY <1>1
  <2>2. \A i \in DOMAIN backups : \A j \in 1..i : j \in DOMAIN backups
    BY <1>4
  <2> QED BY <1>3, <1>5, <1>6, <2>1, <2>2 DEF BackupInv, AgesInOrder
<1>12. ASSUME NEW i \in DOMAIN backups, ~backups'[i].excused PROVE Restorable(backups[i])'
  <2>1. ~Needs(backups[i].id, backups[i].mode, backups[i].holds, f) \/ backups[i].place # p
    BY <1>6, <1>12
  <2>2. Restorable(backups[i])
    BY <1>6, <1>12 DEF BackupInv
  <2>3. backups[i].place \in Destinations /\ backups[i].holds \subseteq Files /\ backups[i].id \in Files
    <3>1. backups[i] \in BackupRow
      BY <1>4
    <3> QED BY <3>1 DEF BackupRow, Files
  <2>4. /\ remote'[backups[i].place][backups[i].id] = "whole"
        /\ backups[i].mode = "incremental" => \A o \in backups[i].holds : remote'[backups[i].place][o] = "whole"
    BY <1>2, <2>1, <2>2, <2>3 DEF Restorable, Needs
  <2>5. /\ backups'[i].id = backups[i].id /\ backups'[i].mode = backups[i].mode
        /\ backups'[i].place = backups[i].place /\ backups'[i].holds = backups[i].holds
    BY <1>6
  <2> QED BY <2>4, <2>5 DEF Restorable
<1> QED BY <1>5, <1>8, <1>9, <1>10, <1>11, <1>12 DEF BackupInv

\* Every step of the backups keeps the invariant.
LEMMA BackupInvKept == BackupInv /\ [BackupNext]_backupVars => BackupInv'
<1> SUFFICES ASSUME BackupInv, [BackupNext]_backupVars PROVE BackupInv'
  OBVIOUS
<1>1. CASE UNCHANGED backupVars
  BY <1>1 DEF backupVars, BackupInv, BackupTypeOK, RunPlaces, RunSent, AgesInOrder, Restorable
<1>2. ASSUME NEW b \in BackupRuns, RunStep(b) PROVE BackupInv'
  BY <1>2, ClaimKeeps, ExportKeeps, PreviousKeeps, ConfirmKeeps, SendKeeps, UploadKeeps, EndKeeps, RecordKeeps
     DEF RunStep
<1> QED BY <1>1, <1>2, OwnerKeeps, EditKeeps, LossKeeps DEF BackupNext

(* For any number of runs, objects and destinations, through leases that expire, lost   *)
(* answers and crashes: a backup in the history can be restored unless a file it needs  *)
(* disappeared after the run had seen or sent it, and later rows hold later data.       *)
THEOREM HistoryRestorable == BackupSpec => []BackupsRestorable
<1>1. BackupInit => BackupInv
  <2> SUFFICES ASSUME BackupInit PROVE BackupInv
    OBVIOUS
  <2>1. run \in [BackupRuns -> BackupRun] /\ \A b \in BackupRuns : run[b] = NotStarted
    BY NotStartedType DEF BackupInit
  <2>2. BackupTypeOK
    BY <2>1, NotStartedType DEF BackupInit, BackupTypeOK
  <2>3. RunPlaces /\ RunSent
    BY <2>1, NotStartedType DEF RunPlaces, RunSent
  <2>4. AgesInOrder
    BY <2>1, NotStartedType DEF BackupInit, AgesInOrder
  <2> QED BY <2>2, <2>3, <2>4 DEF BackupInit, BackupInv
<1>2. BackupInv => BackupsRestorable
  BY DEF BackupInv, AgesInOrder, BackupsRestorable
<1> QED BY <1>1, <1>2, BackupInvKept, PTL DEF BackupSpec
=============================================================================
