---------------------------- MODULE LinkedRecords ---------------------------
(***************************************************************************)
(* Records joined by link rows: notes and their tags (notes/index.ts), items *)
(* and their categories (assets/index.ts), written by several pages of one   *)
(* user while the sync service applies rows of other servers.  A page shows  *)
(* a note with its links, or a tag with its links, and presents the hash of  *)
(* all these rows when it writes.  A write is a transaction of several       *)
(* statements, each of which sees what is committed when it runs; what may   *)
(* happen between them the locks decide: of the tables against the cycle, of *)
(* the user's set of records, of the parent row against a foreign key check. *)
(* What is said of a note holds of an item, what is said of a tag of a       *)
(* category, but for the actions that name one.                              *)
(***************************************************************************)
EXTENDS WriteFence, Integers, Sequences, FiniteSets

CONSTANTS
    Notes,          \* note ids
    TagNames,       \* tag names
    NotePages,      \* open pages
    LinkApps,       \* the apps looked at, among "notes" and "assets"
    MaxText,        \* bound: versions of one row's columns
    MaxTagRows      \* bound: tags ever created

ASSUME LinkedAssumption ==
    MaxText \in Nat /\ MaxTagRows \in Nat /\ LinkApps \subseteq {"notes", "assets"}

VARIABLES
    app,            \* the app whose records these are
    text,           \* version of a note's own columns, 0 when it does not exist
    tagRow,         \* tags by id: the name, and the version, 0 once the row is gone
    link,           \* note_tags: pairs <<note, tag id>>
    notePage,       \* what a page shows, the statement its transaction stands at, what
                    \* that has read, and whether a hash was presented
    posting,        \* items that POST has inserted and not committed, with their categories
    theirs,         \* history: rows the sync service wrote since the binding is fenced
    blind           \* history: a write erased rows that its page should have shown

linkedVars == <<fenced, app, text, tagRow, link, notePage, posting, theirs, blind>>

Present == {n \in Notes : text[n] # 0}
TagIds == {i \in DOMAIN tagRow : tagRow[i].version # 0}
LinksOf(n) == {l \in link : l[1] = n}
LinksTo(i) == {l \in link : l[2] = i}

\* A record as a page shows it or a transaction reads it; its parent row is the pair
\* <<note, tag>>, of which one is 0, and a link the pair of both.
View == [note : Notes \cup {0}, tag : Nat, own : Nat, links : SUBSET (Notes \X Nat)]
ASSUME HashAssumption == NoHash \notin View /\ 0 \notin Notes

NoteView(n) == [note |-> n, tag |-> 0, own |-> text[n], links |-> LinksOf(n)]
TagView(i) == [note |-> 0, tag |-> i, own |-> tagRow[i].version, links |-> LinksTo(i)]
ViewNow(view) == IF view.tag = 0 THEN NoteView(view.note) ELSE TagView(view.tag)
ParentThere(view) == IF view.tag = 0 THEN view.note \in Present ELSE view.tag \in TagIds

NothingShown == [note |-> 0, tag |-> 0, own |-> 0, links |-> {}]
Closed == [step |-> "closed", view |-> NothingShown, proof |-> NothingShown, presents |-> FALSE]

\* editorBaseHash over the parent and its links.
NoteHash(view) == view

LinkedInit ==
    /\ fenced = FALSE
    /\ app \in LinkApps
    /\ text = [n \in Notes |-> 0]
    /\ tagRow = <<>>
    /\ link = {}
    /\ notePage = [p \in NotePages |-> Closed]
    /\ posting = {} /\ theirs = {} /\ blind = FALSE

-----------------------------------------------------------------------------
Open(p, view) ==
    /\ notePage[p].step = "closed"
    /\ notePage' = [notePage EXCEPT ![p] = [Closed EXCEPT !.step = "shown", !.view = view]]
    /\ UNCHANGED <<fenced, app, text, tagRow, link, posting, theirs, blind>>

OpenNote(p, n) == app = "notes" /\ n \in Present /\ Open(p, NoteView(n))
OpenItem(p, n) == app = "assets" /\ n \in Present /\ Open(p, NoteView(n))
OpenTag(p, i) == app = "notes" /\ i \in TagIds /\ Open(p, TagView(i))
OpenCategory(p, i) == app = "assets" /\ i \in TagIds /\ Open(p, TagView(i))

(* The transactions that have locked their tables and the user's records, and the    *)
(* tags they have locked (none, when a parent is read without FOR UPDATE).           *)
Inside == {p \in NotePages : notePage[p].step \in {"locked", "read", "judged"}}
TagsFree == {}
TagsHeld == {notePage[p].view.tag : p \in Inside}

(* INSERT ... SELECT of the owned tags; fewer rows than asked for roll the whole   *)
(* transaction back (422).                                                         *)
ReplaceTags(n, ids) ==
    /\ ids \subseteq TagIds
    /\ link' = (link \ LinksOf(n)) \cup {<<n, i>> : i \in ids}

Create(n, ids) ==
    /\ text[n] = 0
    /\ ReplaceTags(n, ids)
    /\ text' = [text EXCEPT ![n] = 1]
    /\ UNCHANGED <<fenced, app, tagRow, notePage, theirs, blind>>

CreateNote(n, ids) == app = "notes" /\ Inside = {} /\ Create(n, ids) /\ UNCHANGED posting

(* POST items takes none of these locks.  Its rows are seen when it commits; until    *)
(* then the foreign keys hold its categories, for which it waits while one is locked.  *)
PostItem(n, ids) ==
    /\ app = "assets" /\ text[n] = 0 /\ \A q \in posting : q.item # n
    /\ ids \subseteq TagIds /\ ids \cap TagsHeld = {}
    /\ posting' = posting \cup {[item |-> n, ids |-> ids]}
    /\ UNCHANGED <<fenced, app, text, tagRow, link, notePage, theirs, blind>>

CreateItem(q) == q \in posting /\ Create(q.item, q.ids) /\ posting' = posting \ {q}

(* SELECT ... FOR UPDATE of the parent, once the transactions that hold it are done,   *)
(* and then of its links.                                                              *)
LockParent(p) ==
    LET page == notePage[p]
    IN  /\ page.step = "shown" /\ Inside = {} /\ ParentThere(page.view)
        /\ \A q \in posting : page.view.tag \notin q.ids
        /\ notePage' = [notePage EXCEPT
               ![p] = [page EXCEPT !.step = "locked", !.proof = [ViewNow(page.view) EXCEPT !.links = {}]]]
        /\ UNCHANGED <<fenced, app, text, tagRow, link, posting, theirs, blind>>

ReadLinks(p) ==
    LET page == notePage[p]
    IN  /\ page.step = "locked"
        /\ notePage' = [notePage EXCEPT
               ![p] = [page EXCEPT !.step = "read", !.proof = [@ EXCEPT !.links = ViewNow(page.view).links]]]
        /\ UNCHANGED <<fenced, app, text, tagRow, link, posting, theirs, blind>>

\* The phase is read, and the hash of what the transaction has read compared.
Passes(p, presents) ==
    LET page == notePage[p]
    IN  /\ page.step = "read"
        /\ Presented(IF presents THEN NoteHash(page.view) ELSE NoHash, NoteHash(page.proof))
        /\ notePage' = [notePage EXCEPT
               ![p] = [page EXCEPT !.step = "judged", !.proof = NothingShown, !.presents = presents]]
        /\ UNCHANGED <<fenced, app, text, tagRow, link, posting, theirs, blind>>

(* The write and its commit.  It had to show what it erases if it presented a hash;    *)
(* with or without one, what the sync service wrote.                                   *)
Erases(p, rows) ==
    LET view == notePage[p].view
        shown == view.links \cup (IF view.own = ViewNow(view).own THEN {<<view.note, view.tag>>} ELSE {})
    IN  /\ notePage[p].step = "judged"
        /\ blind' = (blind \/ (rows \cap (IF notePage[p].presents THEN rows ELSE theirs)) \ shown # {})
        /\ theirs' = theirs \ rows
        /\ notePage' = [notePage EXCEPT ![p] = Closed]

\* A save of the columns, of the tags, or of both.
PatchNote(p, columns, tags) ==
    LET n == notePage[p].view.note
    IN /\ notePage[p].view.tag = 0
       /\ Erases(p, (IF columns THEN {<<n, 0>>} ELSE {}) \cup (IF tags THEN LinksOf(n) ELSE {}))
       /\ IF columns THEN text[n] < MaxText /\ text' = [text EXCEPT ![n] = @ + 1]
                     ELSE UNCHANGED text
       /\ IF tags THEN \E ids \in SUBSET DOMAIN tagRow : ReplaceTags(n, ids)
                  ELSE UNCHANGED link
       /\ UNCHANGED <<fenced, app, tagRow, posting>>

DeleteNote(p) ==
    LET n == notePage[p].view.note
    IN /\ notePage[p].view.tag = 0
       /\ Erases(p, {<<n, 0>>} \cup LinksOf(n))
       /\ text' = [text EXCEPT ![n] = 0]
       /\ link' = link \ LinksOf(n)
       /\ UNCHANGED <<fenced, app, tagRow, posting>>

DropTag(p) ==
    LET i == notePage[p].view.tag
    IN /\ i # 0
       /\ Erases(p, {<<0, i>>} \cup LinksTo(i))
       /\ tagRow' = [tagRow EXCEPT ![i].version = 0]
       /\ link' = link \ LinksTo(i)
       /\ UNCHANGED <<fenced, app, text, posting>>

DeleteTag(p) == app = "notes" /\ DropTag(p)
DeleteCategory(p) == app = "assets" /\ DropTag(p)

\* 404, 409 or 422 at any statement: nothing is written and the page is left.
ClosePage(p) ==
    /\ notePage[p].step \in {"shown", "locked", "read", "judged"}
    /\ notePage' = [notePage EXCEPT ![p] = Closed]
    /\ UNCHANGED <<fenced, app, text, tagRow, link, posting, theirs, blind>>

NamedTag(name) == {i \in TagIds : tagRow[i].name = name}

InsertTag(name) ==
    /\ NamedTag(name) = {} /\ Len(tagRow) < MaxTagRows
    /\ tagRow' = Append(tagRow, [name |-> name, version |-> 1])
    /\ UNCHANGED <<fenced, app, text, link, notePage, posting, theirs, blind>>

(* POST tags: an INSERT that a tag of that name absorbs, and then a SELECT of it in a  *)
(* statement of its own; the tag may be gone by then (500).  Neither takes the locks.  *)
CreateTag(p, name) ==
    /\ app = "notes"
    /\ \/ InsertTag(name)
       \/ /\ notePage[p].step = "closed" /\ NamedTag(name) # {}
          /\ notePage' = [notePage EXCEPT ![p].step = "find"]
          /\ UNCHANGED <<fenced, app, text, tagRow, link, posting, theirs, blind>>

FindTag(p) ==
    /\ notePage[p].step = "find"
    /\ notePage' = [notePage EXCEPT ![p] = Closed]
    /\ UNCHANGED <<fenced, app, text, tagRow, link, posting, theirs, blind>>

\* POST categories: the unique name refuses a second one (422).
CreateCategory(name) == app = "assets" /\ InsertTag(name)

\* PATCH categories: a name that another category has is refused (422).
PatchCategory(p, name) ==
    LET i == notePage[p].view.tag
    IN /\ app = "assets" /\ i # 0
       /\ Erases(p, {<<0, i>>})
       /\ NamedTag(name) \subseteq {i} /\ tagRow[i].version < MaxText
       /\ tagRow' = [tagRow EXCEPT ![i] = [name |-> name, version |-> @.version + 1]]
       /\ UNCHANGED <<fenced, app, text, link, posting>>

-----------------------------------------------------------------------------
(* The cycle applies a row of another server, a note, one link, a deletion, when no   *)
(* request holds the tables.                                                          *)
TablesFree == Inside = {} /\ posting = {}
ApplyRow ==
    /\ fenced /\ TablesFree
    /\ \/ \E n \in Notes : /\ text[n] < MaxText
                           /\ text' = [text EXCEPT ![n] = @ + 1] /\ theirs' = theirs \cup {<<n, 0>>}
                           /\ UNCHANGED <<tagRow, link>>
       \/ \E n \in Present : /\ text' = [text EXCEPT ![n] = 0]
                             /\ link' = link \ LinksOf(n)
                             /\ UNCHANGED <<tagRow, theirs>>
       \/ \E n \in Present, i \in TagIds :
             /\ link' = IF <<n, i>> \in link THEN link \ {<<n, i>>} ELSE link \cup {<<n, i>>}
             /\ theirs' = theirs \cup {<<n, i>>}
             /\ UNCHANGED <<text, tagRow>>
       \/ \E i \in TagIds : /\ tagRow' = [tagRow EXCEPT ![i].version = 0]
                            /\ link' = link \ LinksTo(i)
                            /\ UNCHANGED <<text, theirs>>
    /\ UNCHANGED <<fenced, app, notePage, posting, blind>>

LinkBinding == ToggleFence /\ theirs' = {} /\ UNCHANGED <<app, text, tagRow, link, notePage, posting, blind>>

LinkedNext ==
    \/ \E p \in NotePages, n \in Notes : OpenNote(p, n) \/ OpenItem(p, n)
    \/ \E p \in NotePages, i \in 1..MaxTagRows : OpenTag(p, i) \/ OpenCategory(p, i)
    \/ \E n \in Notes, ids \in SUBSET (1..MaxTagRows) : CreateNote(n, ids) \/ PostItem(n, ids)
    \/ \E q \in posting : CreateItem(q)
    \/ \E p \in NotePages :
          \/ LockParent(p) \/ ReadLinks(p) \/ (\E presents \in BOOLEAN : Passes(p, presents))
          \/ \E columns, tags \in BOOLEAN : (columns \/ tags) /\ PatchNote(p, columns, tags)
          \/ DeleteNote(p) \/ DeleteTag(p) \/ DeleteCategory(p)
          \/ \E name \in TagNames : PatchCategory(p, name)
    \/ \E p \in NotePages : ClosePage(p) \/ FindTag(p)
    \/ \E p \in NotePages, name \in TagNames : CreateTag(p, name) \/ CreateCategory(name)
    \/ ApplyRow \/ LinkBinding

LinkedSpec == LinkedInit /\ [][LinkedNext]_linkedVars

-----------------------------------------------------------------------------
(* notes/index.ts:441 and assets/index.ts:710: a page whose hash passed erases no   *)
(* row it did not show, and no page, with a hash or without, one that the sync       *)
(* service wrote while the binding is fenced; links count as much as the note's own   *)
(* columns.  The rows are those the write meets, some statements after the hash was   *)
(* compared: other pages, POST items, the cycle and the link itself move meanwhile.  *)
NoBlindWrite == ~blind
=============================================================================
