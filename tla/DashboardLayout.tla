-------------------------- MODULE DashboardLayout ---------------------------
(***************************************************************************)
(* The free layout of the dashboard: the grid arithmetic of                *)
(* dashboardLayout.ts and the editing session of Dashboard.tsx.  A layout  *)
(* gives each visible card a rectangle of grid units.  The saved one is    *)
(* clamped to the canvas of the moment, repaired and completed before it   *)
(* is shown; editing works on a copy that drags, resizes and Reset save at *)
(* once and one at a time.                                                 *)
(***************************************************************************)
EXTENDS Integers, Sequences, FiniteSets

CONSTANTS CardCount,   \* widget keys, in the order of registration
          CanvasUnits, \* widths the canvas may have
          Reference,   \* DEFAULT_LAYOUT_REFERENCE_UNITS
          MaxRow,      \* bound: rows a saved layout uses
          MaxSession   \* bound: changes of the canvas, the apps and the layout

Gap == 1               \* COLLISION_GAP_UNITS

ASSUME LayoutAssumption ==
    /\ CardCount \in Nat \ {0} /\ CanvasUnits \subseteq Nat \ {0} /\ Reference \in Nat \ {0}
    /\ MaxRow \in Nat /\ MaxSession \in Nat

VARIABLES stored,   \* the setting on the server
          parsed,   \* what the page holds of it
          canvas,   \* width of the canvas
          enabled,  \* cards of enabled apps
          draft,    \* the working copy, while editing
          resizing, \* the live resize
          saves,   \* saves in the chain, oldest first
          overtaken, \* history: a card was shown during a live resize
          session

layoutVars == <<stored, parsed, canvas, enabled, draft, resizing, saves, overtaken, session>>

Cards == 1..CardCount
\* resolveWidgetDefaults: the last card is wide, the others are small.
WidgetSpec(c) == IF c = CardCount THEN [minW |-> 2, maxW |-> 4, defaultW |-> 3, order |-> 0]
                            ELSE [minW |-> 1, maxW |-> 2, defaultW |-> 2, order |-> 1]
Height == 1            \* of every card: minH = maxH = defaultH

Least(m, n) == IF m < n THEN m ELSE n
Most(m, n) == IF m > n THEN m ELSE n
Empty == [c \in {} |-> 0]
With(layout, c, p) == [k \in DOMAIN layout \cup {c} |-> IF k = c THEN p ELSE layout[k]]
Without(layout, c) == [k \in DOMAIN layout \ {c} |-> layout[k]]
Rect(x, y, w) == [x |-> x, y |-> y, w |-> w]
Sized(p, w) == Rect(p.x, p.y, w)

-----------------------------------------------------------------------------
(* Geometry.                                                               *)

\* rectsOverlap: closer than the gap, edge to edge.
Overlap(p, q) ==
    /\ p.x < q.x + q.w + Gap /\ q.x < p.x + p.w + Gap
    /\ p.y < q.y + Height + Gap /\ q.y < p.y + Height + Gap
FreeOf(p, layout) == \A c \in DOMAIN layout : ~Overlap(p, layout[c])
Disjoint(layout) == \A c \in DOMAIN layout : FreeOf(layout[c], Without(layout, c))

clampWidgetSize(c, w, x, width) ==
    LET most == Most(Least(WidgetSpec(c).maxW, width - x), WidgetSpec(c).minW)
    IN  Most(WidgetSpec(c).minW, Least(most, w))
clampPlacement(p, width) == Rect(Most(0, Least(p.x, Most(0, width - p.w))), Most(0, p.y), p.w)

Bottom(layout) ==
    LET low[c \in 0..CardCount] ==
            IF c = 0 THEN 0
            ELSE IF c \in DOMAIN layout THEN Most(low[c - 1], layout[c].y + Height) ELSE low[c - 1]
    IN  low[CardCount]

\* Row by row from the left; a row below every card is always free.
findFirstFreePosition(w, layout, width) ==
    LET slots == {Rect(x, y, w) : x \in 0..Most(0, width - w), y \in 0..(Bottom(layout) + Height)}
        free == {p \in slots : FreeOf(p, layout)}
    IN  CHOOSE p \in free : \A q \in free : p.y < q.y \/ (p.y = q.y /\ p.x <= q.x)

\* sortForMobile, and compareDefaultOrder with the order of registration for ties.
ReadsBefore(layout, c, d) ==
    \/ layout[c].y < layout[d].y
    \/ layout[c].y = layout[d].y /\ (layout[c].x < layout[d].x \/ (layout[c].x = layout[d].x /\ c < d))
ComposesBefore(c, d) ==
    \/ WidgetSpec(c).order < WidgetSpec(d).order
    \/ WidgetSpec(c).order = WidgetSpec(d).order
       /\ (WidgetSpec(c).defaultW > WidgetSpec(d).defaultW \/ (WidgetSpec(c).defaultW = WidgetSpec(d).defaultW /\ c < d))

FirstRead(layout, left) == CHOOSE c \in left : \A d \in left \ {c} : ReadsBefore(layout, c, d)
FirstComposed(left) == CHOOSE c \in left : \A d \in left \ {c} : ComposesBefore(c, d)

\* A card that is in nobody's way stays; another one moves to the first free place.
KeepsPlace(layout, width, c, kept) == With(kept, c, layout[c])
Repairs(layout, width, c, kept) ==
    With(kept, c, IF FreeOf(layout[c], kept) THEN layout[c]
                  ELSE findFirstFreePosition(layout[c].w, kept, width))
repairCollisions(layout, width) ==
    LET kept[n \in 0..Cardinality(DOMAIN layout)] ==
            IF n = 0 THEN Empty
            ELSE LET done == kept[n - 1]
                 IN  Repairs(layout, width, FirstRead(layout, DOMAIN layout \ DOMAIN done), done)
    IN  kept[Cardinality(DOMAIN layout)]

-----------------------------------------------------------------------------
(* The default composition: rows of scaled cards; rows of several cards fill the canvas. *)

Scaled(c, floor, width) ==
    Most(1, Least(width, Most(floor, (2 * WidgetSpec(c).defaultW * width + Reference) \div (2 * Reference))))

\* Where the cards of a row begin, and where the one after the last would.
Edges(widths) ==
    LET edge[k \in 0..Len(widths)] == IF k = 0 THEN 0 ELSE edge[k - 1] + widths[k] + Gap
    IN  edge
Units(row, w) == [i \in DOMAIN row |-> w[row[i]]]
Total(row, w) == Edges(Units(row, w))[Len(row)] - Gap

\* Greedy rows over a sequence of cards.
RowsOf(cards, w, width) ==
    LET fill[n \in 0..Len(cards)] ==
          IF n = 0 THEN <<>>
          ELSE LET rows == fill[n - 1]
                   last == rows[Len(rows)]
               IN  IF n > 1 /\ Total(Append(last, cards[n]), w) <= width
                   THEN [rows EXCEPT ![Len(rows)] = Append(last, cards[n])]
                   ELSE Append(rows, <<cards[n]>>)
    IN  fill[Len(cards)]

\* The slack of a shared row is handed out from the left, one unit at a time.
Justified(row, w, width) ==
    LET slack == IF Len(row) > 1 THEN Most(0, width - Total(row, w)) ELSE 0
    IN  [i \in DOMAIN row |-> w[row[i]] + slack \div Len(row) + (IF i <= slack % Len(row) THEN 1 ELSE 0)]

\* cards: a sequence; floor gives each card its least width.
generateDefaultLayout(cards, floor, width) ==
    LET w == [c \in Cards |-> Scaled(c, floor[c], width)]
        rows == RowsOf(cards, w, width)
    IN  [c \in {cards[n] : n \in DOMAIN cards} |->
            LET r == CHOOSE r \in DOMAIN rows : \E i \in DOMAIN rows[r] : rows[r][i] = c
                i == CHOOSE i \in DOMAIN rows[r] : rows[r][i] = c
                widths == Justified(rows[r], w, width)
            IN  Rect(Edges(widths)[i - 1], (r - 1) * (Height + Gap), widths[i])]

Composition(cards) ==
    LET sorted[n \in 0..Cardinality(cards)] ==
          IF n = 0 THEN <<>>
          ELSE LET done == sorted[n - 1]
                   left == cards \ {done[i] : i \in DOMAIN done}
               IN  Append(done, FirstComposed(left))
    IN  sorted[Cardinality(cards)]
defaultLayout(cards, width) ==
    generateDefaultLayout(Composition(cards), [c \in Cards |-> WidgetSpec(c).minW], width)

-----------------------------------------------------------------------------
(* From the setting to what is shown.                                      *)

NoSetting == [kind |-> "none", items |-> Empty, hidden |-> {}, list |-> <<>>]
Legacy(list) == [kind |-> "legacy", items |-> Empty, hidden |-> {}, list |-> list]
V2(items, hidden) == [kind |-> "v2", items |-> items, hidden |-> hidden, list |-> <<>>]

\* A list of the first version: what it does not name is hidden.
migrateLegacyLayout(list, cards, width) ==
    LET some[n \in 0..Len(list)] ==
            IF n = 0 THEN <<>>
            ELSE IF list[n] \in cards THEN Append(some[n - 1], list[n]) ELSE some[n - 1]
        known == some[Len(list)]
    IN  [items |-> generateDefaultLayout(known, [c \in Cards |-> 1], width),
         hidden |-> cards \ {known[n] : n \in DOMAIN known}]

\* Clamped one by one; an entry without a size (w = 0) takes the default.
Clamped(items, cards, width) ==
    [c \in DOMAIN items \cap cards |->
        LET p == clampPlacement(IF items[c].w = 0 THEN Sized(items[c], WidgetSpec(c).defaultW) ELSE items[c], width)
        IN  Sized(p, clampWidgetSize(c, p.w, p.x, width))]

\* Cards that are neither placed nor hidden find the first free place.
Completed(layout, hidden, cards, width) ==
    LET new == cards \ (DOMAIN layout \cup hidden)
        size(c) == clampWidgetSize(c, WidgetSpec(c).defaultW, 0, width)
        placed[n \in 0..Cardinality(new)] ==
            IF n = 0 THEN layout
            ELSE LET done == placed[n - 1]
                     c == FirstComposed(new \ DOMAIN done)
                 IN  With(done, c, findFirstFreePosition(size(c), done, width))
    IN  placed[Cardinality(new)]

resolveEffectiveLayout(setting, cards, width) ==
    IF setting.kind = "legacy" THEN migrateLegacyLayout(setting.list, cards, width)
    ELSE LET hidden == setting.hidden \cap cards
             repaired == repairCollisions(Clamped(setting.items, cards, width), width)
         IN  [items |-> Completed(repaired, hidden, cards, width), hidden |-> hidden]

Effective == resolveEffectiveLayout(parsed, enabled, canvas)

-----------------------------------------------------------------------------
(* The page.                                                               *)

Draft(items, hidden) == [on |-> TRUE, items |-> items, hidden |-> hidden]
NotEditing == [on |-> FALSE, items |-> Empty, hidden |-> {}]
NoResize == [card |-> 0, w |-> 0, valid |-> FALSE]

\* What some canvas let the user save, and what the two earlier formats left.
Placements(c) == {Rect(x, y, w) : x \in 0..4, y \in 0..MaxRow, w \in 1..4}
Savable(c) == {p \in Placements(c) : /\ p.w \in WidgetSpec(c).minW..WidgetSpec(c).maxW
                                     /\ \E u \in CanvasUnits : p.x + p.w <= u}
SavedLayouts == UNION {{l \in [s -> UNION {Savable(c) : c \in s}] :
                          (\A c \in s : l[c] \in Savable(c)) /\ Disjoint(l)} : s \in SUBSET Cards}
Unsized(layout) == [c \in DOMAIN layout |-> Sized(layout[c], 0)]
Lists == {l \in [1..CardCount -> Cards] : \A m, n \in 1..CardCount : m # n => l[m] # l[n]}

LayoutAtRest ==
    /\ stored = NoSetting /\ parsed = NoSetting /\ canvas = Reference /\ enabled = {}
    /\ draft = NotEditing /\ resizing = NoResize /\ saves = <<>> /\ overtaken = FALSE /\ session = 0

LayoutInit ==
    /\ stored \in {NoSetting} \cup {V2(l, {}) : l \in SavedLayouts} \cup {V2(Unsized(l), {}) : l \in SavedLayouts}
         \cup {Legacy(SubSeq(l, 1, n)) : l \in Lists, n \in 0..CardCount}
    /\ parsed = stored /\ canvas \in CanvasUnits /\ enabled = Cards
    /\ draft = NotEditing /\ resizing = NoResize /\ saves = <<>>
    /\ overtaken = FALSE /\ session = 0

Acts == session < MaxSession /\ session' = session + 1
PageRest == UNCHANGED <<canvas, enabled>>
Enqueue(items, hidden, done) == saves' = Append(saves, [items |-> items, hidden |-> hidden, done |-> done])
AutoSave(items) ==
    /\ draft' = Draft(items, draft.hidden) /\ Enqueue(items, draft.hidden, FALSE)

\* The window is resized; the page is opened again, perhaps with other apps enabled.
CanvasChanges == \E u \in CanvasUnits :
    /\ Acts /\ u # canvas /\ canvas' = u
    /\ UNCHANGED <<stored, parsed, enabled, draft, resizing, saves, overtaken>>
MountDashboard == \E cards \in SUBSET Cards :
    /\ Acts /\ saves = <<>>
    /\ parsed' = stored /\ enabled' = cards
    /\ draft' = NotEditing /\ resizing' = NoResize /\ overtaken' = FALSE
    /\ UNCHANGED <<stored, canvas, saves>>

startEditing ==
    /\ ~draft.on /\ enabled # {}
    /\ draft' = Draft(Effective.items, Effective.hidden)
    /\ overtaken' = FALSE
    /\ PageRest /\ UNCHANGED <<stored, parsed, resizing, saves, session>>

\* onDragEnd: the drop is clamped and checked against the layout of that moment.
onDragEnd == \E c \in DOMAIN draft.items, x \in 0..5, y \in 0..(MaxRow + 1) :
    LET p == clampPlacement(Rect(x, y, draft.items[c].w), canvas)
    IN  /\ draft.on /\ resizing = NoResize /\ Acts
        /\ p # draft.items[c] /\ FreeOf(p, Without(draft.items, c))
        /\ AutoSave(With(draft.items, c, p))
        /\ PageRest /\ UNCHANGED <<stored, parsed, resizing, overtaken>>

onResizeStart == \E c \in DOMAIN draft.items :
    /\ draft.on /\ resizing = NoResize
    /\ resizing' = [card |-> c, w |-> draft.items[c].w, valid |-> TRUE]
    /\ PageRest /\ UNCHANGED <<stored, parsed, draft, saves, overtaken, session>>

\* resizePlacement: the size is clamped, its validity is that of this moment.
Resized(c, w) ==
    LET to == clampWidgetSize(c, w, draft.items[c].x, canvas)
    IN  [card |-> c, w |-> to, valid |-> FreeOf(Sized(draft.items[c], to), Without(draft.items, c))]
onResizeMove == \E w \in 1..5 :
    /\ resizing # NoResize /\ resizing.card \in DOMAIN draft.items
    /\ resizing' = Resized(resizing.card, w) /\ resizing' # resizing
    /\ PageRest /\ UNCHANGED <<stored, parsed, draft, saves, overtaken, session>>

\* commitResize, when the last move was valid and changed the size.
onResizeEnd == \E commit \in BOOLEAN :
    LET c == resizing.card
        commits == commit /\ resizing.valid /\ c \in DOMAIN draft.items /\ draft.items[c].w # resizing.w
    IN  /\ resizing # NoResize /\ resizing' = NoResize
        /\ IF commits THEN Acts /\ AutoSave(With(draft.items, c, Sized(draft.items[c], resizing.w)))
                      ELSE UNCHANGED <<draft, saves, session>>
        /\ PageRest /\ UNCHANGED <<stored, parsed, overtaken>>

onResizeKeyDown == \E c \in DOMAIN draft.items, d \in {1, 0 - 1} :
    LET to == Resized(c, draft.items[c].w + d)
    IN  /\ draft.on /\ resizing = NoResize /\ to.valid /\ to.w # draft.items[c].w /\ Acts
        /\ AutoSave(With(draft.items, c, Sized(draft.items[c], to.w)))
        /\ PageRest /\ UNCHANGED <<stored, parsed, resizing, overtaken>>

\* Hiding and showing wait for Done to be saved.
hideWidget == \E c \in DOMAIN draft.items :
    /\ draft.on /\ Acts
    /\ draft' = Draft(Without(draft.items, c), draft.hidden \cup {c})
    /\ PageRest /\ UNCHANGED <<stored, parsed, resizing, saves, overtaken>>
showWidget == \E c \in draft.hidden :
    /\ draft.on /\ Acts
    /\ LET p == findFirstFreePosition(WidgetSpec(c).defaultW, draft.items, canvas)
       IN  draft' = Draft(With(draft.items, c, p), draft.hidden \ {c})
    /\ overtaken' = (overtaken \/ resizing # NoResize)
    /\ PageRest /\ UNCHANGED <<stored, parsed, resizing, saves>>

\* Reset drops a live resize and is saved at once.
performReset ==
    LET items == defaultLayout(enabled, canvas)
    IN  /\ draft.on /\ enabled # {} /\ Acts
        /\ resizing' = NoResize /\ draft' = Draft(items, {})
        /\ Enqueue(items, {}, FALSE) /\ overtaken' = FALSE
        /\ PageRest /\ UNCHANGED <<stored, parsed>>

finishEditing ==
    /\ draft.on /\ Acts /\ Enqueue(draft.items, draft.hidden, TRUE)
    /\ PageRest /\ UNCHANGED <<stored, parsed, draft, resizing, overtaken>>

\* The chain: one request at a time.  A failure keeps what the page shows.
SaveLayout == \E answered \in BOOLEAN :
    LET first == saves[1]
    IN  /\ saves # <<>> /\ saves' = Tail(saves)
        /\ stored' = V2(first.items, first.hidden)
        /\ parsed' = IF answered THEN stored' ELSE parsed
        /\ IF answered /\ first.done THEN draft' = NotEditing /\ resizing' = NoResize
                                     ELSE UNCHANGED <<draft, resizing>>
        /\ PageRest /\ UNCHANGED <<overtaken, session>>
SaveLayoutFails ==
    /\ saves # <<>> /\ saves' = Tail(saves)
    /\ PageRest /\ UNCHANGED <<stored, parsed, draft, resizing, overtaken, session>>

LayoutNext ==
    \/ CanvasChanges \/ MountDashboard \/ startEditing \/ onDragEnd \/ onResizeStart \/ onResizeMove
    \/ onResizeEnd \/ onResizeKeyDown \/ hideWidget \/ showWidget \/ performReset \/ finishEditing
    \/ SaveLayout \/ SaveLayoutFails
LayoutSpec == LayoutInit /\ [][LayoutNext]_layoutVars

-----------------------------------------------------------------------------
(* "every save path is collision-checked" (dashboardLayout.ts repairCollisions):  *)
(* no two cards shown, browsing or editing, are closer than the gap, whatever     *)
(* canvas the layout was saved on and whatever format it has; no card is both     *)
(* shown and hidden, and none is lost.  Excepted is an edit in which a card was   *)
(* shown while another was being resized, where the code does not check again.    *)
CardsDisjoint ==
    /\ LET shown == Effective
       IN  /\ Disjoint(shown.items)
           /\ DOMAIN shown.items \cap shown.hidden = {}
           /\ DOMAIN shown.items \cup shown.hidden = enabled
    /\ draft.on => (overtaken \/ Disjoint(draft.items)) /\ DOMAIN draft.items = enabled \ draft.hidden
=============================================================================
