---------------------------- MODULE ClockRecords ----------------------------
(***************************************************************************)
(* clock/index.ts: the ordered list of world clocks and the settings row,   *)
(* which exists only once it was saved.  The settings transaction takes two *)
(* steps, the locks with the check of the hash and then the write, to show  *)
(* what the owner lock is for; the others are one step each (WriteFence).   *)
(***************************************************************************)
EXTENDS WriteFence, Integers, Sequences, FiniteSets

CONSTANTS
    WorldClocks,    \* world clock ids
    ClockPages,     \* open pages
    MaxPlace,       \* bound: sort_order values
    MaxSaves        \* bound: versions of the settings row

ASSUME ClockAssumption == MaxPlace \in Nat /\ MaxSaves \in Nat

VARIABLES
    place,          \* sort_order of a world clock, 0 when it does not exist
    foreign,        \* history: clocks whose place another server gave
    settings,       \* version of clock.settings, 0 while there is no row
    clockPage,      \* what a page shows, and the point its request stands at
    overwrote       \* history: a save that presented a hash replaced what its page had not seen

clockVars == <<fenced, place, foreign, settings, clockPage, overwrote>>

Listed == {c \in WorldClocks : place[c] # 0}
LastPlace == IF Listed = {} THEN 0 ELSE place[CHOOSE c \in Listed : \A d \in Listed : place[d] <= place[c]]

NoView == [pc |-> "closed", order |-> <<>>, version |-> 0, presents |-> FALSE]

ClockInit ==
    /\ fenced = FALSE
    /\ place = [c \in WorldClocks |-> 0]
    /\ foreign = {}
    /\ settings = 0
    /\ clockPage = [p \in ClockPages |-> NoView]
    /\ overwrote = FALSE

ViewClocks(p) ==
    /\ clockPage[p].pc = "closed"
    /\ clockPage' = [clockPage EXCEPT ![p] = [NoView EXCEPT !.pc = "list", !.order = place]]
    /\ UNCHANGED <<fenced, place, foreign, settings, overwrote>>

LeaveClocks(p) ==
    /\ clockPage[p].pc \in {"list", "form"}
    /\ clockPage' = [clockPage EXCEPT ![p] = NoView]
    /\ UNCHANGED <<fenced, place, foreign, settings, overwrote>>

-----------------------------------------------------------------------------
(* World clocks. *)
\* Mutant: the new clock is numbered by how many there are.
AppendByCount(c) ==
    /\ place[c] = 0 /\ Cardinality(Listed) < MaxPlace
    /\ place' = [place EXCEPT ![c] = Cardinality(Listed) + 1]
    /\ foreign' = foreign \ {c}
    /\ UNCHANGED <<fenced, settings, clockPage, overwrote>>

AppendClock(c) ==
    /\ place[c] = 0 /\ LastPlace < MaxPlace
    /\ place' = [place EXCEPT ![c] = LastPlace + 1]
    /\ foreign' = foreign \ {c}
    /\ UNCHANGED <<fenced, settings, clockPage, overwrote>>

RemoveClock(p, c, presents) ==
    /\ clockPage[p].pc = "list" /\ c \in Listed
    /\ Presented(IF presents THEN clockPage[p].order[c] ELSE NoHash, place[c])
    /\ place' = [place EXCEPT ![c] = 0]
    /\ clockPage' = [clockPage EXCEPT ![p] = NoView]
    /\ UNCHANGED <<fenced, foreign, settings, overwrote>>

(* The ids must be those of the stored list, each once (422 if not); the hash is that *)
(* of the whole list; the places become 1..n.                                         *)
ReorderClocks(p, ids, presents) ==
    /\ clockPage[p].pc = "list"
    /\ Len(ids) = Cardinality(Listed) /\ {ids[k] : k \in DOMAIN ids} = Listed
    /\ Presented(IF presents THEN clockPage[p].order ELSE NoHash, place)
    /\ place' = [c \in WorldClocks |->
                    IF c \in Listed THEN CHOOSE k \in DOMAIN ids : ids[k] = c ELSE 0]
    /\ foreign' = {}
    /\ clockPage' = [clockPage EXCEPT ![p] = NoView]
    /\ UNCHANGED <<fenced, settings, overwrote>>

\* The cycle applies another server's row, or its deletion.
ApplyClock(c, n) ==
    /\ fenced
    /\ place' = [place EXCEPT ![c] = n]
    /\ foreign' = foreign \cup {c}
    /\ UNCHANGED <<fenced, settings, clockPage, overwrote>>

-----------------------------------------------------------------------------
(* The settings row. *)
ViewSettings(p, presents) ==
    /\ clockPage[p].pc = "closed"
    /\ clockPage' = [clockPage EXCEPT ![p] =
                        [NoView EXCEPT !.pc = "form", !.version = settings, !.presents = presents]]
    /\ UNCHANGED <<fenced, place, foreign, settings, overwrote>>

InTransaction == {p \in ClockPages : clockPage[p].pc = "saving"}

\* Mutant: FOR UPDATE alone, which locks nothing while there is no row.
RowLockFree == settings = 0 \/ InTransaction = {}

\* lockOwnerSet
OwnerSetFree == InTransaction = {}

BeginSave(p) ==
    /\ clockPage[p].pc = "form" /\ OwnerSetFree
    /\ Presented(IF clockPage[p].presents THEN clockPage[p].version ELSE NoHash, settings)
    /\ clockPage' = [clockPage EXCEPT ![p].pc = "saving"]
    /\ UNCHANGED <<fenced, place, foreign, settings, overwrote>>

CommitSave(p) ==
    /\ clockPage[p].pc = "saving" /\ settings < MaxSaves
    /\ settings' = settings + 1
    /\ overwrote' = (overwrote \/ (clockPage[p].presents /\ clockPage[p].version # settings))
    /\ clockPage' = [clockPage EXCEPT ![p] = NoView]
    /\ UNCHANGED <<fenced, place, foreign>>

(* The data lock waits for the transactions that hold theirs on the same tables. *)
ApplySettings ==
    /\ fenced /\ InTransaction = {} /\ settings < MaxSaves
    /\ settings' = settings + 1
    /\ UNCHANGED <<fenced, place, foreign, clockPage, overwrote>>

LinkClock == ToggleFence /\ UNCHANGED <<place, foreign, settings, clockPage, overwrote>>

Orders == UNION {[1..n -> WorldClocks] : n \in 0..Cardinality(WorldClocks)}

ClockNext ==
    \/ \E p \in ClockPages : ViewClocks(p) \/ LeaveClocks(p) \/ BeginSave(p) \/ CommitSave(p)
    \/ \E c \in WorldClocks : AppendClock(c) \/ (\E n \in 0..MaxPlace : ApplyClock(c, n))
    \/ \E p \in ClockPages, presents \in BOOLEAN :
          \/ \E c \in WorldClocks : RemoveClock(p, c, presents)
          \/ \E ids \in Orders : ReorderClocks(p, ids, presents)
          \/ ViewSettings(p, presents)
    \/ ApplySettings \/ LinkClock

ClockSpec == ClockInit /\ [][ClockNext]_clockVars

-----------------------------------------------------------------------------
(* Two clocks that this server numbered never share a place, whatever was removed,    *)
(* appended, reordered or applied in between (POST world-clocks, PUT order).          *)
PlacesDistinct ==
    \A c, d \in Listed \ foreign : c # d => place[c] # place[d]

(* A save that presents a hash never replaces settings its page had not seen, not     *)
(* even when two pages save the first row, which neither can lock (saveSettings).     *)
SettingsNotOverwritten == ~overwrote

(* Both: a write that finds no row to lock is as ordered as one that does.            *)
ClockWritesOrdered == PlacesDistinct /\ SettingsNotOverwritten
=============================================================================
