----------------------------- MODULE GameSaves ------------------------------
(***************************************************************************)
(* The saved 2048 game: PUT and GET saves of mini_game/index.ts, and the    *)
(* game page of every tab (mini_game/index.tsx), which sends one save at a  *)
(* time, remembers the latest board while it waits, and holds its saves     *)
(* after a refusal until the player reloads.  A board is known by its score.*)
(***************************************************************************)
EXTENDS WriteFence, Integers

CONSTANTS
    Tabs,           \* tabs that show the game
    MaxScore,       \* bound: scores a run reaches
    MaxBoards,      \* bound: writes of the row
    Faults          \* calls of the page may fail, before or after the server acted

ASSUME GameAssumption == MaxScore \in Nat /\ MaxBoards \in Nat /\ Faults \in BOOLEAN

VARIABLES
    row,            \* mini_game.saves; "version" stands for the hash, 0 for no row
    tab,            \* the state of each page
    stolen          \* history: a stored game was replaced by a page that knew another

gameVars == <<fenced, row, tab, stolen>>

None == 0 - 1
NoSave == [version |-> 0, score |-> 0, revision |-> 0]

(* "put" is the save in flight, then its answer; "get" the load in flight, then its    *)
(* answer; "known" the version the page loaded or wrote last.                          *)
NewTab ==
    [phase |-> "loading", score |-> 0, revision |-> 0, hash |-> NoHash, hold |-> FALSE,
     loaded |-> FALSE, queued |-> None,
     put |-> [step |-> "none"], get |-> [step |-> "asked"]]

GameInit ==
    /\ fenced \in BOOLEAN
    /\ row \in {NoSave, [version |-> 1, score |-> 1, revision |-> 1]}
    /\ tab = [p \in Tabs |-> NewTab]
    /\ stolen = FALSE

Ready(p) == tab[p].phase = "ready"
SetTab(p, state) == tab' = [tab EXCEPT ![p] = state]
OnlyPages == UNCHANGED <<fenced, row, stolen>>

-----------------------------------------------------------------------------
(* The page. *)
\* The loop of save(): the latest board is sent, unless a save is out or held.
Send(page) ==
    IF page.queued = None \/ page.hold \/ page.put.step # "none" THEN page
    ELSE [page EXCEPT !.queued = None,
                      !.put = [step |-> "sent", score |-> page.queued,
                               revision |-> page.revision + 1, hash |-> page.hash]]

Move(p) ==
    /\ Ready(p) /\ tab[p].score < MaxScore
    /\ SetTab(p, Send([tab[p] EXCEPT !.score = @ + 1, !.queued = tab[p].score + 1]))
    /\ OnlyPages

NewGame(p) ==
    /\ Ready(p)
    /\ SetTab(p, Send([tab[p] EXCEPT !.score = 0, !.queued = 0]))
    /\ OnlyPages

(* A clean page reloads when rows of another server came, a dirty or held one when the  *)
(* player asks for it.                                                                 *)
Reload(p) ==
    /\ Ready(p) /\ tab[p].get.step = "none"
    /\ SetTab(p, [tab[p] EXCEPT !.get = [step |-> "asked"]])
    /\ OnlyPages

Fresh(page) == [page EXCEPT !.score = 0, !.phase = "ready", !.get = [step |-> "none"]]

LoadFails(p) ==
    /\ Faults /\ tab[p].get.step # "none"
    /\ SetTab(p, IF tab[p].hold \/ tab[p].loaded
                 THEN [tab[p] EXCEPT !.phase = "ready", !.get = [step |-> "none"]]
                 ELSE Fresh(tab[p]))
    /\ OnlyPages

Loaded(p) ==
    LET answer == tab[p].get.row
        clean == [tab[p] EXCEPT !.hold = FALSE, !.queued = None, !.loaded = TRUE,
                                !.hash = answer.version]
    IN /\ tab[p].get.step = "answer"
       /\ SetTab(p, IF answer = NoSave THEN Fresh(clean)
                    ELSE [clean EXCEPT !.score = answer.score, !.revision = answer.revision,
                                       !.phase = "ready", !.get = [step |-> "none"]])
       /\ OnlyPages

Held(page) == [page EXCEPT !.hold = TRUE, !.queued = None, !.put = [step |-> "none"]]

SaveAnswered(p) ==
    LET answer == tab[p].put.answer
    IN /\ tab[p].put.step = "answer"
       /\ SetTab(p, IF ~answer.accepted THEN Held(tab[p])
                    ELSE Send([tab[p] EXCEPT !.put = [step |-> "none"],
                                             !.revision = answer.revision, !.hash = answer.hash]))
       /\ OnlyPages

\* Mutant: the flag of the save in flight survives its failure.
SaveFailsInflight(p) ==
    /\ Faults /\ tab[p].put.step # "none"
    /\ SetTab(p, [tab[p] EXCEPT !.put = [step |-> "stuck"]])
    /\ OnlyPages

\* The call fails at the page, whether or not the server has acted on it.
SaveFails(p) ==
    /\ Faults /\ tab[p].put.step # "none"
    /\ SetTab(p, Held(tab[p]))
    /\ OnlyPages

-----------------------------------------------------------------------------
(* The server. *)
GetSave(p) ==
    /\ tab[p].get.step = "asked"
    /\ SetTab(p, [tab[p] EXCEPT !.get = [step |-> "answer", row |-> row]])
    /\ OnlyPages

Answer(p, accepted, saved) ==
    SetTab(p, [tab[p] EXCEPT !.put = [step |-> "answer", answer |->
                 [accepted |-> accepted, revision |-> saved.revision, hash |-> saved.version]]])

\* Mutant: the row is replaced whatever its revision is.
Replaces(put) == TRUE

\* ON CONFLICT DO UPDATE ... WHERE s.revision < EXCLUDED.revision
Newer(put) == row = NoSave \/ row.revision < put.revision

PutSave(p) ==
    LET put == tab[p].put
        next == [version |-> row.version + 1, score |-> put.score, revision |-> put.revision]
    IN /\ put.step = "sent" /\ row.version < MaxBoards
       /\ Presented(put.hash, row.version) /\ Newer(put)
       /\ row' = next
       /\ stolen' = (stolen \/ (row # NoSave /\ put.hash # row.version))
       /\ Answer(p, TRUE, next)
       /\ UNCHANGED fenced

\* 409 of the fence, or accepted: false with the stored row.
RefuseSave(p) ==
    LET put == tab[p].put
    IN /\ put.step = "sent"
       /\ ~(Presented(put.hash, row.version) /\ Newer(put))
       /\ Answer(p, FALSE, row)
       /\ OnlyPages

(* The row changes under the page: another device's tab had a save accepted, or the    *)
(* cycle applied another server's row, which may have any revision.                    *)
OtherSave ==
    /\ row.version < MaxBoards
    /\ \E score \in 0..MaxScore, revision \in 1..MaxBoards :
          /\ fenced \/ revision > row.revision
          /\ row' = [version |-> row.version + 1, score |-> score, revision |-> revision]
    /\ UNCHANGED <<fenced, tab, stolen>>

Loading(p) == GetSave(p) \/ Loaded(p)
Saving(p) == PutSave(p) \/ RefuseSave(p) \/ SaveAnswered(p)

GameNext ==
    \/ \E p \in Tabs : \/ Move(p) \/ NewGame(p) \/ Reload(p)
                       \/ LoadFails(p) \/ SaveFails(p) \/ Loading(p) \/ Saving(p)
    \/ OtherSave

(* The server answers, and a page handles what it is answered. *)
GameFairness == \A p \in Tabs : WF_gameVars(Loading(p)) /\ WF_gameVars(Saving(p))
GameSpec == GameInit /\ [][GameNext]_gameVars /\ GameFairness

-----------------------------------------------------------------------------
(* A stored game is replaced only by a page that loaded or wrote that very row: a page *)
(* whose first load failed starts over and must not erase it (the hash check and the   *)
(* revision guard of PUT saves together; neither does it alone).                       *)
GameNotStolen == ~stolen

(* A board that waits for the save in flight is sent, replaced or given up with the    *)
(* badge that says so; it never waits for ever (the finally of save()).                *)
BoardSentOrHeld ==
    \A p \in Tabs : (tab[p].queued # None)
                     ~> (tab[p].queued = None \/ tab[p].hold \/ row.version = MaxBoards)
=============================================================================
