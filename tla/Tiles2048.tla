----------------------------- MODULE Tiles2048 -----------------------------
(***************************************************************************)
(* The board of the game (mini_game/logic.ts).  Two layers compute a move:  *)
(* moveBoard on the matrix that is saved and validated, applyMove on tiles  *)
(* with an identity, which is what the page shows.  The page plays applyMove *)
(* and saves boardFromTiles of its result, so the two must agree on every   *)
(* board a game can reach.  Rows and columns are numbered from 1.           *)
(***************************************************************************)
EXTENDS Naturals, Sequences, FiniteSets

CONSTANTS SIZE,     \* 4 in the code
          MaxTile   \* bound: a game stops at this tile

ASSUME TilesAssumption == SIZE \in Nat \ {0} /\ MaxTile \in Nat

VARIABLE tiles      \* the tiles on the board, as the page keeps them

Index == 1..SIZE
Directions == {"left", "right", "up", "down"}
FromEnd(i) == SIZE + 1 - i

\* A sequence as a tuple of its values, which TLC then computes once.
Tuple(seq) == <<>> \o seq

-----------------------------------------------------------------------------
(* The matrix.                                                             *)

\* What was slid so far: before the first slot, nothing.
NoneYet == [line |-> <<>>, free |-> FALSE, gained |-> 0]

\* One value joins what was slid so far: it merges with an equal neighbour that did
\* not come from a merge of this move.
JoinValue(acc, v) ==
    IF acc.free /\ acc.line[Len(acc.line)] = v
    THEN [line |-> [acc.line EXCEPT ![Len(acc.line)] = 2 * v], free |-> FALSE,
          gained |-> acc.gained + 2 * v]
    ELSE [line |-> Append(acc.line, v), free |-> TRUE, gained |-> acc.gained]

slideLine(row) ==
    LET joined[i \in 0..SIZE] ==
            IF i = 0 THEN NoneYet
            ELSE IF row[i] = 0 THEN joined[i - 1] ELSE JoinValue(joined[i - 1], row[i])
        slid == joined[SIZE]
    IN  [line |-> Tuple([i \in Index |-> IF i <= Len(slid.line) THEN slid.line[i] ELSE 0]),
         gained |-> slid.gained]

\* What the lines of a board gain together.
TotalGain(lines) ==
    LET sum[k \in 0..SIZE] == IF k = 0 THEN 0 ELSE sum[k - 1] + lines[k].gained
    IN  sum[SIZE]

\* 90 degrees clockwise: a column becomes a row, bottom to top.
rotate(board) == Tuple([c \in Index |-> Tuple([r \in Index |-> board[FromEnd(r)][c]])])
Mirrored(board) == Tuple([r \in Index |-> Tuple([c \in Index |-> board[r][FromEnd(c)]])])

Normalised(board, d) ==
    CASE d = "left" -> board
      [] d = "right" -> Mirrored(board)
      [] d = "up" -> rotate(rotate(rotate(board)))
      [] d = "down" -> rotate(board)
Restored(board, d) ==
    CASE d = "left" -> board
      [] d = "right" -> Mirrored(board)
      [] d = "up" -> rotate(board)
      [] d = "down" -> rotate(rotate(rotate(board)))

moveBoard(board, d) ==
    LET work == Normalised(board, d)
        slid == Tuple([r \in Index |-> slideLine(work[r])])
        lines == Tuple([r \in Index |-> slid[r].line])
    IN  [board |-> Restored(lines, d),
         gained |-> TotalGain(slid),
         moved |-> lines # work]

\* A game goes on while a cell is empty or two neighbours are equal.
canMove(board) ==
    \E r, c \in Index : \/ board[r][c] = 0
                        \/ r < SIZE /\ board[r + 1][c] = board[r][c]
                        \/ c < SIZE /\ board[r][c + 1] = board[r][c]

-----------------------------------------------------------------------------
(* The tiles.                                                              *)

TheTile(s) == CHOOSE t \in s : TRUE
ValueAt(ts, r, c) ==
    LET here == {t \in ts : t.r = r /\ t.c = c}
    IN  IF here = {} THEN 0 ELSE TheTile(here).value
boardFromTiles(ts) == Tuple([r \in Index |-> Tuple([c \in Index |-> ValueAt(ts, r, c)])])

\* Ids are unique on one board; which numbers they are is left open, so the model
\* numbers them afresh, row by row, as a load does.
tilesFromBoard(board) ==
    {[id |-> SIZE * (p[1] - 1) + p[2], value |-> board[p[1]][p[2]], r |-> p[1], c |-> p[2]] :
        p \in {q \in Index \X Index : board[q[1]][q[2]] # 0}}

Horizontal(d) == d \in {"left", "right"}
Backward(d) == d \in {"right", "down"}

\* The cell of a slot of line k, slots counted from the edge the tiles move to.
Cell(d, k, slot) ==
    LET place == IF Backward(d) THEN FromEnd(slot) ELSE slot
    IN  IF Horizontal(d) THEN <<k, place>> ELSE <<place, k>>

\* The tiles of a line by their slots, each in a set of its own.
LineOf(ts, d, k) == Tuple([slot \in Index |-> {t \in ts : <<t.r, t.c>> = Cell(d, k, slot)}])

Doubled(t) == [t EXCEPT !.value = 2 * @]

\* Mutant: a tile that merged in this move merges again.
KeepMerging(acc, t) ==
    IF acc.line # <<>> /\ acc.line[Len(acc.line)].value = t.value
    THEN [line |-> [acc.line EXCEPT ![Len(acc.line)] = Doubled(@)], free |-> FALSE,
          gained |-> acc.gained + 2 * t.value]
    ELSE [line |-> Append(acc.line, t), free |-> TRUE, gained |-> acc.gained]

\* The survivor of a merge keeps its id and doubles; the other tile goes.
Keep(acc, t) ==
    IF acc.free /\ acc.line[Len(acc.line)].value = t.value
    THEN [line |-> [acc.line EXCEPT ![Len(acc.line)] = Doubled(@)], free |-> FALSE,
          gained |-> acc.gained + 2 * t.value]
    ELSE [line |-> Append(acc.line, t), free |-> TRUE, gained |-> acc.gained]

Kept(line) ==
    LET kept[i \in 0..SIZE] ==
            IF i = 0 THEN NoneYet
            ELSE IF line[i] = {} THEN kept[i - 1] ELSE Keep(kept[i - 1], TheTile(line[i]))
    IN  kept[SIZE]

MovedTo(t, cell) == [id |-> t.id, value |-> t.value, r |-> cell[1], c |-> cell[2]]

resultTiles(kept, d) ==
    UNION {{MovedTo(kept[k].line[s], Cell(d, k, s)) : s \in 1..Len(kept[k].line)} : k \in Index}

applyMove(ts, d) ==
    LET kept == Tuple([k \in Index |-> Kept(LineOf(ts, d, k))])
        result == resultTiles(kept, d)
    IN  [tiles |-> result, gained |-> TotalGain(kept), moved |-> ~(result \subseteq ts)]

\* spawnTileInTiles: any empty cell, a 2 or a 4.
EmptyCells(ts) == {p \in Index \X Index : ~\E t \in ts : <<t.r, t.c>> = p}
SpawnedOn(ts) == {ts \cup {[id |-> 0, value |-> v, r |-> p[1], c |-> p[2]]} :
                     p \in EmptyCells(ts), v \in {2, 4}}
Renumbered(ts) == tilesFromBoard(boardFromTiles(ts))

-----------------------------------------------------------------------------
\* freshTiles: an empty board with two spawned tiles.
TilesInit == tiles \in {Renumbered(ts) : ts \in UNION {SpawnedOn(one) : one \in SpawnedOn({})}}

\* A key or a swipe: nothing happens unless a tile moved or merged.
Play(d) ==
    LET result == applyMove(tiles, d)
    IN  /\ result.moved
        /\ \A t \in tiles : t.value < MaxTile
        /\ \E next \in SpawnedOn(result.tiles) : tiles' = Renumbered(next)

TilesNext == \E d \in Directions : Play(d)
TilesSpec == TilesInit /\ [][TilesNext]_tiles

\* "strict parallel implementation": in every direction the tiles end where the matrix
\* says, with the same score and the same verdict whether anything moved, ids stay
\* unique, and a move that is played leaves a cell for the tile that is spawned.  The
\* game ends (canMove) exactly when no direction moves anything.
TilesAgree == tiles # {} =>
  /\ canMove(boardFromTiles(tiles)) <=> \E d \in Directions : applyMove(tiles, d).moved
  /\ \A d \in Directions :
        LET m == moveBoard(boardFromTiles(tiles), d)
            a == applyMove(tiles, d)
        IN  /\ boardFromTiles(a.tiles) = m.board /\ a.gained = m.gained /\ a.moved = m.moved
            /\ Cardinality({t.id : t \in a.tiles}) = Cardinality(a.tiles)
            /\ a.moved => EmptyCells(a.tiles) # {}
=============================================================================
