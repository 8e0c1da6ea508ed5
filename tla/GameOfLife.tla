----------------------------- MODULE GameOfLife -----------------------------
(***************************************************************************)
(* Server/GameOfLife.cpp: update() goes over the grid row by row and fills *)
(* a copy of it, cell by cell, from the neighbour counts of the old grid.  *)
(* A grid is the set of its living cells <<x, y>>.                         *)
(***************************************************************************)
EXTENDS Integers, FiniteSets

CONSTANTS mWidth, mHeight

(* Config::validateGridSize admits 10 to 200.                              *)
ASSUME SizeAssumption ==
  /\ mWidth \in Nat /\ mWidth >= 3
  /\ mHeight \in Nat /\ mHeight >= 3

VARIABLES mGrid,
          newGrid,   \* update()'s copy
          x, y,      \* its loop variables
          updating   \* inside update()

vars == <<mGrid, newGrid, x, y, updating>>

Cols == 0..mWidth - 1
Rows == 0..mHeight - 1
Cell == Cols \X Rows

TypeOK ==
  /\ mGrid \subseteq Cell /\ newGrid \subseteq Cell
  /\ x \in Cols /\ y \in 0..mHeight
  /\ updating \in BOOLEAN

-----------------------------------------------------------------------------
(* isAlive() without its second branch: the far edge is not wrapped.       *)
WrapLow(a, n) == IF a < 0 THEN n - 1 ELSE a

(* isAlive(): a coordinate one past an edge is the other edge.             *)
Wrap(a, n) == IF a < 0 THEN n - 1 ELSE IF a >= n THEN 0 ELSE a

(* isAlive() that looks at the copy being filled.                          *)
isAliveInCopy(i, j) == <<Wrap(i, mWidth), Wrap(j, mHeight)>> \in newGrid

isAlive(i, j) == <<Wrap(i, mWidth), Wrap(j, mHeight)>> \in mGrid

Offsets == ((-1..1) \X (-1..1)) \ {<<0, 0>>}

countLivingNeighbors(i, j) ==
  Cardinality({d \in Offsets : isAlive(i + d[1], j + d[2])})

(* The loop body's verdict on mGrid[y][x].                                 *)
StaysAlive ==
  LET neighbors == countLivingNeighbors(x, y) IN
  IF <<x, y>> \in mGrid THEN neighbors = 2 \/ neighbors = 3 ELSE neighbors = 3

-----------------------------------------------------------------------------
(* initializeRandom() may leave any grid.                                  *)
Init ==
  /\ mGrid \in SUBSET Cell
  /\ newGrid = {} /\ x = 0 /\ y = 0 /\ updating = FALSE

(* update() is called: newGrid = mGrid.                                    *)
BeginUpdate ==
  /\ ~updating
  /\ updating' = TRUE /\ x' = 0 /\ y' = 0
  /\ newGrid' = mGrid
  /\ UNCHANGED mGrid

UpdateCell ==
  /\ updating /\ y < mHeight
  /\ newGrid' = IF StaysAlive THEN newGrid \cup {<<x, y>>}
                ELSE newGrid \ {<<x, y>>}
  /\ IF x + 1 < mWidth THEN x' = x + 1 /\ y' = y ELSE x' = 0 /\ y' = y + 1
  /\ UNCHANGED <<mGrid, updating>>

(* mGrid = std::move(newGrid)                                              *)
EndUpdate ==
  /\ updating /\ y = mHeight
  /\ mGrid' = newGrid
  /\ updating' = FALSE
  /\ UNCHANGED <<newGrid, x, y>>

Next == BeginUpdate \/ UpdateCell \/ EndUpdate

(* Application::run() calls update() again and again.                      *)
Spec == Init /\ [][Next]_vars

-----------------------------------------------------------------------------
(* Properties.                                                             *)

(* Cells the loop has passed.                                              *)
Passed(c) == c[2] < y \/ (c[2] = y /\ c[1] < x)

Torus == INSTANCE Life WITH Width <- mWidth, Height <- mHeight,
                            living <- mGrid

(* Inside update() the cells already passed are right and the others are   *)
(* those of the old grid: the wrapped coordinates of isAlive() and the     *)
(* counting loop find the eight neighbours on the torus, corners and edges *)
(* included (GameOfLife.cpp:30-52, 71-97).                                 *)
LoopInv ==
  updating => \A c \in Cell :
    c \in newGrid <=> IF Passed(c) THEN Torus!LivesOn(mGrid, c) ELSE c \in mGrid

(* What is broadcast is Conway's game: update() replaces the grid by the   *)
(* next generation in one step (GameOfLife.cpp:37-52).                     *)
PlaysLife == Torus!Spec
=============================================================================
