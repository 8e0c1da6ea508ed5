-------------------------------- MODULE Life --------------------------------
(***************************************************************************)
(* Conway's game on a torus, one generation per step: the rules that       *)
(* Server/GameOfLife.cpp:37-41 quotes, over the eight cells around a cell. *)
(***************************************************************************)
EXTENDS Integers, FiniteSets

(* The sides, of three cells at least: below, a cell would be its own      *)
(* neighbour.                                                              *)
CONSTANTS Width, Height

VARIABLE living   \* the cells that are alive

Cell == (0..Width - 1) \X (0..Height - 1)

(* At most one apart on a ring of n.                                       *)
Near(a, b, n) == a - b \in {-1, 0, 1, n - 1, 1 - n}

Neighbours(c) ==
  {d \in Cell : d # c /\ Near(c[1], d[1], Width) /\ Near(c[2], d[2], Height)}

(* Two or three living neighbours keep a cell alive, three make one live.  *)
LivesOn(alive, c) ==
  LET n == Cardinality(Neighbours(c) \cap alive)
  IN  n = 3 \/ (n = 2 /\ c \in alive)

Generation(alive) == {c \in Cell : LivesOn(alive, c)}

Init == living \subseteq Cell

Next == living' = Generation(living)

Spec == Init /\ [][Next]_living
=============================================================================
