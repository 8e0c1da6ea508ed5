-------------------------- MODULE GameOfLifeProofs --------------------------
(***************************************************************************)
(* Proofs about GameOfLife for every width and height: the wrapped         *)
(* coordinates are the neighbours on the torus, the loop of update() keeps *)
(* its invariant, and the program plays Life.                              *)
(***************************************************************************)
EXTENDS GameOfLife, FiniteSetTheorems, TLAPS

(* The cell that isAlive(c[1] + d[1], c[2] + d[2]) looks at.               *)
Moved(c, d) == <<Wrap(c[1] + d[1], mWidth), Wrap(c[2] + d[2], mHeight)>>

-----------------------------------------------------------------------------
(* On a ring of at least three, one step to either side and no step reach  *)
(* exactly the coordinates that are near, each by one step.                *)
LEMMA WrapNear ==
  ASSUME NEW n \in Nat, n >= 3, NEW a \in 0..n - 1
  PROVE  /\ \A e \in -1..1 :
              Wrap(a + e, n) \in 0..n - 1 /\ Torus!Near(a, Wrap(a + e, n), n)
         /\ \A b \in 0..n - 1 :
              Torus!Near(a, b, n) => \E e \in -1..1 : Wrap(a + e, n) = b
         /\ \A e, g \in -1..1 : Wrap(a + e, n) = Wrap(a + g, n) => e = g
         /\ Wrap(a + 0, n) = a
<1>1. ASSUME NEW e \in -1..1
      PROVE  Wrap(a + e, n) \in 0..n - 1 /\ Torus!Near(a, Wrap(a + e, n), n)
  BY DEF Wrap, Torus!Near
<1>2. ASSUME NEW b \in 0..n - 1, Torus!Near(a, b, n)
      PROVE  \E e \in -1..1 : Wrap(a + e, n) = b
  <2>1. CASE a - b = 0
    BY <2>1 DEF Wrap
  <2>2. CASE a - b = 1 \/ a - b = 1 - n
    <3>1. Wrap(a + -1, n) = b
      BY <2>2 DEF Wrap
    <3> QED BY <3>1
  <2>3. CASE a - b = -1 \/ a - b = n - 1
    <3>1. Wrap(a + 1, n) = b
      BY <2>3 DEF Wrap
    <3> QED BY <3>1
  <2> QED BY <1>2, <2>1, <2>2, <2>3 DEF Torus!Near
<1>3. ASSUME NEW e \in -1..1, NEW g \in -1..1, Wrap(a + e, n) = Wrap(a + g, n)
      PROVE  e = g
  BY <1>3 DEF Wrap
<1>4. Wrap(a + 0, n) = a
  BY DEF Wrap
<1> QED BY <1>1, <1>2, <1>3, <1>4

(* countLivingNeighbors() looks at finitely many offsets.                  *)
LEMMA OffsetsFinite == IsFiniteSet(Offsets)
<1>1. IsFiniteSet(-1..1)
  BY FS_Interval, -1 \in Int, 1 \in Int
<1>2. IsFiniteSet((-1..1) \X (-1..1))
  BY <1>1, FS_Product
<1> QED BY <1>2, FS_Subset DEF Offsets

(* Life and the program have the same cells.                               *)
LEMMA SameCell == Torus!Cell = Cell
BY DEF Torus!Cell, Cell, Cols, Rows

(* Life's Cardinality is the one of FiniteSets.                            *)
LEMMA SameCardinality ==
  ASSUME NEW S
  PROVE  Torus!Cardinality(S) = Cardinality(S)
BY DEF Torus!Cardinality, Cardinality, Torus!IsFiniteSet, IsFiniteSet

(* The eight offsets are one to one with the neighbours on the torus.      *)
LEMMA MovedNeighbours ==
  ASSUME NEW c \in Cell
  PROVE  /\ \A d \in Offsets : Moved(c, d) \in Torus!Neighbours(c)
         /\ \A b \in Torus!Neighbours(c) : \E d \in Offsets : Moved(c, d) = b
         /\ \A d, e \in Offsets : Moved(c, d) = Moved(c, e) => d = e
<1>0. /\ c[1] \in 0..mWidth - 1 /\ c[2] \in 0..mHeight - 1
      /\ c = <<c[1], c[2]>>
  BY DEF Cell, Cols, Rows
<1> DEFINE A(i, e) == Wrap(i + e, mWidth)
           B(j, e) == Wrap(j + e, mHeight)
<1>1. ASSUME NEW d \in Offsets
      PROVE  Moved(c, d) \in Torus!Neighbours(c)
  <2>1. d[1] \in -1..1 /\ d[2] \in -1..1 /\ ~(d[1] = 0 /\ d[2] = 0)
    BY DEF Offsets
  <2>2. /\ A(c[1], d[1]) \in 0..mWidth - 1
        /\ Torus!Near(c[1], A(c[1], d[1]), mWidth)
        /\ (A(c[1], d[1]) = c[1] => d[1] = 0)
    BY <1>0, <2>1, WrapNear, SizeAssumption
  <2>3. /\ B(c[2], d[2]) \in 0..mHeight - 1
        /\ Torus!Near(c[2], B(c[2], d[2]), mHeight)
        /\ (B(c[2], d[2]) = c[2] => d[2] = 0)
    BY <1>0, <2>1, WrapNear, SizeAssumption
  <2>4. Moved(c, d) = <<A(c[1], d[1]), B(c[2], d[2])>>
    BY DEF Moved
  <2> HIDE DEF A, B
  <2> QED BY <1>0, <2>1, <2>2, <2>3, <2>4 DEF Torus!Neighbours, Torus!Cell
<1>2. ASSUME NEW b \in Torus!Neighbours(c)
      PROVE  \E d \in Offsets : Moved(c, d) = b
  <2>1. /\ b[1] \in 0..mWidth - 1 /\ b[2] \in 0..mHeight - 1
        /\ b = <<b[1], b[2]>> /\ b # c
        /\ Torus!Near(c[1], b[1], mWidth) /\ Torus!Near(c[2], b[2], mHeight)
    BY DEF Torus!Neighbours, Torus!Cell
  <2>2. PICK e \in -1..1 : A(c[1], e) = b[1]
    BY <1>0, <2>1, WrapNear, SizeAssumption
  <2>3. PICK g \in -1..1 : B(c[2], g) = b[2]
    BY <1>0, <2>1, WrapNear, SizeAssumption
  <2>4. ~(e = 0 /\ g = 0)
    <3>1. A(c[1], 0) = c[1] /\ B(c[2], 0) = c[2]
      BY <1>0, WrapNear, SizeAssumption
    <3> HIDE DEF A, B
    <3> QED BY <1>0, <2>1, <2>2, <2>3, <3>1
  <2>5. <<e, g>> \in Offsets
    BY <2>4 DEF Offsets
  <2>6. Moved(c, <<e, g>>) = b
    BY <2>1, <2>2, <2>3 DEF Moved
  <2> QED BY <2>5, <2>6
<1>3. ASSUME NEW d \in Offsets, NEW e \in Offsets, Moved(c, d) = Moved(c, e)
      PROVE  d = e
  <2>1. /\ d[1] \in -1..1 /\ d[2] \in -1..1 /\ d = <<d[1], d[2]>>
        /\ e[1] \in -1..1 /\ e[2] \in -1..1 /\ e = <<e[1], e[2]>>
    BY DEF Offsets
  <2>2. A(c[1], d[1]) = A(c[1], e[1]) /\ B(c[2], d[2]) = B(c[2], e[2])
    BY <1>3 DEF Moved
  <2>3. d[1] = e[1]
    BY <1>0, <2>1, <2>2, WrapNear, SizeAssumption
  <2>4. d[2] = e[2]
    BY <1>0, <2>1, <2>2, WrapNear, SizeAssumption
  <2> QED BY <2>1, <2>3, <2>4
<1> QED BY <1>1, <1>2, <1>3

(* countLivingNeighbors() counts the living neighbours on the torus.       *)
LEMMA CountIsNeighbours ==
  ASSUME NEW i \in Cols, NEW j \in Rows
  PROVE  countLivingNeighbors(i, j)
           = Cardinality(Torus!Neighbours(<<i, j>>) \cap mGrid)
<1> DEFINE c == <<i, j>>
           S == {d \in Offsets : Moved(c, d) \in mGrid}
           T == Torus!Neighbours(c) \cap mGrid
           f == [d \in S |-> Moved(c, d)]
<1>1. c \in Cell
  BY DEF Cell
<1>2. countLivingNeighbors(i, j) = Cardinality(S)
  BY DEF countLivingNeighbors, isAlive, Moved
<1>3. IsFiniteSet(S)
  BY OffsetsFinite, FS_Subset
<1>4. \A d \in S : Moved(c, d) \in T
  BY <1>1, MovedNeighbours
<1>5. \A b \in T : \E d \in S : Moved(c, d) = b
  BY <1>1, MovedNeighbours
<1>6. \A d, e \in S : Moved(c, d) = Moved(c, e) => d = e
  BY <1>1, MovedNeighbours
<1> HIDE DEF c, S, T
<1>7. f \in Bijection(S, T)
  BY <1>4, <1>5, <1>6 DEF Bijection, Injection, Surjection, IsInjective
<1>8. ExistsBijection(S, T)
  BY <1>7 DEF ExistsBijection
<1>9. Cardinality(T) = Cardinality(S)
  BY <1>3, <1>8, FS_Bijection
<1> QED BY <1>2, <1>9 DEF T, c

(* The loop body applies the rules of Life.                                *)
LEMMA BodyIsRule ==
  ASSUME x \in Cols, y \in Rows
  PROVE  StaysAlive <=> Torus!LivesOn(mGrid, <<x, y>>)
<1> DEFINE n == Cardinality(Torus!Neighbours(<<x, y>>) \cap mGrid)
<1>1. countLivingNeighbors(x, y) = n
  BY CountIsNeighbours
<1>2. StaysAlive <=> IF <<x, y>> \in mGrid THEN n = 2 \/ n = 3 ELSE n = 3
  BY <1>1 DEF StaysAlive
<1>3. Torus!LivesOn(mGrid, <<x, y>>)
        <=> n = 3 \/ (n = 2 /\ <<x, y>> \in mGrid)
  BY SameCardinality DEF Torus!LivesOn
<1> HIDE DEF n
<1> QED BY <1>2, <1>3

-----------------------------------------------------------------------------
(* Types and the loop invariant are kept together: UpdateCell needs x to   *)
(* be a column.                                                            *)
LoopTyped == TypeOK /\ LoopInv

(* Every step of update() preserves the types and the loop invariant.      *)
LEMMA LoopTypedNext ==
  ASSUME LoopTyped, [Next]_vars
  PROVE  LoopTyped'
<1>1. CASE BeginUpdate
  BY <1>1, SizeAssumption
  DEF BeginUpdate, LoopTyped, TypeOK, LoopInv, Passed, Cell, Cols, Rows
<1>2. CASE UpdateCell
  <2>1. x \in Cols /\ y \in Rows /\ <<x, y>> \in Cell /\ mGrid' = mGrid
        /\ updating /\ updating'
    BY <1>2, SizeAssumption
    DEF UpdateCell, LoopTyped, TypeOK, Cell, Cols, Rows
  <2>2. TypeOK'
    BY <1>2, <2>1, SizeAssumption
    DEF UpdateCell, LoopTyped, TypeOK, Cell, Cols, Rows
  <2>3. ASSUME NEW c \in Cell
        PROVE  c \in newGrid' <=>
                 IF Passed(c)' THEN Torus!LivesOn(mGrid, c) ELSE c \in mGrid
    <3>1. Passed(c)' <=> Passed(c) \/ c = <<x, y>>
      BY <1>2, <2>1, SizeAssumption DEF UpdateCell, Passed, Cell, Cols, Rows
    <3>2. ~Passed(<<x, y>>)
      BY <2>1 DEF Passed, Cols, Rows
    <3>3. c \in newGrid <=>
            IF Passed(c) THEN Torus!LivesOn(mGrid, c) ELSE c \in mGrid
      BY <2>1 DEF LoopTyped, LoopInv
    <3>4. CASE c = <<x, y>>
      <4>1. c \in newGrid' <=> StaysAlive
        BY <1>2, <3>4 DEF UpdateCell
      <4> QED BY <2>1, <3>1, <3>4, <4>1, BodyIsRule
    <3>5. CASE c # <<x, y>>
      <4>1. c \in newGrid' <=> c \in newGrid
        BY <1>2, <3>5 DEF UpdateCell
      <4> QED BY <3>1, <3>3, <3>5, <4>1
    <3> QED BY <3>4, <3>5
  <2>4. LoopInv'
    BY <2>1, <2>3 DEF LoopInv, Torus!LivesOn, Torus!Neighbours
  <2> QED BY <2>2, <2>4 DEF LoopTyped
<1>3. CASE EndUpdate
  BY <1>3 DEF EndUpdate, LoopTyped, TypeOK, LoopInv
<1>4. CASE UNCHANGED vars
  BY <1>4 DEF vars, LoopTyped, TypeOK, LoopInv, Passed
<1> QED BY <1>1, <1>2, <1>3, <1>4 DEF Next

(* update()'s loop fills its copy with the next generation, for grids of   *)
(* every size.                                                             *)
THEOREM LoopCorrect == Spec => [](TypeOK /\ LoopInv)
<1>1. Init => LoopTyped
  <2>1. 0 \in Cols /\ 0 \in 0..mHeight /\ {} \subseteq Cell
    BY SizeAssumption DEF Cols
  <2>2. Init => TypeOK
    BY <2>1 DEF Init, TypeOK
  <2>3. Init => LoopInv
    BY DEF Init, LoopInv
  <2> QED BY <2>2, <2>3 DEF LoopTyped
<1>2. LoopTyped => TypeOK /\ LoopInv
  BY DEF LoopTyped
<1> QED BY <1>1, <1>2, LoopTypedNext, PTL DEF Spec

(* update() ends with the next generation.                                 *)
LEMMA EndIsGeneration ==
  ASSUME LoopTyped, EndUpdate
  PROVE  mGrid' = Torus!Generation(mGrid)
<1>1. \A c \in Cell : Passed(c)
  BY SizeAssumption DEF EndUpdate, Passed, Cell, Cols, Rows
<1>2. \A c \in Cell : c \in newGrid <=> Torus!LivesOn(mGrid, c)
  BY <1>1 DEF EndUpdate, LoopTyped, LoopInv
<1>3. newGrid \subseteq Cell /\ mGrid' = newGrid
  BY DEF EndUpdate, LoopTyped, TypeOK
<1> QED BY <1>2, <1>3, SameCell DEF Torus!Generation

(* The grids that update() produces one after the other are the            *)
(* generations of Life on the torus, for every size and every first grid.  *)
THEOREM GameOfLifePlaysLife == Spec => PlaysLife
<1>1. Init => Torus!Init
  BY SameCell DEF Init, Torus!Init
<1>2. ASSUME LoopTyped, [Next]_vars
      PROVE  [Torus!Next]_mGrid
  <2>1. CASE EndUpdate
    BY <1>2, <2>1, EndIsGeneration DEF Torus!Next
  <2>2. CASE BeginUpdate \/ UpdateCell \/ UNCHANGED vars
    BY <2>2 DEF BeginUpdate, UpdateCell, vars
  <2> QED BY <1>2, <2>1, <2>2 DEF Next
<1>3. Spec => []LoopTyped
  BY LoopCorrect, PTL DEF LoopTyped
<1> QED BY <1>1, <1>2, <1>3, PTL DEF Spec, PlaysLife, Torus!Spec

=============================================================================
