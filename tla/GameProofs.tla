----------------------------- MODULE GameProofs -----------------------------
(***************************************************************************)
(* Proofs about the formation, for every size of the formation and of the  *)
(* screen that the assumptions of module Enemies allow; then about the     *)
(* game loop: each frame of game_state() is a step of the formation, of    *)
(* the ship and of the aliens' fire, so that what is proved of these alone *)
(* holds in the game; and what only the three together guarantee.          *)
(***************************************************************************)
EXTENDS Game, ShipProofs

(***************************************************************************)
(* The collision boxes are strictly between the borders: the part of       *)
(* NeverOffSideways that does not depend on the alignment of the moves.    *)
(***************************************************************************)
BoxesOnScreen ==
  \A e \in DOMAIN enemies :
    enemies[e].x > 0 /\ enemies[e].x + ENEMY_WIDTH < XResolution

(***************************************************************************)
(* The inductive invariant.  That a descent is not pre-empted rests on the *)
(* rigidity of the formation: only then can it not reach from one margin   *)
(* to the other.                                                           *)
(***************************************************************************)
EnemiesInv ==
  /\ EnemiesTypeOK
  /\ FormationRigid
  /\ DescentNotPreempted
  /\ BoxesOnScreen

-----------------------------------------------------------------------------
(***************************************************************************)
(* Multiplication by a natural number is monotone: what the distances in   *)
(* the formation of init_enemies() need.                                   *)
(***************************************************************************)
LEMMA MulMonotone ==
  ASSUME NEW a \in Int, NEW b \in Int, NEW c \in Nat, a <= b
  PROVE  a * c <= b * c
<1>1. (b - a) * c >= 0
  OBVIOUS
<1>2. (b - a) * c = b * c - a * c
  OBVIOUS
<1> QED
  BY <1>1, <1>2

LEMMA StartXBounds ==
  ASSUME NEW e \in Enemy
  PROVE  /\ StartX(e) \in Int /\ StartY(e) \in Int
         /\ ENEMY_START_X <= StartX(e)
         /\ StartX(e) <= ENEMY_START_X + (ENEMY_COLS - 1) * ENEMY_SPACING_X
<1>1. e[2] \in Int /\ e[1] \in Int /\ 0 <= e[2] /\ e[2] <= ENEMY_COLS - 1
  BY EnemiesAssumption DEF Enemy
<1>2. /\ ENEMY_SPACING_X \in Nat /\ ENEMY_SPACING_Y \in Nat
      /\ ENEMY_START_X \in Nat /\ ENEMY_START_Y \in Nat /\ ENEMY_COLS \in Nat
  BY EnemiesAssumption
<1>3. /\ 0 * ENEMY_SPACING_X <= e[2] * ENEMY_SPACING_X
      /\ e[2] * ENEMY_SPACING_X <= (ENEMY_COLS - 1) * ENEMY_SPACING_X
  BY <1>1, <1>2, MulMonotone
<1>4. /\ e[2] * ENEMY_SPACING_X \in Int /\ e[1] * ENEMY_SPACING_Y \in Int
      /\ (ENEMY_COLS - 1) * ENEMY_SPACING_X \in Int
  BY <1>1, <1>2
<1> QED
  BY <1>1, <1>2, <1>3, <1>4 DEF StartX, StartY

(***************************************************************************)
(* What the invariant says of the active enemies es, heading in direction  *)
(* dir and, if drop, about to descend.                                     *)
(***************************************************************************)
Formed(es, dir, drop) ==
  /\ DOMAIN es \subseteq Enemy
  /\ es \in [DOMAIN es -> Position]
  /\ \A e, f \in DOMAIN es :
       /\ es[e].x - es[f].x = StartX(e) - StartX(f)
       /\ es[e].y - es[f].y = StartY(e) - StartY(f)
  /\ drop => ~AtEdge(es, dir)
  /\ \A e \in DOMAIN es : es[e].x > 0 /\ es[e].x + ENEMY_WIDTH < XResolution

Scalars ==
  /\ enemy_direction \in {-1, 1}
  /\ should_drop \in BOOLEAN
  /\ enemy_move_timer \in 0 .. MOVE_PERIOD - 1

LEMMA InvMeansFormed ==
  EnemiesInv <=> Formed(enemies, enemy_direction, should_drop) /\ Scalars
BY DEF EnemiesInv, EnemiesTypeOK, FormationRigid, DescentNotPreempted,
       BoxesOnScreen, Formed, Scalars

-----------------------------------------------------------------------------
(***************************************************************************)
(* The starting formation is between the margins, so that it is at no edge *)
(* whatever direction the game before has left.                            *)
(***************************************************************************)
LEMMA StartIsFormed ==
  ASSUME NEW dir \in {-1, 1}, NEW drop
  PROVE  Formed(StartFormation, dir, drop)
<1> USE EnemiesAssumption, GeometryAssumption, ScreenAssumption
<1> DEFINE es == StartFormation
<1>1. /\ DOMAIN es = Enemy
      /\ \A e \in Enemy : es[e].x = StartX(e) /\ es[e].y = StartY(e)
  BY DEF StartFormation, At
<1>2. es \in [Enemy -> Position]
  BY StartXBounds DEF StartFormation, At, Position
<1>3. \A e \in Enemy :
        /\ StartX(e) \in Int
        /\ StartX(e) > EDGE
        /\ StartX(e) + ENEMY_WIDTH < XResolution - EDGE
  <2>1. (ENEMY_COLS - 1) * ENEMY_SPACING_X \in Int
    OBVIOUS
  <2> QED
    BY <2>1, StartXBounds
<1>4. ~AtEdge(es, dir)
  BY <1>1, <1>3 DEF AtEdge
<1>5. \A e \in Enemy : es[e].x > 0 /\ es[e].x + ENEMY_WIDTH < XResolution
  BY <1>1, <1>3
<1> HIDE DEF es
<1> QED
  BY <1>1, <1>2, <1>4, <1>5 DEF Formed, es

(***************************************************************************)
(* A formation does not reach from one margin to the other.                *)
(***************************************************************************)
LEMMA NotAtBothEdges ==
  ASSUME NEW es, NEW dir, NEW drop, Formed(es, dir, drop)
  PROVE  ~(AtEdge(es, 1) /\ AtEdge(es, -1))
<1> USE EnemiesAssumption, GeometryAssumption, ScreenAssumption
<1> SUFFICES ASSUME AtEdge(es, 1), AtEdge(es, -1) PROVE FALSE
  OBVIOUS
<1>1. PICK e \in DOMAIN es : es[e].x + ENEMY_WIDTH >= XResolution - EDGE
  BY DEF AtEdge
<1>2. PICK f \in DOMAIN es : es[f].x <= EDGE
  BY DEF AtEdge
<1>3. e \in Enemy /\ f \in Enemy
  BY DEF Formed
<1>4. es[e].x \in Int /\ es[f].x \in Int
  BY DEF Formed, Position
<1>5. es[e].x - es[f].x = StartX(e) - StartX(f)
  BY DEF Formed
<1>6. (ENEMY_COLS - 1) * ENEMY_SPACING_X \in Int
  OBVIOUS
<1>7. StartX(e) - StartX(f) <= (ENEMY_COLS - 1) * ENEMY_SPACING_X
  BY <1>3, <1>6, StartXBounds
<1> QED
  BY <1>1, <1>2, <1>4, <1>5, <1>6, <1>7

(***************************************************************************)
(* A formation stays one when all its enemies are shifted by the same      *)
(* amount, provided that they stay between the borders.                    *)
(***************************************************************************)
LEMMA ShiftKeepsFormed ==
  ASSUME NEW es, NEW ms, NEW dir, NEW drop, NEW dx \in Int, NEW dy \in Int, NEW dir2,
         Formed(es, dir, drop),
         DOMAIN ms = DOMAIN es,
         ms \in [DOMAIN ms -> Position],
         \A e \in DOMAIN es : ms[e].x = es[e].x + dx /\ ms[e].y = es[e].y + dy,
         \A e \in DOMAIN es : ms[e].x > 0 /\ ms[e].x + ENEMY_WIDTH < XResolution
  PROVE  Formed(ms, dir2, FALSE)
<1>1. \A e, f \in DOMAIN ms :
        /\ ms[e].x - ms[f].x = StartX(e) - StartX(f)
        /\ ms[e].y - ms[f].y = StartY(e) - StartY(f)
  <2> SUFFICES ASSUME NEW e \in DOMAIN es, NEW f \in DOMAIN es
               PROVE  /\ ms[e].x - ms[f].x = StartX(e) - StartX(f)
                      /\ ms[e].y - ms[f].y = StartY(e) - StartY(f)
    OBVIOUS
  <2>1. /\ es[e].x \in Int /\ es[f].x \in Int
        /\ es[e].y \in Int /\ es[f].y \in Int
    BY DEF Formed, Position
  <2>2. /\ es[e].x - es[f].x = StartX(e) - StartX(f)
        /\ es[e].y - es[f].y = StartY(e) - StartY(f)
    BY DEF Formed
  <2>3. /\ ms[e].x = es[e].x + dx /\ ms[f].x = es[f].x + dx
        /\ ms[e].y = es[e].y + dy /\ ms[f].y = es[f].y + dy
    OBVIOUS
  <2> QED
    BY <2>1, <2>2, <2>3
<1> QED
  BY <1>1 DEF Formed

(***************************************************************************)
(* What enemies_moving() computes is formed again.                         *)
(***************************************************************************)
LEMMA MovedIsFormed ==
  ASSUME Formed(enemies, enemy_direction, should_drop), Scalars, EnemiesMoving
  PROVE  Formed(EnemiesMoved, enemy_direction', should_drop') /\ Scalars'
<1> USE EnemiesAssumption, GeometryAssumption, ScreenAssumption
<1>1. Scalars'
  <2>1. enemy_direction' \in {-1, 1}
    BY DEF EnemiesMoving, Scalars
  <2>2. Turns \in BOOLEAN
    BY DEF Turns, Moves, AtEdge
  <2>3. should_drop' \in BOOLEAN
    BY <2>2 DEF EnemiesMoving, Scalars
  <2>4. enemy_move_timer' \in 0 .. MOVE_PERIOD - 1
    BY DEF EnemiesMoving, Moves, Scalars
  <2> QED
    BY <2>1, <2>3, <2>4 DEF Scalars
<1>2. CASE ~Moves
  <2>1. /\ enemy_direction' = enemy_direction
        /\ should_drop' = should_drop
        /\ EnemiesMoved = enemies
    BY <1>2 DEF EnemiesMoved, EnemiesMoving, Turns
  <2> QED
    BY <1>1, <2>1
<1>3. CASE Turns
  <2>1. /\ AtEdge(enemies, enemy_direction)
        /\ enemy_direction' = enemy_direction * (-1)
        /\ EnemiesMoved = enemies
    BY <1>3 DEF Turns, EnemiesMoving, EnemiesMoved
  <2>2. ~AtEdge(enemies, enemy_direction * (-1))
    <3>1. CASE enemy_direction = 1
      <4>1. enemy_direction * (-1) = -1
        BY <3>1
      <4> QED
        BY <2>1, <3>1, <4>1, NotAtBothEdges
    <3>2. CASE enemy_direction = -1
      <4>1. enemy_direction * (-1) = 1
        BY <3>2
      <4> QED
        BY <2>1, <3>2, <4>1, NotAtBothEdges
    <3> QED
      BY <3>1, <3>2 DEF Scalars
  <2> QED
    BY <1>1, <2>1, <2>2 DEF Formed
<1>4. CASE Moves /\ ~Turns
  <2> DEFINE ms == EnemiesMoved
  <2>1. ms = [e \in DOMAIN enemies |-> Shifted(enemies[e])]
    BY <1>4 DEF EnemiesMoved
  <2>2. /\ should_drop' = FALSE
        /\ ~AtEdge(enemies, enemy_direction)
    BY <1>4 DEF EnemiesMoving, Turns
  <2>3. \A e \in DOMAIN enemies :
          enemies[e] \in Position /\ enemies[e].x \in Int /\ enemies[e].y \in Int
    BY DEF Formed, Position
  <2>4. CASE should_drop
    <3>1. \A e \in DOMAIN enemies :
            /\ ms[e] \in Position
            /\ ms[e].x = enemies[e].x + 0
            /\ ms[e].y = enemies[e].y + DROP_Y
      BY <2>1, <2>3, <2>4 DEF Shifted, Position
    <3>2. DOMAIN ms = DOMAIN enemies /\ ms \in [DOMAIN ms -> Position]
      BY <2>1, <3>1
    <3>3. \A e \in DOMAIN enemies : ms[e].x > 0 /\ ms[e].x + ENEMY_WIDTH < XResolution
      BY <2>3, <3>1 DEF Formed
    <3>4. 0 \in Int /\ DROP_Y \in Int
      OBVIOUS
    <3> HIDE DEF ms
    <3>5. Formed(ms, enemy_direction', FALSE)
      BY <3>1, <3>2, <3>3, <3>4, ShiftKeepsFormed
    <3> QED
      BY <1>1, <2>2, <3>5 DEF ms
  <2>5. CASE ~should_drop
    <3> DEFINE dx == enemy_direction * STEP_X
    <3>1. dx \in Int /\ (enemy_direction = 1 => dx = STEP_X)
                     /\ (enemy_direction = -1 => dx = -STEP_X)
      BY DEF Scalars
    <3>2. \A e \in DOMAIN enemies :
            /\ ms[e] \in Position
            /\ ms[e].x = enemies[e].x + dx
            /\ ms[e].y = enemies[e].y + 0
      BY <2>1, <2>3, <2>5, <3>1 DEF Shifted, Position
    <3>3. DOMAIN ms = DOMAIN enemies /\ ms \in [DOMAIN ms -> Position]
      BY <2>1, <3>2
    <3> HIDE DEF ms, dx
    <3>4. \A e \in DOMAIN enemies : ms[e].x > 0 /\ ms[e].x + ENEMY_WIDTH < XResolution
      <4> SUFFICES ASSUME NEW e \in DOMAIN enemies
                   PROVE  ms[e].x > 0 /\ ms[e].x + ENEMY_WIDTH < XResolution
        OBVIOUS
      <4>1. enemies[e].x > 0 /\ enemies[e].x + ENEMY_WIDTH < XResolution
        BY DEF Formed
      <4>2. CASE enemy_direction = 1
        <5>1. enemies[e].x + ENEMY_WIDTH < XResolution - EDGE
          BY <2>2, <2>3, <4>2 DEF AtEdge
        <5> QED
          BY <2>3, <3>1, <3>2, <4>1, <4>2, <5>1
      <4>3. CASE enemy_direction = -1
        <5>1. enemies[e].x > EDGE
          BY <2>2, <2>3, <4>3 DEF AtEdge
        <5> QED
          BY <2>3, <3>1, <3>2, <4>1, <4>3, <5>1
      <4> QED
        BY <4>2, <4>3 DEF Scalars
    <3>5. 0 \in Int /\ dx \in Int
      BY <3>1
    <3>6. Formed(ms, enemy_direction', FALSE)
      BY <3>2, <3>3, <3>4, <3>5, ShiftKeepsFormed
    <3> QED
      BY <1>1, <2>2, <3>6 DEF ms
  <2> QED
    BY <2>4, <2>5 DEF Scalars
<1> QED
  BY <1>1, <1>2, <1>3, <1>4

(***************************************************************************)
(* Fewer enemies are still formed: shooting preserves what moving has      *)
(* established.                                                            *)
(***************************************************************************)
LEMMA ShootingKeepsFormed ==
  ASSUME NEW es, NEW dir, NEW drop, NEW hit, Formed(es, dir, drop)
  PROVE  Formed(Without(es, hit), dir, drop)
<1> DEFINE left == Without(es, hit)
<1>1. /\ DOMAIN left = DOMAIN es \ hit
      /\ \A e \in DOMAIN left : left[e] = es[e]
      /\ left \in [DOMAIN left -> Position]
  BY DEF Without, Formed
<1>2. drop => ~AtEdge(left, dir)
  BY <1>1 DEF Formed, AtEdge
<1> QED
  BY <1>1, <1>2 DEF Formed

LEMMA TickKeepsInv ==
  ASSUME EnemiesInv, EnemiesTick
  PROVE  EnemiesInv'
<1>1. Formed(EnemiesMoved, enemy_direction', should_drop') /\ Scalars'
  BY InvMeansFormed, MovedIsFormed DEF EnemiesTick
<1>2. Formed(enemies', enemy_direction', should_drop')
  BY <1>1, ShootingKeepsFormed DEF EnemiesTick
<1>3. EnemiesInv' <=> Formed(enemies', enemy_direction', should_drop') /\ Scalars'
  BY DEF EnemiesInv, EnemiesTypeOK, FormationRigid, DescentNotPreempted,
         BoxesOnScreen, Formed, Scalars
<1> QED
  BY <1>1, <1>2, <1>3

LEMMA NewGameKeepsInv ==
  ASSUME EnemiesInv, EnemiesNewGame
  PROVE  EnemiesInv'
<1>1. Scalars /\ Scalars'
  BY InvMeansFormed DEF EnemiesNewGame, Scalars
<1>2. Formed(enemies', enemy_direction', should_drop')
  BY <1>1, StartIsFormed DEF EnemiesNewGame, Scalars
<1>3. EnemiesInv' <=> Formed(enemies', enemy_direction', should_drop') /\ Scalars'
  BY DEF EnemiesInv, EnemiesTypeOK, FormationRigid, DescentNotPreempted,
         BoxesOnScreen, Formed, Scalars
<1> QED
  BY <1>1, <1>2, <1>3

-----------------------------------------------------------------------------
LEMMA EnemiesInitInv == EnemiesInit => EnemiesInv
<1> SUFFICES ASSUME EnemiesInit PROVE EnemiesInv
  OBVIOUS
<1>1. Scalars
  <2>1. enemy_direction \in {-1, 1} /\ enemy_move_timer \in 0 .. MOVE_PERIOD - 1
    BY EnemiesAssumption DEF EnemiesInit
  <2>2. should_drop \in BOOLEAN
    BY DEF EnemiesInit
  <2> QED
    BY <2>1, <2>2 DEF Scalars
<1>2. Formed(enemies, enemy_direction, should_drop)
  BY <1>1, StartIsFormed DEF EnemiesInit, Scalars
<1> QED
  BY <1>1, <1>2, InvMeansFormed

LEMMA EnemiesInvKept == EnemiesInv /\ [EnemiesNext]_formation => EnemiesInv'
<1> SUFFICES ASSUME EnemiesInv, [EnemiesNext]_formation PROVE EnemiesInv'
  OBVIOUS
<1>1. CASE EnemiesTick
  BY <1>1, TickKeepsInv
<1>2. CASE EnemiesNewGame
  BY <1>2, NewGameKeepsInv
<1>3. CASE UNCHANGED formation
  BY <1>3 DEF formation, EnemiesInv, EnemiesTypeOK, FormationRigid,
              DescentNotPreempted, AtEdge, BoxesOnScreen
<1> QED
  BY <1>1, <1>2, <1>3 DEF EnemiesNext

(***************************************************************************)
(* The invariant holds in every state of the component.                    *)
(***************************************************************************)
THEOREM EnemiesInvariant == EnemiesSpec => []EnemiesInv
BY EnemiesInitInv, EnemiesInvKept, PTL DEF EnemiesSpec

(***************************************************************************)
(* The variables of enemies.c keep their types.                            *)
(***************************************************************************)
THEOREM EnemiesTypeCorrect == EnemiesSpec => []EnemiesTypeOK
<1>1. EnemiesInv => EnemiesTypeOK
  BY DEF EnemiesInv
<1> QED
  BY <1>1, EnemiesInvariant, PTL

(***************************************************************************)
(* The enemies that are left always keep the distances of init_enemies().  *)
(***************************************************************************)
THEOREM FormationStaysRigid == EnemiesSpec => []FormationRigid
<1>1. EnemiesInv => FormationRigid
  BY DEF EnemiesInv
<1> QED
  BY <1>1, EnemiesInvariant, PTL

(***************************************************************************)
(* A descent that move_enemies() has announced is never pre-empted.        *)
(***************************************************************************)
THEOREM DescentIsNotPreempted == EnemiesSpec => []DescentNotPreempted
<1>1. EnemiesInv => DescentNotPreempted
  BY DEF EnemiesInv
<1> QED
  BY <1>1, EnemiesInvariant, PTL

-----------------------------------------------------------------------------
(***************************************************************************)
(* The invariant that the sprites need, which are wider than the boxes:    *)
(* sideways moves are whole steps, so that the formation cannot stop at    *)
(* every column that the test of the box lets it reach.                    *)
(***************************************************************************)
InStep(es) ==
  \A e \in DOMAIN es : /\ \E k \in Int : es[e].x = k * STEP_X
                       /\ es[e].y >= ENEMY_START_Y

LEMMA EnemiesTypes ==
  /\ STEP_X \in Nat \ {0} /\ DROP_Y \in Nat /\ ENEMY_WIDTH \in Nat
  /\ ENEMY_START_X \in Nat /\ ENEMY_START_Y \in Nat
  /\ ENEMY_SPACING_X \in Nat /\ ENEMY_SPACING_Y \in Nat
  /\ ENEMY_ROWS \in Nat \ {0} /\ ENEMY_COLS \in Nat \ {0}
  /\ ENEMY_HEIGHT \in Nat /\ ALIEN_HEIGHT \in Nat
  /\ ALIEN_WIDTH \in Nat /\ ALIEN3_WIDTH \in Nat
  /\ XResolution \in Nat /\ YResolution \in Nat
BY EnemiesAssumption, AlignmentAssumption, ScreenAssumption

LEMMA StartIsInStep == InStep(StartFormation)
<1> SUFFICES ASSUME NEW e \in Enemy
             PROVE  /\ \E k \in Int : StartX(e) = k * STEP_X
                    /\ StartY(e) >= ENEMY_START_Y
  BY DEF InStep, StartFormation, At
<1> USE EnemiesTypes
<1>1. e[1] \in Nat /\ e[2] \in Nat
  BY DEF Enemy
<1>2. PICK i \in 0 .. ENEMY_START_X : ENEMY_START_X = i * STEP_X
  BY AlignmentAssumption
<1>3. PICK j \in 0 .. ENEMY_SPACING_X : ENEMY_SPACING_X = j * STEP_X
  BY AlignmentAssumption
<1>4. /\ e[2] * (j * STEP_X) = (e[2] * j) * STEP_X
      /\ (i + e[2] * j) * STEP_X = i * STEP_X + (e[2] * j) * STEP_X
  BY <1>1, <1>2, <1>3
<1>5. StartX(e) = (i + e[2] * j) * STEP_X
  BY <1>2, <1>3, <1>4 DEF StartX
<1>6. i + e[2] * j \in Int
  BY <1>1, <1>2, <1>3
<1>7. e[1] * ENEMY_SPACING_Y \in Nat
  BY <1>1
<1>8. StartY(e) >= ENEMY_START_Y
  BY <1>7 DEF StartY
<1> QED
  BY <1>5, <1>6, <1>8

LEMMA MovedIsInStep ==
  ASSUME Formed(enemies, enemy_direction, should_drop), Scalars, InStep(enemies)
  PROVE  InStep(EnemiesMoved)
<1> USE EnemiesTypes
<1>1. CASE ~(Moves /\ ~Turns)
  BY <1>1 DEF EnemiesMoved
<1>2. CASE Moves /\ ~Turns
  <2>1. EnemiesMoved = [e \in DOMAIN enemies |-> Shifted(enemies[e])]
    BY <1>2 DEF EnemiesMoved
  <2> SUFFICES ASSUME NEW e \in DOMAIN enemies
               PROVE  /\ \E k \in Int : Shifted(enemies[e]).x = k * STEP_X
                      /\ Shifted(enemies[e]).y >= ENEMY_START_Y
    BY <2>1 DEF InStep
  <2>2. enemies[e] \in Position /\ enemies[e].x \in Int /\ enemies[e].y \in Int
    BY DEF Formed, Position
  <2>3. PICK k \in Int : enemies[e].x = k * STEP_X
    BY DEF InStep
  <2>4. enemies[e].y >= ENEMY_START_Y
    BY DEF InStep
  <2>5. CASE should_drop
    BY <2>2, <2>3, <2>4, <2>5 DEF Shifted, Position
  <2>6. CASE ~should_drop
    <3>1. /\ Shifted(enemies[e]).x = enemies[e].x + enemy_direction * STEP_X
          /\ Shifted(enemies[e]).y = enemies[e].y
      BY <2>2, <2>6 DEF Shifted, Position
    <3>2. (k + enemy_direction) * STEP_X = k * STEP_X + enemy_direction * STEP_X
      BY DEF Scalars
    <3>3. k + enemy_direction \in Int
      BY DEF Scalars
    <3> QED
      BY <2>3, <2>4, <3>1, <3>2, <3>3
  <2> QED
    BY <2>5, <2>6
<1> QED
  BY <1>1, <1>2

LEMMA ShootingKeepsInStep ==
  ASSUME NEW es, NEW hit, InStep(es)
  PROVE  InStep(Without(es, hit))
BY DEF InStep, Without

(***************************************************************************)
(* On whole steps, a sprite is between the borders whenever its box is.    *)
(***************************************************************************)
LEMMA SpritesFit ==
  ASSUME NEW es, NEW dir, NEW drop, Formed(es, dir, drop), InStep(es), NEW e \in DOMAIN es
  PROVE  /\ es[e].x \in Nat /\ es[e].y \in Nat /\ AlienWidth(e) \in Nat
         /\ es[e].x + AlienWidth(e) <= XResolution
         /\ es[e].x + ENEMY_WIDTH < XResolution
         /\ es[e].y >= ENEMY_START_Y
<1> USE EnemiesTypes
<1>1. es[e].x \in Int /\ es[e].y \in Int
  BY DEF Formed, Position
<1>2. es[e].x > 0 /\ es[e].x + ENEMY_WIDTH < XResolution
  BY DEF Formed
<1>3. PICK k \in Int : es[e].x = k * STEP_X
  BY DEF InStep
<1>4. es[e].y >= ENEMY_START_Y
  BY DEF InStep
<1>5. k \in 0 .. XResolution
  <2>1. CASE k < 0
    <3>1. k * STEP_X <= 0 * STEP_X
      BY <2>1, MulMonotone
    <3> QED
      BY <1>2, <1>3, <3>1
  <2>2. CASE k >= 0
    <3>1. 1 * k <= STEP_X * k
      BY <2>2, MulMonotone
    <3>2. k <= k * STEP_X
      BY <3>1
    <3> QED
      BY <1>1, <1>2, <1>3, <2>2, <3>2
  <2> QED
    BY <2>1, <2>2
<1>6. AlienWidth(e) \in {ALIEN_WIDTH, ALIEN3_WIDTH}
  BY DEF AlienWidth
<1>7. k * STEP_X + AlienWidth(e) <= XResolution
  BY <1>2, <1>3, <1>5, <1>6, AlignmentAssumption
<1> QED
  BY <1>1, <1>2, <1>3, <1>4, <1>6, <1>7

LEMMA EnemiesStart == EnemiesInit => EnemiesInv /\ InStep(enemies)
BY EnemiesInitInv, StartIsInStep DEF EnemiesInit

LEMMA EnemiesStep ==
  ASSUME EnemiesInv, InStep(enemies), [EnemiesNext]_formation
  PROVE  EnemiesInv' /\ InStep(enemies')
<1>1. CASE EnemiesTick
  <2>1. InStep(EnemiesMoved)
    BY InvMeansFormed, MovedIsInStep
  <2> QED
    BY <1>1, <2>1, ShootingKeepsInStep, EnemiesInvKept DEF EnemiesTick
<1>2. CASE EnemiesNewGame
  BY <1>2, StartIsInStep, EnemiesInvKept DEF EnemiesNewGame
<1>3. CASE UNCHANGED formation
  BY <1>3, EnemiesInvKept DEF formation
<1> QED
  BY <1>1, <1>2, <1>3 DEF EnemiesNext

(***************************************************************************)
(* move_enemies() never takes a sprite over a side of the screen: the      *)
(* draws of draw_all_enemies() cannot fail there.                          *)
(***************************************************************************)
THEOREM SpritesStayOnScreen == EnemiesSpec => []NeverOffSideways
<1>1. EnemiesInv /\ InStep(enemies) /\ [EnemiesNext]_formation
        => EnemiesInv' /\ InStep(enemies)'
  BY EnemiesStep
<1>2. EnemiesInv /\ InStep(enemies) => NeverOffSideways
  <2> SUFFICES ASSUME EnemiesInv, InStep(enemies), NEW e \in DOMAIN enemies
               PROVE  enemies[e].x >= 0 /\ enemies[e].x + AlienWidth(e) <= XResolution
    BY DEF NeverOffSideways
  <2> QED
    BY InvMeansFormed, SpritesFit
<1> QED
  BY <1>1, <1>2, EnemiesStart, PTL DEF EnemiesSpec

-----------------------------------------------------------------------------
(***************************************************************************)
(* The inductive invariant.  To the invariants of the three components it  *)
(* adds why a frame is one of theirs: the loop only goes on with a         *)
(* formation that was drawn and is not empty.                              *)
(***************************************************************************)
LoopGoesOn ==
  /\ game # "error" => EnemiesDrawn(enemies)
  /\ game = "running" => enemies # << >>

GameInv ==
  /\ EnemiesInv /\ InStep(enemies)
  /\ ShipInv
  /\ FireInv
  /\ LoopGoesOn
  /\ AbortsOnlyAtBottom

-----------------------------------------------------------------------------
(***************************************************************************)
(* The order in which check_bullet_enemy_collision() goes through the      *)
(* pairs of a bullet and an enemy is strict, so that it settles one pair.  *)
(***************************************************************************)
LEMMA IndexInjective ==
  ASSUME NEW e \in Enemy, NEW f \in Enemy, Index(e) = Index(f)
  PROVE  e = f
<1> USE EnemiesTypes
<1>1. /\ e[1] \in Nat /\ e[2] \in Nat /\ e[2] < ENEMY_COLS /\ e = << e[1], e[2] >>
      /\ f[1] \in Nat /\ f[2] \in Nat /\ f[2] < ENEMY_COLS /\ f = << f[1], f[2] >>
  BY DEF Enemy
<1>2. \A i, j \in Nat : i < j => i * ENEMY_COLS + ENEMY_COLS <= j * ENEMY_COLS
  <2> SUFFICES ASSUME NEW i \in Nat, NEW j \in Nat, i < j
               PROVE  i * ENEMY_COLS + ENEMY_COLS <= j * ENEMY_COLS
    OBVIOUS
  <2>1. (i + 1) * ENEMY_COLS <= j * ENEMY_COLS
    BY MulMonotone
  <2>2. (i + 1) * ENEMY_COLS = i * ENEMY_COLS + ENEMY_COLS
    OBVIOUS
  <2> QED
    BY <2>1, <2>2
<1>3. e[1] * ENEMY_COLS \in Nat /\ f[1] * ENEMY_COLS \in Nat
  BY <1>1
<1>4. e[1] * ENEMY_COLS + e[2] = f[1] * ENEMY_COLS + f[2]
  BY DEF Index
<1>5. ~(e[1] < f[1]) /\ ~(f[1] < e[1])
  BY <1>1, <1>2, <1>3, <1>4
<1>6. e[1] = f[1]
  BY <1>1, <1>5
<1>7. e[2] = f[2]
  BY <1>1, <1>3, <1>4, <1>6
<1> QED
  BY <1>1, <1>6, <1>7

LEMMA HitIsOne ==
  ASSUME NEW bs, NEW es, DOMAIN bs \subseteq Slot, DOMAIN es \subseteq Enemy,
         NEW p \in Hit(bs, es), NEW q \in Hit(bs, es)
  PROVE  p = q
<1>1. /\ p = << p[1], p[2] >> /\ p[1] \in Slot /\ p[2] \in Enemy
      /\ q = << q[1], q[2] >> /\ q[1] \in Slot /\ q[2] \in Enemy
  BY DEF Hit, Touching
<1>2. Precedes(p, q) /\ Precedes(q, p)
  BY DEF Hit
<1>3. p[1] = q[1]
  BY <1>1, <1>2 DEF Precedes, Slot
<1>4. Index(p[2]) \in Int /\ Index(q[2]) \in Int
  BY <1>1, EnemiesTypes DEF Index, Enemy
<1>5. Index(p[2]) <= Index(q[2]) /\ Index(q[2]) <= Index(p[2])
  BY <1>1, <1>2, <1>3 DEF Precedes, Slot
<1>6. p[2] = q[2]
  BY <1>1, <1>4, <1>5, IndexInjective
<1> QED
  BY <1>1, <1>3, <1>6

(***************************************************************************)
(* What the check leaves, then: all of both, or all but one of each.       *)
(***************************************************************************)
LEMMA HitSettled ==
  ASSUME NEW bs, NEW es, DOMAIN bs \subseteq Slot, DOMAIN es \subseteq Enemy,
         bs = [s \in DOMAIN bs |-> bs[s]], es = [e \in DOMAIN es |-> es[e]],
         check_bullet_enemy_collision(bs, es)
  PROVE  \/ Hit(bs, es) = {} /\ bullets' = bs /\ enemies' = es
         \/ \E s \in DOMAIN bs, e \in DOMAIN es :
              /\ << s, e >> \in Hit(bs, es)
              /\ bullets' = BulletsWithout(bs, {s})
              /\ enemies' = Without(es, {e})
<1>1. CASE Hit(bs, es) = {}
  <2>1. {p[1] : p \in Hit(bs, es)} = {} /\ {p[2] : p \in Hit(bs, es)} = {}
    BY <1>1
  <2>2. BulletsWithout(bs, {}) = bs /\ Without(es, {}) = es
    BY DEF BulletsWithout, Without
  <2> QED
    BY <1>1, <2>1, <2>2 DEF check_bullet_enemy_collision
<1>2. CASE Hit(bs, es) # {}
  <2>1. PICK p \in Hit(bs, es) : TRUE
    BY <1>2
  <2>2. p = << p[1], p[2] >> /\ p[1] \in DOMAIN bs /\ p[2] \in DOMAIN es
    BY <2>1 DEF Hit, Touching
  <2>3. \A q \in Hit(bs, es) : q = p
    BY <2>1, HitIsOne
  <2>4. {q[1] : q \in Hit(bs, es)} = {p[1]} /\ {q[2] : q \in Hit(bs, es)} = {p[2]}
    BY <2>1, <2>3
  <2>5. bullets' = BulletsWithout(bs, {p[1]}) /\ enemies' = Without(es, {p[2]})
    BY <2>4 DEF check_bullet_enemy_collision
  <2>6. << p[1], p[2] >> \in Hit(bs, es)
    BY <2>1, <2>2
  <2> QED
    BY <2>2, <2>5, <2>6
<1> QED
  BY <1>1, <1>2

-----------------------------------------------------------------------------
(***************************************************************************)
(* The whole formation is on the screen when a game starts.                *)
(***************************************************************************)
LEMMA StartIsDrawn == EnemiesDrawn(StartFormation) /\ StartFormation # << >>
<1> USE EnemiesTypes
<1>1. DOMAIN StartFormation = Enemy
  BY DEF StartFormation
<1>2. StartFormation # << >>
  <2>1. << 0, 0 >> \in Enemy
    BY DEF Enemy
  <2>2. DOMAIN << >> = {}
    OBVIOUS
  <2> QED
    BY <1>1, <2>1, <2>2
<1>3. ASSUME NEW e \in Enemy
      PROVE  Printable(StartFormation[e], AlienWidth(e), ALIEN_HEIGHT)
  <2>1. Formed(StartFormation, 1, FALSE) /\ InStep(StartFormation)
    BY StartIsFormed, StartIsInStep
  <2>2. /\ StartFormation[e].x \in Nat /\ StartFormation[e].y \in Nat
        /\ StartFormation[e].x + AlienWidth(e) <= XResolution
    BY <1>1, <2>1, SpritesFit
  <2>3. StartFormation[e].y + ALIEN_HEIGHT <= YResolution
    <3>1. e[1] \in Nat /\ e[1] <= ENEMY_ROWS - 1
      BY DEF Enemy
    <3>2. e[1] * ENEMY_SPACING_Y <= (ENEMY_ROWS - 1) * ENEMY_SPACING_Y
      BY <3>1, MulMonotone
    <3>3. e[1] * ENEMY_SPACING_Y \in Int /\ (ENEMY_ROWS - 1) * ENEMY_SPACING_Y \in Int
      BY <3>1
    <3>4. StartFormation[e].y = ENEMY_START_Y + e[1] * ENEMY_SPACING_Y
      BY DEF StartFormation, At, StartY
    <3> QED
      BY <3>2, <3>3, <3>4, FormationAssumption
  <2> QED
    BY <2>2, <2>3 DEF Printable
<1> QED
  BY <1>1, <1>2, <1>3 DEF EnemiesDrawn

(***************************************************************************)
(* How far a frame moves an enemy.                                         *)
(***************************************************************************)
LEMMA MovedPlace ==
  ASSUME EnemiesInv
  PROVE  /\ DOMAIN EnemiesMoved = DOMAIN enemies
         /\ EnemiesMoved = [e \in DOMAIN enemies |-> EnemiesMoved[e]]
         /\ \A e \in DOMAIN enemies :
              /\ enemies[e].x \in Int /\ enemies[e].y \in Int
              /\ EnemiesMoved[e].y \in Int
              /\ EnemiesMoved[e].y <= enemies[e].y + DROP_Y
<1> USE EnemiesTypes
<1>1. \A e \in DOMAIN enemies :
        enemies[e] \in Position /\ enemies[e].x \in Int /\ enemies[e].y \in Int
  BY DEF EnemiesInv, EnemiesTypeOK, Position
<1>2. enemies = [e \in DOMAIN enemies |-> enemies[e]]
  BY DEF EnemiesInv, EnemiesTypeOK
<1>3. \A e \in DOMAIN enemies :
        Shifted(enemies[e]).y \in Int /\ Shifted(enemies[e]).y <= enemies[e].y + DROP_Y
  BY <1>1 DEF Shifted, Position
<1> QED
  BY <1>1, <1>2, <1>3 DEF EnemiesMoved

-----------------------------------------------------------------------------
(***************************************************************************)
(* A frame of the loop is a step of each of the three components.          *)
(***************************************************************************)
LEMMA UpdatedBullets ==
  ASSUME ShipInv
  PROVE  /\ Spaced(update_bullets, DelayTicked)
         /\ DOMAIN update_bullets \subseteq Slot
         /\ update_bullets = [s \in DOMAIN update_bullets |-> update_bullets[s]]
<1>1. Spaced(update_bullets, DelayTicked)
  BY InvMeansSpaced, UpdateIsSpaced
<1> QED
  BY <1>1 DEF Spaced

LEMMA FrameSettles ==
  ASSUME GameInv, NEW ebs, Frame(ebs)
  PROVE  LET bs == update_bullets
             es == EnemiesMoved
         IN  \/ Hit(bs, es) = {} /\ bullets' = bs /\ enemies' = es
             \/ \E s \in DOMAIN bs, e \in DOMAIN es :
                  /\ << s, e >> \in Hit(bs, es)
                  /\ bullets' = BulletsWithout(bs, {s})
                  /\ enemies' = Without(es, {e})
<1>1. /\ DOMAIN update_bullets \subseteq Slot
      /\ update_bullets = [s \in DOMAIN update_bullets |-> update_bullets[s]]
  BY UpdatedBullets DEF GameInv
<1>2. /\ DOMAIN EnemiesMoved \subseteq Enemy
      /\ EnemiesMoved = [e \in DOMAIN EnemiesMoved |-> EnemiesMoved[e]]
  BY MovedPlace DEF GameInv, EnemiesInv, EnemiesTypeOK
<1>3. check_bullet_enemy_collision(update_bullets, EnemiesMoved)
  BY DEF Frame
<1> QED
  BY <1>1, <1>2, <1>3, HitSettled

LEMMA FrameIsEnemiesTick ==
  ASSUME GameInv, Timer
  PROVE  EnemiesTick
<1>1. PICK ebs : Frame(ebs)
  BY DEF Timer
<1>2. enemies # << >> /\ EnemiesDrawn(enemies)
  BY DEF Timer, GameInv, LoopGoesOn
<1>3. EnemiesMoving
  BY <1>1 DEF Frame
<1>4. \/ enemies' = EnemiesMoved
      \/ \E e \in DOMAIN enemies : enemies' = Without(EnemiesMoved, {e})
  BY <1>1, FrameSettles, MovedPlace DEF GameInv
<1> QED
  BY <1>2, <1>3, <1>4 DEF EnemiesTick

LEMMA FrameIsShipTick ==
  ASSUME GameInv, Timer
  PROVE  ShipTick
<1>1. PICK ebs : Frame(ebs)
  BY DEF Timer
<1>2. ShipDrawn /\ BulletsDrawn(bullets)
  BY DEF GameInv, ShipInv, ShipOnScreen, BulletsOnScreen
<1>3. fire_delay_counter' = DelayTicked /\ UNCHANGED x
  BY <1>1 DEF Frame
<1>4. \/ bullets' = update_bullets
      \/ \E s \in DOMAIN update_bullets : bullets' = BulletsWithout(update_bullets, {s})
  BY <1>1, FrameSettles
<1> QED
  BY <1>2, <1>3, <1>4 DEF ShipTick

(***************************************************************************)
(* An enemy that fires is at a place that Muzzles allows for: it was drawn *)
(* in the frame before and has come down by one step at most.              *)
(***************************************************************************)
LEMMA FromMuzzles ==
  ASSUME GameInv, Timer, NEW e \in DOMAIN enemies
  PROVE  MuzzleOf(EnemiesMoved[e]) \in Muzzles
<1> USE EnemiesTypes
<1>1. Formed(EnemiesMoved, enemy_direction', should_drop') /\ InStep(EnemiesMoved)
  BY FrameIsEnemiesTick, InvMeansFormed, MovedIsFormed, MovedIsInStep
     DEF GameInv, EnemiesTick
<1>2. e \in DOMAIN EnemiesMoved
  BY MovedPlace DEF GameInv
<1> DEFINE m == EnemiesMoved[e]
<1>3. /\ m.x \in Nat /\ m.y \in Nat /\ m.x + ENEMY_WIDTH < XResolution
      /\ m.y >= ENEMY_START_Y
  BY <1>1, <1>2, SpritesFit
<1>4. m.y <= enemies[e].y + DROP_Y /\ enemies[e].y \in Int
  BY MovedPlace DEF GameInv
<1>5. enemies[e].y + ALIEN_HEIGHT <= YResolution
  BY DEF Timer, GameInv, LoopGoesOn, EnemiesDrawn, Printable
<1> HIDE DEF m
<1>6. /\ m.x \in 0 .. XResolution - ENEMY_WIDTH
      /\ m.y \in ENEMY_START_Y .. YResolution + DROP_Y - ALIEN_HEIGHT
  BY <1>3, <1>4, <1>5
<1>7. MuzzleOf(At(m.x, m.y)) = MuzzleOf(m)
  BY DEF MuzzleOf, At
<1> QED
  BY <1>6, <1>7, FormationAssumption DEF m

LEMMA FrameIsFireTick ==
  ASSUME GameInv, Timer
  PROVE  EnemyFireTick
<1>1. PICK ebs \in FiredBy(EnemiesMoved, update_enemy_bullets) : Frame(ebs)
  BY DEF Timer
<1>2. ebs \in ShotsOf(update_enemy_bullets)
  <2>1. CASE FiringFrame /\ EnemiesMoved # << >>
    <3>1. PICK e \in DOMAIN EnemiesMoved :
            ebs = WithShot(update_enemy_bullets, MuzzleOf(EnemiesMoved[e]))
      BY <1>1, <2>1 DEF FiredBy
    <3>2. MuzzleOf(EnemiesMoved[e]) \in Muzzles
      BY <3>1, FromMuzzles, MovedPlace DEF GameInv
    <3> QED
      BY <2>1, <3>1, <3>2 DEF ShotsOf
  <2>2. CASE ~(FiringFrame /\ EnemiesMoved # << >>)
    BY <1>1, <2>2 DEF FiredBy, ShotsOf
  <2> QED
    BY <2>1, <2>2
<1>3. StrikingShip(ebs) \in SUBSET DOMAIN ebs
  BY DEF StrikingShip
<1>4. check_shield_collision([s \in DOMAIN ebs \ StrikingShip(ebs) |-> ebs[s]])
  BY <1>1 DEF Frame
<1>5. timer_phase' = PhaseTicked
  BY <1>1 DEF Frame
<1> QED
  BY <1>2, <1>3, <1>4, <1>5 DEF EnemyFireTick

-----------------------------------------------------------------------------
(***************************************************************************)
(* What every step of the loop is to the three components.                 *)
(***************************************************************************)
LEMMA StepsOfComponents ==
  ASSUME GameInv, [GameNext]_gameVars
  PROVE  /\ [EnemiesNext]_formation
         /\ [ShipNext]_shipVars
         /\ [EnemyFireNext]_enemyFireVars
<1>1. CASE Keyboard
  BY <1>1 DEF Keyboard, ShipNext
<1>2. CASE Timer
  BY <1>2, FrameIsEnemiesTick, FrameIsShipTick, FrameIsFireTick
     DEF EnemiesNext, ShipNext, EnemyFireNext
<1>3. CASE Leave
  BY <1>3 DEF Leave
<1>4. CASE NewGame
  BY <1>4 DEF NewGame, EnemiesNext, ShipNext, EnemyFireNext
<1>5. CASE UNCHANGED gameVars
  BY <1>5 DEF gameVars
<1> QED
  BY <1>1, <1>2, <1>3, <1>4, <1>5 DEF GameNext

LEMMA ComponentsKeepInv ==
  ASSUME GameInv, [GameNext]_gameVars
  PROVE  /\ EnemiesInv' /\ InStep(enemies')
         /\ ShipInv'
         /\ FireInv'
<1>1. /\ [EnemiesNext]_formation
      /\ [ShipNext]_shipVars
      /\ [EnemyFireNext]_enemyFireVars
  BY StepsOfComponents
<1>2. EnemiesInv' /\ InStep(enemies')
  BY <1>1, EnemiesStep DEF GameInv
<1>3. ShipInv'
  BY <1>1, ShipStep DEF GameInv
<1>4. FireInv'
  BY <1>1, FireInvKept DEF GameInv
<1> QED
  BY <1>2, <1>3, <1>4

(***************************************************************************)
(* A frame that is not drawn has an enemy under the lower border: the ship *)
(* and its bullets are on the screen, and the sprites between its sides.   *)
(***************************************************************************)
LEMMA FrameKeepsLoop ==
  ASSUME GameInv, Timer, EnemiesInv', InStep(enemies'), ShipInv'
  PROVE  LoopGoesOn' /\ AbortsOnlyAtBottom'
<1>1. PICK ebs : Frame(ebs)
  BY DEF Timer
<1>2. ShipDrawn /\ BulletsDrawn(bullets')
  BY <1>1 DEF Frame, GameInv, ShipInv, ShipOnScreen, BulletsOnScreen
<1>3. game' = IF ~(ShipDrawn /\ EnemiesDrawn(enemies') /\ BulletsDrawn(bullets'))
                THEN "error"
              ELSE IF StrikingShip(ebs) # {} \/ ShipRammed(enemies') THEN "lost"
              ELSE IF enemies' = << >> THEN "won"
              ELSE "running"
  BY <1>1 DEF Frame
<1>4. \/ game' = "error" /\ ~EnemiesDrawn(enemies')
      \/ game' \in {"lost", "won"} /\ EnemiesDrawn(enemies')
      \/ game' = "running" /\ EnemiesDrawn(enemies') /\ enemies' # << >>
  BY <1>2, <1>3
<1>5. /\ game' = "error" <=> ~EnemiesDrawn(enemies')
      /\ game' = "running" => enemies' # << >>
  BY <1>4
<1>6. ASSUME ~EnemiesDrawn(enemies')
      PROVE  \E e \in DOMAIN enemies' : enemies'[e].y + ALIEN_HEIGHT > YResolution
  <2>1. PICK e \in DOMAIN enemies' : ~Printable(enemies'[e], AlienWidth(e), ALIEN_HEIGHT)
    BY <1>6 DEF EnemiesDrawn
  <2>2. Formed(enemies', enemy_direction', should_drop')
    BY DEF EnemiesInv, EnemiesTypeOK, FormationRigid, DescentNotPreempted,
           BoxesOnScreen, Formed
  <2>3. /\ enemies'[e].x \in Nat /\ enemies'[e].y \in Nat
        /\ enemies'[e].x + AlienWidth(e) <= XResolution
    BY <2>2, SpritesFit
  <2> QED
    BY <2>1, <2>3, EnemiesTypes DEF Printable
<1>7. LoopGoesOn'
  BY <1>5 DEF LoopGoesOn, EnemiesDrawn
<1>8. AbortsOnlyAtBottom'
  BY <1>5, <1>6 DEF AbortsOnlyAtBottom
<1> QED
  BY <1>7, <1>8

LEMMA GameInvKept == GameInv /\ [GameNext]_gameVars => GameInv'
<1> SUFFICES ASSUME GameInv, [GameNext]_gameVars
             PROVE  LoopGoesOn' /\ AbortsOnlyAtBottom'
  BY ComponentsKeepInv DEF GameInv
<1>1. CASE Keyboard
  BY <1>1 DEF Keyboard, formation, GameInv, LoopGoesOn, EnemiesDrawn, AbortsOnlyAtBottom
<1>2. CASE Timer
  BY <1>2, ComponentsKeepInv, FrameKeepsLoop
<1>3. CASE Leave
  BY <1>3 DEF Leave, formation, GameInv, LoopGoesOn, EnemiesDrawn, AbortsOnlyAtBottom
<1>4. CASE NewGame
  BY <1>4, StartIsDrawn DEF NewGame, EnemiesNewGame, LoopGoesOn, AbortsOnlyAtBottom
<1>5. CASE UNCHANGED gameVars
  BY <1>5 DEF gameVars, formation, GameInv, LoopGoesOn, EnemiesDrawn, AbortsOnlyAtBottom
<1> QED
  BY <1>1, <1>2, <1>3, <1>4, <1>5 DEF GameNext

(***************************************************************************)
(* GameInv is an invariant of the game loop.                               *)
(***************************************************************************)
THEOREM GameInvariant == GameSpec => []GameInv
<1>1. GameInit => GameInv
  <2> SUFFICES ASSUME GameInit PROVE GameInv
    OBVIOUS
  <2>1. EnemiesInv /\ InStep(enemies)
    BY EnemiesStart DEF GameInit
  <2>2. ShipInv
    BY ShipInitInv DEF GameInit
  <2>3. FireInv
    BY NewGameFireInv DEF GameInit, EnemyFireInit
  <2>4. LoopGoesOn /\ AbortsOnlyAtBottom
    BY StartIsDrawn DEF GameInit, EnemiesInit, LoopGoesOn, AbortsOnlyAtBottom
  <2> QED
    BY <2>1, <2>2, <2>3, <2>4 DEF GameInv
<1> QED
  BY <1>1, GameInvKept, PTL DEF GameSpec

(***************************************************************************)
(* The only drawing error that can end the program from within a game is   *)
(* an enemy that has come down to the lower border.                        *)
(***************************************************************************)
THEOREM EndsOnlyAtBottom == GameSpec => []AbortsOnlyAtBottom
<1>1. GameInv => AbortsOnlyAtBottom
  BY DEF GameInv
<1> QED
  BY <1>1, GameInvariant, PTL

(***************************************************************************)
(* The game loop implements Enemies: each frame is a tick of the formation *)
(* in which at most one enemy is hit, and all else that game_state() does  *)
(* is a stutter of it.  The refinement mapping is the identity, here and   *)
(* in the next two; what is proved of a component thus holds in the game.  *)
(***************************************************************************)
THEOREM GameImplementsEnemies == GameSpec => EnemiesSpec
<1>1. GameInit => EnemiesInit
  BY DEF GameInit
<1>2. GameInv /\ [GameNext]_gameVars => [EnemiesNext]_formation
  BY StepsOfComponents
<1> QED
  BY <1>1, <1>2, GameInvariant, PTL DEF GameSpec, EnemiesSpec

(***************************************************************************)
(* The game loop implements Ship: ship_action() runs in the keyboard       *)
(* branch, update_bullets() and at most one hit in every frame.            *)
(***************************************************************************)
THEOREM GameImplementsShip == GameSpec => ShipSpec
<1>1. GameInit => ShipInit
  BY DEF GameInit
<1>2. GameInv /\ [GameNext]_gameVars => [ShipNext]_shipVars
  BY StepsOfComponents
<1> QED
  BY <1>1, <1>2, GameInvariant, PTL DEF GameSpec, ShipSpec

(***************************************************************************)
(* The game loop implements EnemyFire: the enemies of the formation fire   *)
(* from Muzzles only, and what they fire falls, wears the shields and is   *)
(* removed from the ship as that module allows.                            *)
(***************************************************************************)
THEOREM GameImplementsEnemyFire == GameSpec => EnemyFireSpec
<1>1. GameInit => EnemyFireInit
  BY DEF GameInit
<1>2. GameInv /\ [GameNext]_gameVars => [EnemyFireNext]_enemyFireVars
  BY StepsOfComponents
<1> QED
  BY <1>1, <1>2, GameInvariant, PTL DEF GameSpec, EnemyFireSpec

-----------------------------------------------------------------------------
(***************************************************************************)
(* The bullets and the enemies that a frame leaves are where the frame has *)
(* moved them to.                                                          *)
(***************************************************************************)
LEMMA LeftWhereMoved ==
  ASSUME GameInv, Timer
  PROVE  /\ \A s \in DOMAIN bullets' :
              s \in DOMAIN update_bullets /\ bullets'[s] = update_bullets[s]
         /\ \A e \in DOMAIN enemies' :
              e \in DOMAIN EnemiesMoved /\ enemies'[e] = EnemiesMoved[e]
<1>1. PICK ebs : Frame(ebs)
  BY DEF Timer
<1>2. \E hit : bullets' = update_bullets \/ bullets' = BulletsWithout(update_bullets, hit)
  BY <1>1, FrameSettles
<1>3. \E hit : enemies' = EnemiesMoved \/ enemies' = Without(EnemiesMoved, hit)
  BY <1>1, FrameSettles
<1>4. \A s \in DOMAIN bullets' :
        s \in DOMAIN update_bullets /\ bullets'[s] = update_bullets[s]
  BY <1>2 DEF BulletsWithout
<1>5. \A e \in DOMAIN enemies' :
        e \in DOMAIN EnemiesMoved /\ enemies'[e] = EnemiesMoved[e]
  BY <1>3 DEF Without
<1> QED
  BY <1>4, <1>5

LEMMA NoneSkipped ==
  ASSUME GameInv, Timer,
         NEW s \in (DOMAIN bullets) \cap (DOMAIN bullets'),
         NEW e \in (DOMAIN enemies) \cap (DOMAIN enemies'),
         bullets[s].y >= enemies[e].y + ENEMY_HEIGHT
  PROVE  bullets'[s].y + BULLET_HEIGHT > enemies'[e].y
<1>1. bullets[s] \in Position /\ bullets[s].y \in Int
  BY DEF GameInv, ShipInv, ShipTypeOK, Position
<1>2. update_bullets[s].y = bullets[s].y - BULLET_SPEED /\ bullets'[s] = update_bullets[s]
  <2>1. s \in DOMAIN update_bullets /\ bullets'[s] = update_bullets[s]
    BY LeftWhereMoved
  <2>2. update_bullets[s] = [bullets[s] EXCEPT !.y = @ - BULLET_SPEED]
    BY <2>1 DEF update_bullets
  <2> QED
    BY <1>1, <2>1, <2>2 DEF Position
<1>3. /\ enemies'[e] = EnemiesMoved[e]
      /\ enemies[e].y \in Int /\ EnemiesMoved[e].y \in Int
      /\ EnemiesMoved[e].y <= enemies[e].y + DROP_Y
  BY LeftWhereMoved, MovedPlace DEF GameInv
<1> QED
  BY <1>1, <1>2, <1>3, EnemiesTypes, ShipTypes, HitAssumption

(***************************************************************************)
(* A bullet never skips an enemy, for every speed of the bullets and every *)
(* descent that together are less than the heights of a bullet and of an   *)
(* enemy (update_bullets() and move_enemies() in one frame).               *)
(***************************************************************************)
THEOREM BulletsSkipNone == GameSpec => NoEnemySkipped
<1>1. GameInv /\ Timer =>
        \A s \in (DOMAIN bullets) \cap (DOMAIN bullets'),
           e \in (DOMAIN enemies) \cap (DOMAIN enemies') :
          /\ SameColumn(bullets[s], enemies[e])
          /\ SameColumn(bullets'[s], enemies'[e])
          /\ bullets[s].y >= enemies[e].y + ENEMY_HEIGHT
          => bullets'[s].y + BULLET_HEIGHT > enemies'[e].y
  BY NoneSkipped
<1> QED
  BY <1>1, GameInvariant, PTL DEF GameSpec, NoEnemySkipped

-----------------------------------------------------------------------------
(***************************************************************************)
(* Two places of the formation are as far apart as a column or a row.      *)
(***************************************************************************)
LEMMA Apart ==
  ASSUME NEW i \in Nat, NEW j \in Nat, i < j, NEW n \in Nat
  PROVE  j * n - i * n >= n /\ i * n \in Nat /\ j * n \in Nat
<1>1. (i + 1) * n <= j * n
  BY MulMonotone
<1>2. (i + 1) * n = i * n + n
  OBVIOUS
<1>3. i * n \in Nat /\ j * n \in Nat
  OBVIOUS
<1> QED
  BY <1>1, <1>2, <1>3

(***************************************************************************)
(* One bullet does not touch two enemies of a formation ...                *)
(***************************************************************************)
LEMMA TouchesOneEnemy ==
  ASSUME NEW es, NEW dir, NEW drop, Formed(es, dir, drop), NEW b \in Position,
         NEW e \in DOMAIN es, NEW f \in DOMAIN es,
         Overlap(b, BULLET_WIDTH, BULLET_HEIGHT, es[e], ENEMY_WIDTH, ENEMY_HEIGHT),
         Overlap(b, BULLET_WIDTH, BULLET_HEIGHT, es[f], ENEMY_WIDTH, ENEMY_HEIGHT)
  PROVE  e = f
<1> USE EnemiesTypes, ShipTypes
<1>1. /\ e[1] \in Nat /\ e[2] \in Nat /\ e = << e[1], e[2] >>
      /\ f[1] \in Nat /\ f[2] \in Nat /\ f = << f[1], f[2] >>
  BY DEF Formed, Enemy
<1>2. /\ b.x \in Int /\ b.y \in Int
      /\ es[e].x \in Int /\ es[e].y \in Int /\ es[f].x \in Int /\ es[f].y \in Int
  BY DEF Formed, Position
<1>3. /\ es[e].x - es[f].x < ENEMY_WIDTH + BULLET_WIDTH
      /\ es[f].x - es[e].x < ENEMY_WIDTH + BULLET_WIDTH
      /\ es[e].y - es[f].y < ENEMY_HEIGHT + BULLET_HEIGHT
      /\ es[f].y - es[e].y < ENEMY_HEIGHT + BULLET_HEIGHT
  BY <1>2 DEF Overlap
<1>4. /\ e[1] * ENEMY_SPACING_Y \in Nat /\ f[1] * ENEMY_SPACING_Y \in Nat
      /\ e[2] * ENEMY_SPACING_X \in Nat /\ f[2] * ENEMY_SPACING_X \in Nat
  BY <1>1
<1>5. /\ es[e].x - es[f].x = e[2] * ENEMY_SPACING_X - f[2] * ENEMY_SPACING_X
      /\ es[e].y - es[f].y = e[1] * ENEMY_SPACING_Y - f[1] * ENEMY_SPACING_Y
  BY <1>4 DEF Formed, StartX, StartY
<1>6. e[2] = f[2]
  <2>1. ~(e[2] < f[2])
    BY <1>1, <1>2, <1>3, <1>4, <1>5, Apart, HitAssumption
  <2>2. ~(f[2] < e[2])
    BY <1>1, <1>2, <1>3, <1>4, <1>5, Apart, HitAssumption
  <2> QED
    BY <1>1, <2>1, <2>2
<1>7. e[1] = f[1]
  <2>1. ~(e[1] < f[1])
    BY <1>1, <1>2, <1>3, <1>4, <1>5, Apart, HitAssumption
  <2>2. ~(f[1] < e[1])
    BY <1>1, <1>2, <1>3, <1>4, <1>5, Apart, HitAssumption
  <2> QED
    BY <1>1, <2>1, <2>2
<1> QED
  BY <1>1, <1>6, <1>7

(***************************************************************************)
(* ... and two bullets are not both within reach of it: the delay of       *)
(* ship_action() keeps them further apart than the formation is high.      *)
(***************************************************************************)
LEMMA OneBulletTouches ==
  ASSUME NEW es, NEW dir, NEW drop, Formed(es, dir, drop), NEW bs, NEW n, Spaced(bs, n),
         NEW s \in DOMAIN bs, NEW t \in DOMAIN bs, NEW e \in DOMAIN es, NEW f \in DOMAIN es,
         Overlap(bs[s], BULLET_WIDTH, BULLET_HEIGHT, es[e], ENEMY_WIDTH, ENEMY_HEIGHT),
         Overlap(bs[t], BULLET_WIDTH, BULLET_HEIGHT, es[f], ENEMY_WIDTH, ENEMY_HEIGHT)
  PROVE  s = t
<1> USE EnemiesTypes, ShipTypes
<1> SUFFICES ASSUME s # t PROVE FALSE
  OBVIOUS
<1>1. /\ bs[s].y \in Int /\ bs[t].y \in Int
      /\ es[e].y \in Int /\ es[f].y \in Int
  BY DEF Formed, Spaced, Position
<1>2. /\ bs[s].y < es[e].y + ENEMY_HEIGHT /\ bs[s].y + BULLET_HEIGHT > es[e].y
      /\ bs[t].y < es[f].y + ENEMY_HEIGHT /\ bs[t].y + BULLET_HEIGHT > es[f].y
  BY DEF Overlap
<1> DEFINE height == (ENEMY_ROWS - 1) * ENEMY_SPACING_Y
<1>3. height \in Int /\ es[e].y - es[f].y <= height /\ es[f].y - es[e].y <= height
  <2>1. \A g \in Enemy : g[1] \in Nat /\ g[1] <= ENEMY_ROWS - 1
    BY DEF Enemy
  <2>2. \A g \in Enemy : /\ g[1] * ENEMY_SPACING_Y \in Nat
                          /\ g[1] * ENEMY_SPACING_Y <= height
    BY <2>1, MulMonotone
  <2>3. e \in Enemy /\ f \in Enemy
    BY DEF Formed
  <2>4. es[e].y - es[f].y = e[1] * ENEMY_SPACING_Y - f[1] * ENEMY_SPACING_Y
    BY <2>2, <2>3 DEF Formed, StartY
  <2>5. height \in Int
    OBVIOUS
  <2> HIDE DEF height
  <2> QED
    BY <1>1, <2>2, <2>3, <2>4, <2>5
<1>4. \/ bs[s].y - bs[t].y >= Climb(FIRE_DELAY)
      \/ bs[t].y - bs[s].y >= Climb(FIRE_DELAY)
  BY DEF Spaced
<1>5. height + ENEMY_HEIGHT + BULLET_HEIGHT <= Climb(FIRE_DELAY) /\ Climb(FIRE_DELAY) \in Nat
  BY HitAssumption, ClimbFacts
<1> HIDE DEF height
<1> QED
  BY <1>1, <1>2, <1>3, <1>4, <1>5

LEMMA FrameLeavesNoHit ==
  ASSUME GameInv, Timer
  PROVE  Touching(bullets', enemies') = {}
<1> DEFINE bs == update_bullets
           es == EnemiesMoved
<1>1. PICK ebs : Frame(ebs)
  BY DEF Timer
<1>2. Spaced(bs, DelayTicked)
  BY UpdatedBullets DEF GameInv
<1>3. Formed(es, enemy_direction', should_drop')
  BY FrameIsEnemiesTick, InvMeansFormed, MovedIsFormed DEF GameInv, EnemiesTick
<1>4. \/ Hit(bs, es) = {} /\ bullets' = bs /\ enemies' = es
      \/ \E s \in DOMAIN bs, e \in DOMAIN es :
           /\ << s, e >> \in Hit(bs, es)
           /\ bullets' = BulletsWithout(bs, {s})
           /\ enemies' = Without(es, {e})
  BY <1>1, FrameSettles
<1> HIDE DEF bs, es
<1>5. \A p, q \in Touching(bs, es) : p = q
  <2> SUFFICES ASSUME NEW p \in Touching(bs, es), NEW q \in Touching(bs, es)
               PROVE  p = q
    OBVIOUS
  <2>1. /\ p = << p[1], p[2] >> /\ p[1] \in DOMAIN bs /\ p[2] \in DOMAIN es
        /\ q = << q[1], q[2] >> /\ q[1] \in DOMAIN bs /\ q[2] \in DOMAIN es
        /\ Overlap(bs[p[1]], BULLET_WIDTH, BULLET_HEIGHT, es[p[2]], ENEMY_WIDTH, ENEMY_HEIGHT)
        /\ Overlap(bs[q[1]], BULLET_WIDTH, BULLET_HEIGHT, es[q[2]], ENEMY_WIDTH, ENEMY_HEIGHT)
    BY DEF Touching
  <2>2. p[1] = q[1]
    BY <1>2, <1>3, <2>1, OneBulletTouches
  <2>3. bs[p[1]] \in Position
    BY <1>2, <2>1 DEF Spaced
  <2>4. p[2] = q[2]
    BY <1>3, <2>1, <2>2, <2>3, TouchesOneEnemy
  <2> QED
    BY <2>1, <2>2, <2>4
<1>6. CASE Hit(bs, es) = {} /\ bullets' = bs /\ enemies' = es
  <2>1. \A p \in Touching(bs, es) : Precedes(p, p)
    <3> SUFFICES ASSUME NEW p \in Touching(bs, es) PROVE Precedes(p, p)
      OBVIOUS
    <3>1. p[2] \in Enemy
      BY <1>3 DEF Touching, Formed
    <3>2. Index(p[2]) \in Int
      BY <3>1, EnemiesTypes DEF Index, Enemy
    <3> QED
      BY <3>2 DEF Precedes
  <2>2. Touching(bs, es) \subseteq Hit(bs, es)
    BY <1>5, <2>1 DEF Hit
  <2> QED
    BY <1>6, <2>2
<1>7. ASSUME NEW s \in DOMAIN bs, NEW e \in DOMAIN es,
             << s, e >> \in Hit(bs, es),
             bullets' = BulletsWithout(bs, {s}),
             enemies' = Without(es, {e})
      PROVE  Touching(bullets', enemies') = {}
  <2> SUFFICES ASSUME NEW p \in Touching(bullets', enemies') PROVE FALSE
    OBVIOUS
  <2>1. p \in Touching(bs, es) /\ p[1] # s
    BY <1>7 DEF Touching, BulletsWithout, Without
  <2>2. << s, e >> \in Touching(bs, es)
    BY <1>7 DEF Hit
  <2>3. p = << s, e >>
    BY <1>5, <2>1, <2>2
  <2> QED
    BY <2>1, <2>3
<1> QED
  BY <1>4, <1>6, <1>7

(***************************************************************************)
(* No hit is left for the next frame, although                             *)
(* check_bullet_enemy_collision() returns at the first one.                *)
(***************************************************************************)
THEOREM HitsAreSettled == GameSpec => HitsSettled
<1>1. GameInv /\ Timer => Touching(bullets', enemies') = {}
  BY FrameLeavesNoHit
<1> QED
  BY <1>1, GameInvariant, PTL DEF GameSpec, HitsSettled

=============================================================================
