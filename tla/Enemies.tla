------------------------------ MODULE Enemies ------------------------------
(***************************************************************************)
(* The alien formation: game/enemies/enemies.c and enemies_moving() of     *)
(* game/game_state.c.                                                      *)
(*                                                                         *)
(* The array enemies[] is a function whose domain is the set of the active *)
(* enemies: the coordinates of an inactive enemy are never read before     *)
(* init_enemies() writes them again, so they are not kept.  An enemy is    *)
(* named by its <<row, column>> of the formation; its type is its row.     *)
(***************************************************************************)
EXTENDS Screen

CONSTANTS
  ENEMY_ROWS, ENEMY_COLS,              \* the formation
  ENEMY_START_X, ENEMY_START_Y,        \* its top left enemy in a new game
  ENEMY_SPACING_X, ENEMY_SPACING_Y,
  ENEMY_WIDTH, ENEMY_HEIGHT,           \* the collision box of an enemy
  ALIEN_WIDTH, ALIEN3_WIDTH,           \* sprites Alien1 and Alien2; Alien3
  ALIEN_HEIGHT,
  EDGE,                                \* margin at which the formation turns
  STEP_X,                              \* pixels of a sideways move
  DROP_Y,                              \* pixels of a descent
  MOVE_PERIOD                          \* timer ticks between two moves

VARIABLES
  enemies,            \* active enemy -> [x, y]
  enemy_direction,    \* 1: right, -1: left
  should_drop,        \* the next move is a descent
  enemy_move_timer    \* ticks since the last move

formation == <<enemies, enemy_direction, should_drop, enemy_move_timer>>

Enemy == (0 .. ENEMY_ROWS - 1) \X (0 .. ENEMY_COLS - 1)

(***************************************************************************)
(* Where init_enemies() puts enemy e.                                      *)
(***************************************************************************)
StartX(e) == ENEMY_START_X + e[2] * ENEMY_SPACING_X
StartY(e) == ENEMY_START_Y + e[1] * ENEMY_SPACING_Y

StartFormation == [e \in Enemy |-> At(StartX(e), StartY(e))]

ASSUME EnemiesAssumption ==
  /\ {ENEMY_ROWS, ENEMY_COLS, MOVE_PERIOD} \subseteq Nat \ {0}
  /\ {ENEMY_START_X, ENEMY_START_Y, ENEMY_SPACING_X, ENEMY_SPACING_Y,
      ENEMY_WIDTH, ENEMY_HEIGHT, ALIEN_WIDTH, ALIEN3_WIDTH, ALIEN_HEIGHT,
      EDGE, STEP_X, DROP_Y} \subseteq Nat

(***************************************************************************)
(* The formation starts between the two margins, a sideways step is no     *)
(* longer than a margin, and the formation is narrow enough not to touch   *)
(* both margins at once.                                                   *)
(***************************************************************************)
ASSUME GeometryAssumption ==
  /\ ENEMY_START_X > EDGE
  /\ STEP_X <= EDGE
  /\ ENEMY_START_X + (ENEMY_COLS - 1) * ENEMY_SPACING_X + ENEMY_WIDTH
       < XResolution - EDGE
  /\ (ENEMY_COLS - 1) * ENEMY_SPACING_X + ENEMY_WIDTH + 2 * EDGE < XResolution

(***************************************************************************)
(* The columns start on multiples of a sideways step, and at no multiple   *)
(* of it does a sprite reach over the right border when the box, which is  *)
(* narrower, does not.                                                     *)
(***************************************************************************)
ASSUME AlignmentAssumption ==
  /\ STEP_X > 0
  /\ \E k \in 0 .. ENEMY_START_X : ENEMY_START_X = k * STEP_X
  /\ \E k \in 0 .. ENEMY_SPACING_X : ENEMY_SPACING_X = k * STEP_X
  /\ \A k \in 0 .. XResolution, w \in {ALIEN_WIDTH, ALIEN3_WIDTH} :
       k * STEP_X + ENEMY_WIDTH < XResolution => k * STEP_X + w <= XResolution

-----------------------------------------------------------------------------
\* Slips of AtEdge: no direction; no margin.
AtEitherEdge(es, dir) ==
  \E e \in DOMAIN es : es[e].x + ENEMY_WIDTH >= XResolution - EDGE \/ es[e].x <= EDGE

AtEdgeNoMargin(es, dir) ==
  \E e \in DOMAIN es :
    \/ dir > 0 /\ es[e].x + ENEMY_WIDTH >= XResolution
    \/ dir < 0 /\ es[e].x <= 0

(***************************************************************************)
(* move_enemies(): is some active enemy of es at the edge that a formation *)
(* heading in direction dir is moving to?                                  *)
(***************************************************************************)
AtEdge(es, dir) ==
  \E e \in DOMAIN es :
    \/ dir > 0 /\ es[e].x + ENEMY_WIDTH >= XResolution - EDGE
    \/ dir < 0 /\ es[e].x <= EDGE

MovesLate == enemy_move_timer + 1 > MOVE_PERIOD   \* a slip of Moves

(***************************************************************************)
(* Does this tick move the formation (enemies_moving), and does that move  *)
(* only turn it round (move_enemies, first half)?                          *)
(***************************************************************************)
Moves == enemy_move_timer + 1 >= MOVE_PERIOD

Turns == Moves /\ AtEdge(enemies, enemy_direction)

(***************************************************************************)
(* move_enemies(), second half: every active enemy drops or steps.         *)
(***************************************************************************)
Shifted(p) ==
  IF should_drop THEN [p EXCEPT !.y = @ + DROP_Y]
                 ELSE [p EXCEPT !.x = @ + enemy_direction * STEP_X]

\* A slip of EnemiesMoved: the edge is tested enemy by enemy, while they move.
EnemiesMovedOneByOne ==
  IF Moves THEN [e \in DOMAIN enemies |->
                   IF AtEdge([f \in {e} |-> enemies[f]], enemy_direction)
                     THEN enemies[e] ELSE Shifted(enemies[e])]
           ELSE enemies

(***************************************************************************)
(* The formation after enemies_moving() of this tick.                      *)
(***************************************************************************)
EnemiesMoved ==
  IF Moves /\ ~Turns THEN [e \in DOMAIN enemies |-> Shifted(enemies[e])]
                     ELSE enemies

\* A slip of EnemiesMoving: a turn announces no descent.
EnemiesMovingLevel ==
  /\ enemy_move_timer' = IF Moves THEN 0 ELSE enemy_move_timer + 1
  /\ enemy_direction'  = IF Turns THEN enemy_direction * (-1) ELSE enemy_direction
  /\ should_drop'      = FALSE

(***************************************************************************)
(* What enemies_moving() does to the formation's own variables.            *)
(***************************************************************************)
EnemiesMoving ==
  /\ enemy_move_timer' = IF Moves THEN 0 ELSE enemy_move_timer + 1
  /\ enemy_direction'  = IF Turns THEN enemy_direction * (-1) ELSE enemy_direction
  /\ should_drop'      = IF Moves THEN Turns ELSE should_drop

(***************************************************************************)
(* The active enemies after a bullet has hit those of the set hit.         *)
(***************************************************************************)
Without(es, hit) == [e \in DOMAIN es \ hit |-> es[e]]

(***************************************************************************)
(* draw_all_enemies() succeeds.                                            *)
(***************************************************************************)
AlienWidth(e) == IF e[1] = 2 THEN ALIEN3_WIDTH ELSE ALIEN_WIDTH

EnemiesDrawn(es) ==
  \A e \in DOMAIN es : Printable(es[e], AlienWidth(e), ALIEN_HEIGHT)

-----------------------------------------------------------------------------
(***************************************************************************)
(* The component on its own.  The initial values are those of the C        *)
(* globals, and init_enemies() has started the first game.                 *)
(***************************************************************************)
EnemiesInit ==
  /\ enemies = StartFormation
  /\ enemy_direction = 1
  /\ should_drop = FALSE
  /\ enemy_move_timer = 0

(***************************************************************************)
(* A timer interrupt of the game loop: the formation moves, then at most   *)
(* one enemy is hit (check_bullet_enemy_collision returns at the first     *)
(* hit).  With no enemy left the game is won, and after a frame that could *)
(* not be drawn the program ends: in both cases there is no further tick.  *)
(***************************************************************************)
EnemiesTick ==
  /\ enemies # << >>
  /\ EnemiesDrawn(enemies)
  /\ EnemiesMoving
  /\ \/ enemies' = EnemiesMoved
     \/ \E e \in DOMAIN enemies : enemies' = Without(EnemiesMoved, {e})

(***************************************************************************)
(* MENU_START of menu_handler() calls init_enemies(), which resets the     *)
(* array and none of the other variables.  The game before it was won, or  *)
(* lost at any tick.                                                       *)
(***************************************************************************)
EnemiesNewGame ==
  /\ EnemiesDrawn(enemies)
  /\ enemies' = StartFormation
  /\ UNCHANGED <<enemy_direction, should_drop, enemy_move_timer>>

EnemiesNext == EnemiesTick \/ EnemiesNewGame

EnemiesSpec == EnemiesInit /\ [][EnemiesNext]_formation

(***************************************************************************)
(* The i8254 keeps interrupting.                                           *)
(***************************************************************************)
EnemiesFairSpec == EnemiesSpec /\ WF_formation(EnemiesTick)

-----------------------------------------------------------------------------
(***************************************************************************)
(* The types of the formation's variables.                                 *)
(***************************************************************************)
EnemiesTypeOK ==
  /\ DOMAIN enemies \subseteq Enemy
  /\ enemies \in [DOMAIN enemies -> Position]
  /\ enemy_direction \in {-1, 1}
  /\ should_drop \in BOOLEAN
  /\ enemy_move_timer \in 0 .. MOVE_PERIOD - 1

(***************************************************************************)
(* However many enemies have been shot, and at whichever ticks, those that *)
(* are left keep the distances of the formation: move_enemies() moves all  *)
(* active enemies alike (README: "enemies with synchronized formation      *)
(* movement").                                                             *)
(***************************************************************************)
FormationRigid ==
  \A e, f \in DOMAIN enemies :
    /\ enemies[e].x - enemies[f].x = StartX(e) - StartX(f)
    /\ enemies[e].y - enemies[f].y = StartY(e) - StartY(f)

(***************************************************************************)
(* A descent that a turn has announced is what the next move does: it is   *)
(* never pre-empted by a second turn, so the formation cannot swing in     *)
(* place at one height, whichever enemies are shot in between and even     *)
(* when the flag is left over from the game before.                        *)
(***************************************************************************)
DescentNotPreempted == should_drop => ~AtEdge(enemies, enemy_direction)

(***************************************************************************)
(* No sideways move takes a sprite over the left or the right border,      *)
(* although the sprites are wider than the ENEMY_WIDTH that move_enemies() *)
(* tests the border with: an alien is never the reason, in this direction, *)
(* for draw_all_enemies() to fail and end the program.                     *)
(***************************************************************************)
NeverOffSideways ==
  \A e \in DOMAIN enemies :
    enemies[e].x >= 0 /\ enemies[e].x + AlienWidth(e) <= XResolution

(***************************************************************************)
(* No formation stays up for ever: with no new game between, it is shot to *)
(* the last enemy or comes down to the lower border ("automatic descent",  *)
(* README), whatever flags the game before has left it.                    *)
(***************************************************************************)
FormationComesDown ==
  \/ []<><<EnemiesNewGame>>_formation
  \/ <>(enemies = << >> \/ ~EnemiesDrawn(enemies))
=============================================================================
