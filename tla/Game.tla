-------------------------------- MODULE Game --------------------------------
(***************************************************************************)
(* The game loop, game_state() of game/game_state.c: the formation, the    *)
(* ship and the aliens' fire, moved and settled with each other in one     *)
(* frame per timer interrupt, and steered by keyboard interrupts between.  *)
(*                                                                         *)
(* The score that the loop also keeps never flows back into the game, and  *)
(* is the subject of module Score.                                         *)
(***************************************************************************)
EXTENDS Enemies, Ship, EnemyFire

VARIABLES
  game,        \* how game_state() stands: see GameStatus
  escape,      \* scancode = KB_BREAK_ESC
  timer_bit    \* the message being handled also notifies the timer

gameVars == <<formation, shipVars, enemyFireVars, game, escape, timer_bit>>

(***************************************************************************)
(* "running"; or returned: "lost" (menu state MENU_GAME_OVER), "won"       *)
(* (MENU_SCORES), "left" (by ESC), or "error" (the result is 1).           *)
(***************************************************************************)
GameStatus == {"running", "lost", "won", "left", "error"}

(***************************************************************************)
(* All four collision checks give every bullet the box of the player's;    *)
(* an enemy fires from the middle of its lower side.                       *)
(***************************************************************************)
MuzzleOf(p) == At(p.x + ENEMY_WIDTH \div 2, p.y + ENEMY_HEIGHT)

ASSUME GameAssumption ==
  /\ HIT_WIDTH = BULLET_WIDTH
  /\ HIT_HEIGHT = BULLET_HEIGHT

(***************************************************************************)
(* The whole formation is drawn in the first frame of a game; Muzzles has  *)
(* the places where an enemy can be after a move of the loop.              *)
(***************************************************************************)
ASSUME FormationAssumption ==
  /\ ENEMY_START_Y + (ENEMY_ROWS - 1) * ENEMY_SPACING_Y + ALIEN_HEIGHT <= YResolution
  /\ \A px \in 0 .. XResolution - ENEMY_WIDTH,
        py \in ENEMY_START_Y .. YResolution + DROP_Y - ALIEN_HEIGHT :
       MuzzleOf(At(px, py)) \in Muzzles

(***************************************************************************)
(* A bullet fits between two columns and between two rows, the formation   *)
(* between two bullets, and a bullet and an enemy that come towards each   *)
(* other in one frame do not pass each other.                              *)
(***************************************************************************)
ASSUME HitAssumption ==
  /\ ENEMY_WIDTH + BULLET_WIDTH <= ENEMY_SPACING_X
  /\ ENEMY_HEIGHT + BULLET_HEIGHT <= ENEMY_SPACING_Y
  /\ (ENEMY_ROWS - 1) * ENEMY_SPACING_Y + ENEMY_HEIGHT + BULLET_HEIGHT <= Climb(FIRE_DELAY)
  /\ BULLET_SPEED + DROP_Y < ENEMY_HEIGHT + BULLET_HEIGHT

-----------------------------------------------------------------------------
(***************************************************************************)
(* check_enemy_bullet_collision(): the bullets of bs that strike the ship. *)
(***************************************************************************)
ShipAt == At(x, SHIP_Y)

StrikingShip(bs) ==
  {s \in DOMAIN bs :
     Overlap(bs[s], BULLET_WIDTH, BULLET_HEIGHT, ShipAt, ship_width, ship_height)}

(***************************************************************************)
(* check_bullet_enemy_collision(): the first bullet, in the order of       *)
(* bullets[], that touches an enemy, with the first enemy it touches, in   *)
(* the order of enemies[].  The others have to wait for the next frame.    *)
(***************************************************************************)
Touching(bs, es) ==
  {p \in (DOMAIN bs) \X (DOMAIN es) :
     Overlap(bs[p[1]], BULLET_WIDTH, BULLET_HEIGHT,
             es[p[2]], ENEMY_WIDTH, ENEMY_HEIGHT)}

Index(e) == e[1] * ENEMY_COLS + e[2]

Precedes(p, q) == p[1] < q[1] \/ (p[1] = q[1] /\ Index(p[2]) <= Index(q[2]))

Hit(bs, es) == {p \in Touching(bs, es) : \A q \in Touching(bs, es) : Precedes(p, q)}

\* Slips of check_bullet_enemy_collision: only the first bullet in flight is
\* looked at; the bullets, or the enemies, are where they were before the frame.
HitsOfFirstBullet(bs, es) ==
  LET first == {p \in Hit(bs, es) : \A s \in DOMAIN bs : p[1] <= s}
  IN  /\ bullets' = BulletsWithout(bs, {p[1] : p \in first})
      /\ enemies' = Without(es, {p[2] : p \in first})

HitsOnOldBullets(bs, es) ==
  /\ bullets' = BulletsWithout(bullets, {p[1] : p \in Hit(bullets, es)})
  /\ enemies' = Without(es, {p[2] : p \in Hit(bullets, es)})

HitsOnOldEnemies(bs, es) ==
  /\ bullets' = BulletsWithout(bs, {p[1] : p \in Hit(bs, enemies)})
  /\ enemies' = Without(enemies, {p[2] : p \in Hit(bs, enemies)})

check_bullet_enemy_collision(bs, es) ==
  /\ bullets' = BulletsWithout(bs, {p[1] : p \in Hit(bs, es)})
  /\ enemies' = Without(es, {p[2] : p \in Hit(bs, es)})

(***************************************************************************)
(* check_ship_alien_collision().                                           *)
(***************************************************************************)
ShipRammed(es) ==
  \E e \in DOMAIN es :
    Overlap(ShipAt, ship_width, ship_height, es[e], ENEMY_WIDTH, ENEMY_HEIGHT)

\* A slip of FiredBy: the enemies fire in every frame.
FiredByAlways(es, bs) ==
  IF es # << >> THEN {WithShot(bs, MuzzleOf(es[e])) : e \in DOMAIN es} ELSE {bs}

(***************************************************************************)
(* fire_enemy_bullet(), in its frame: a random active enemy fires.         *)
(***************************************************************************)
FiredBy(es, bs) ==
  IF FiringFrame /\ es # << >> THEN {WithShot(bs, MuzzleOf(es[e])) : e \in DOMAIN es}
                               ELSE {bs}

-----------------------------------------------------------------------------
GameInit ==
  /\ EnemiesInit /\ ShipInit /\ EnemyFireInit
  /\ game = "running"
  /\ escape = FALSE
  /\ timer_bit = FALSE

(***************************************************************************)
(* The keyboard bit of a message: kbc_ih() and, for a make code,           *)
(* ship_action().  When the message has the timer bit too, the loop's test *)
(* for ESC comes only after the frame.                                     *)
(***************************************************************************)
Keyboard ==
  /\ game = "running" /\ ~escape /\ ~timer_bit
  /\ timer_bit' \in BOOLEAN
  /\ \/ ship_action /\ escape' = FALSE
     \/ UNCHANGED shipVars /\ escape' = TRUE
  /\ UNCHANGED <<formation, enemyFireVars, game>>

(***************************************************************************)
(* The timer bit of a message, for a frame in which the aliens' bullets    *)
(* are ebs when the collisions are checked.                                *)
(***************************************************************************)
Frame(ebs) ==
  LET shot == StrikingShip(ebs)
  IN  /\ fire_delay_counter' = DelayTicked
      /\ timer_phase' = PhaseTicked
      /\ EnemiesMoving
      /\ check_bullet_enemy_collision(update_bullets, EnemiesMoved)
      /\ check_shield_collision([s \in DOMAIN ebs \ shot |-> ebs[s]])
      /\ UNCHANGED x
      /\ game' = IF ~(ShipDrawn /\ EnemiesDrawn(enemies') /\ BulletsDrawn(bullets'))
                    THEN "error"
                  ELSE IF shot # {} \/ ShipRammed(enemies') THEN "lost"
                  ELSE IF enemies' = << >> THEN "won"
                  ELSE "running"

Timer ==
  /\ game = "running" /\ (~escape \/ timer_bit)
  /\ \E ebs \in FiredBy(EnemiesMoved, update_enemy_bullets) : Frame(ebs)
  /\ timer_bit' = FALSE
  /\ UNCHANGED escape

(***************************************************************************)
(* The loop ends at the break code of ESC.                                 *)
(***************************************************************************)
Leave ==
  /\ game = "running" /\ escape /\ ~timer_bit
  /\ game' = "left"
  /\ UNCHANGED <<formation, shipVars, enemyFireVars, escape, timer_bit>>

(***************************************************************************)
(* MENU_START of menu_handler(), reached again after a game that was lost  *)
(* or won.  After ESC, or an error, the program ends instead.              *)
(***************************************************************************)
NewGame ==
  /\ game \in {"lost", "won"} /\ ~escape
  /\ EnemiesNewGame /\ ShipNewGame /\ EnemyFireNewGame
  /\ game' = "running"
  /\ UNCHANGED <<escape, timer_bit>>

GameNext == Keyboard \/ Timer \/ Leave \/ NewGame

GameSpec == GameInit /\ [][GameNext]_gameVars

(***************************************************************************)
(* The i8254 interrupts 60 times a second whatever the player does, and    *)
(* the loop's own steps are not blocked.                                   *)
(***************************************************************************)
GameFairSpec == GameSpec /\ WF_gameVars(Timer) /\ WF_gameVars(Leave)

-----------------------------------------------------------------------------
GameTypeOK ==
  /\ EnemiesTypeOK /\ ShipTypeOK /\ EnemyFireTypeOK
  /\ game \in GameStatus
  /\ {escape, timer_bit} \subseteq BOOLEAN

(***************************************************************************)
(* check_bullet_enemy_collision() settles one hit per frame, yet no hit is *)
(* ever left for the next one: after each frame no bullet touches an enemy *)
(* any more.  (Two bullets are never both within reach of the formation,   *)
(* and one bullet never touches two enemies.)                              *)
(***************************************************************************)
HitsSettled == [][ Timer => Touching(bullets', enemies') = {} ]_gameVars

(***************************************************************************)
(* A bullet never skips an enemy: one that is under an enemy, in its       *)
(* column, is not above it after the next frame, even when the formation   *)
(* drops in the frame in which the bullet climbs.                          *)
(***************************************************************************)
SameColumn(b, e) == b.x < e.x + ENEMY_WIDTH /\ b.x + BULLET_WIDTH > e.x

NoEnemySkipped ==
  [][ Timer =>
        \A s \in (DOMAIN bullets) \cap (DOMAIN bullets'),
           e \in (DOMAIN enemies) \cap (DOMAIN enemies') :
          /\ SameColumn(bullets[s], enemies[e])
          /\ SameColumn(bullets'[s], enemies'[e])
          /\ bullets[s].y >= enemies[e].y + ENEMY_HEIGHT
          => bullets'[s].y + BULLET_HEIGHT > enemies'[e].y ]_gameVars

(***************************************************************************)
(* The only drawing error that can end the program from within a game is   *)
(* an enemy that has come down to the lower border.                        *)
(***************************************************************************)
AbortsOnlyAtBottom ==
  game = "error" =>
    \E e \in DOMAIN enemies : enemies[e].y + ALIEN_HEIGHT > YResolution

(***************************************************************************)
(* Every game ends, however the player evades: the formation comes down    *)
(* for as long as an enemy is left.                                        *)
(***************************************************************************)
GameEnds == (game = "running") ~> (game # "running")

=============================================================================
