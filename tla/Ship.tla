-------------------------------- MODULE Ship --------------------------------
(***************************************************************************)
(* The player's ship and its bullets: the first half of game/ship/ship.c.  *)
(*                                                                         *)
(* bullets[] is a function on the slots whose bullet is active; the fields *)
(* of an inactive slot are never read before ship_action() writes them.    *)
(***************************************************************************)
EXTENDS Screen

CONSTANTS
  SHIP_X,              \* the initial value of x
  SHIP_Y,              \* y: the row of the ship
  ship_width, ship_height,
  SHIP_STEP,           \* pixels of a press of A or D
  MAX_BULLETS,         \* slots of bullets[]
  BULLET_WIDTH, BULLET_HEIGHT,
  BULLET_SPEED,        \* pixels of a bullet per tick
  FIRE_DELAY,          \* ticks between two shots
  FIRE_DELAY_START,    \* the initial value of fire_delay_counter
  UINT16_RANGE         \* 65536: x is a uint16_t

VARIABLES
  x,                    \* the left border of the ship
  fire_delay_counter,   \* ticks since the last shot
  bullets               \* active slot -> [x, y]

shipVars == <<x, fire_delay_counter, bullets>>

Slot == 0 .. MAX_BULLETS - 1

MUZZLE_Y == SHIP_Y - BULLET_HEIGHT

MUZZLE_OFFSET == ship_width \div 2 - 2

MuzzleX == x + MUZZLE_OFFSET

(***************************************************************************)
(* How far a bullet climbs in n ticks.                                     *)
(***************************************************************************)
Climb(n) == BULLET_SPEED * n

ASSUME ShipAssumption ==
  /\ {SHIP_X, SHIP_Y, ship_width, ship_height, SHIP_STEP, MAX_BULLETS,
      BULLET_WIDTH, BULLET_HEIGHT, BULLET_SPEED, FIRE_DELAY,
      FIRE_DELAY_START, UINT16_RANGE} \subseteq Nat
  /\ MUZZLE_Y >= 0
  /\ SHIP_X + ship_width <= XResolution
  /\ SHIP_Y + ship_height <= YResolution
  /\ SHIP_STEP <= ship_width
  /\ XResolution + SHIP_STEP < UINT16_RANGE      \* x does not wrap on the right
  /\ MUZZLE_OFFSET >= 0                  \* a bullet is born over the ship
  /\ MUZZLE_OFFSET + BULLET_WIDTH <= ship_width

-----------------------------------------------------------------------------
(***************************************************************************)
(* ship_action() for the keys A and D.  x is a uint16_t: it wraps.         *)
(***************************************************************************)
UInt16(n) == n % UINT16_RANGE

\* Slips of MoveLeft and MoveRight: no guard, no clamp.
MoveLeftUnguarded ==
  x' = UInt16(x - SHIP_STEP) /\ UNCHANGED <<fire_delay_counter, bullets>>

MoveRightUnclamped ==
  x' = UInt16(x + SHIP_STEP) /\ UNCHANGED <<fire_delay_counter, bullets>>

MoveLeft ==
  /\ x' = IF x > ship_width THEN UInt16(x - SHIP_STEP) ELSE x
  /\ UNCHANGED <<fire_delay_counter, bullets>>

MoveRight ==
  /\ x' = IF UInt16(x + SHIP_STEP) > XResolution - ship_width
            THEN XResolution - ship_width
            ELSE UInt16(x + SHIP_STEP)
  /\ UNCHANGED <<fire_delay_counter, bullets>>

(***************************************************************************)
(* ship_action() for the space bar: the bullet takes the first inactive    *)
(* slot, if there is one; the delay restarts in either case.               *)
(***************************************************************************)
FirstFree(s) == s \in Slot \ DOMAIN bullets /\ 0 .. s - 1 \subseteq DOMAIN bullets

ShotFrom(s) ==
  [t \in DOMAIN bullets \cup {s} |->
     IF t = s THEN At(MuzzleX, MUZZLE_Y) ELSE bullets[t]]

\* Slips of Fire: the delay is not waited for; it does not restart.
FireAtWill ==
  /\ fire_delay_counter' = 0
  /\ \E s \in Slot : FirstFree(s) /\ bullets' = ShotFrom(s)
  /\ UNCHANGED x

FireNoRestart ==
  /\ fire_delay_counter >= FIRE_DELAY
  /\ \E s \in Slot : FirstFree(s) /\ bullets' = ShotFrom(s)
  /\ UNCHANGED <<x, fire_delay_counter>>

Fire ==
  /\ fire_delay_counter >= FIRE_DELAY
  /\ fire_delay_counter' = 0
  /\ \/ \E s \in Slot : FirstFree(s) /\ bullets' = ShotFrom(s)
     \/ Slot \subseteq DOMAIN bullets /\ UNCHANGED bullets
  /\ UNCHANGED x

(***************************************************************************)
(* The space bar before the delay is over, and every other make code.      *)
(***************************************************************************)
Ignored == UNCHANGED shipVars

ship_action == MoveLeft \/ MoveRight \/ Fire \/ Ignored

\* Slips of update_bullets: the border is tested before the bullet climbs; the
\* bullets climb twice in a frame.
BulletsTestedFirst ==
  [s \in {t \in DOMAIN bullets : bullets[t].y >= 0} |->
     [bullets[s] EXCEPT !.y = @ - BULLET_SPEED]]

BulletsClimbTwice ==
  [s \in {t \in DOMAIN bullets : bullets[t].y - 2 * BULLET_SPEED >= 0} |->
     [bullets[s] EXCEPT !.y = @ - 2 * BULLET_SPEED]]

(***************************************************************************)
(* update_bullets(): each active bullet climbs, and is freed above row 0.  *)
(***************************************************************************)
update_bullets ==
  [s \in {t \in DOMAIN bullets : bullets[t].y - BULLET_SPEED >= 0} |->
     [bullets[s] EXCEPT !.y = @ - BULLET_SPEED]]

(***************************************************************************)
(* fire_delay_counter++ of game_state().  The counter is only compared     *)
(* with FIRE_DELAY, so it is not counted further once that is reached.     *)
(***************************************************************************)
DelayTicked ==
  IF fire_delay_counter < FIRE_DELAY THEN fire_delay_counter + 1
                                     ELSE fire_delay_counter

(***************************************************************************)
(* The active bullets after those of the slots hit have struck an enemy.   *)
(***************************************************************************)
BulletsWithout(bs, hit) == [s \in DOMAIN bs \ hit |-> bs[s]]

(***************************************************************************)
(* draw_ship() and draw_all_bullets() succeed; a failure ends the program. *)
(***************************************************************************)
ShipDrawn == Printable(At(x, SHIP_Y), ship_width, ship_height)

BulletsDrawn(bs) ==
  \A s \in DOMAIN bs : Printable(bs[s], BULLET_WIDTH, BULLET_HEIGHT)

-----------------------------------------------------------------------------
(***************************************************************************)
(* The component on its own: keys, ticks and new games in any order.       *)
(***************************************************************************)
ShipInit ==
  /\ x = SHIP_X
  /\ fire_delay_counter = FIRE_DELAY_START
  /\ bullets = << >>

(***************************************************************************)
(* A timer interrupt of game_state(): then at most one bullet is spent on  *)
(* an enemy (check_bullet_enemy_collision returns at the first hit).  A    *)
(* frame that cannot be drawn is the last one.                             *)
(***************************************************************************)
ShipTick ==
  /\ ShipDrawn /\ BulletsDrawn(bullets)
  /\ fire_delay_counter' = DelayTicked
  /\ \/ bullets' = update_bullets
     \/ \E s \in DOMAIN update_bullets :
          bullets' = BulletsWithout(update_bullets, {s})
  /\ UNCHANGED x

(***************************************************************************)
(* MENU_START calls init_bullets(); x and fire_delay_counter keep the      *)
(* values of the game before.                                              *)
(***************************************************************************)
init_bullets == bullets' = << >>

ShipNewGame == init_bullets /\ UNCHANGED <<x, fire_delay_counter>>

ShipNext == ship_action \/ ShipTick \/ ShipNewGame

ShipSpec == ShipInit /\ [][ShipNext]_shipVars

-----------------------------------------------------------------------------
(***************************************************************************)
(* The types of the ship's variables.                                      *)
(***************************************************************************)
ShipTypeOK ==
  /\ x \in 0 .. UINT16_RANGE - 1
  /\ fire_delay_counter \in Nat
  /\ DOMAIN bullets \subseteq Slot
  /\ bullets \in [DOMAIN bullets -> Position]

(***************************************************************************)
(* Whatever the keys and wherever the clamp on the right has left the      *)
(* ship, x neither wraps below 0 nor passes the right border: draw_ship()  *)
(* never fails, and so never ends the game.                                *)
(***************************************************************************)
ShipOnScreen == ShipDrawn

(***************************************************************************)
(* Every bullet in flight is wholly on the screen in every frame: drawing  *)
(* the bullets never ends the game (draw_all_bullets() of ship.c).         *)
(***************************************************************************)
BulletsOnScreen == BulletsDrawn(bullets)

(***************************************************************************)
(* The delay of ship_action() keeps any two bullets in flight at least     *)
(* FIRE_DELAY ticks of flight apart, and the last shot at least the ticks  *)
(* that have passed since, in whichever slots they are: also over games,   *)
(* since the counter is not reset and the bullets are.                     *)
(***************************************************************************)
BulletSpacing ==
  /\ \A s \in DOMAIN bullets :
       fire_delay_counter <= FIRE_DELAY =>
         bullets[s].y <= MUZZLE_Y - Climb(fire_delay_counter)
  /\ \A s, t \in DOMAIN bullets :
       s # t => \/ bullets[s].y - bullets[t].y >= Climb(FIRE_DELAY)
                \/ bullets[t].y - bullets[s].y >= Climb(FIRE_DELAY)

(***************************************************************************)
(* A shot the delay allows always finds a slot: the pool of bullets[] is   *)
(* never exhausted, so no press of the space bar restarts the delay        *)
(* without a shot.                                                         *)
(***************************************************************************)
ShotNeverLost ==
  fire_delay_counter >= FIRE_DELAY => \E s \in Slot : s \notin DOMAIN bullets

=============================================================================
