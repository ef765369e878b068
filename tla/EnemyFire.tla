----------------------------- MODULE EnemyFire ------------------------------
(***************************************************************************)
(* The bullets of the aliens and the shields: the second half of           *)
(* game/ship/ship.c and check_shield_collision() of game/game_state.c.     *)
(*                                                                         *)
(* enemy_bullets[] is a function on the slots whose bullet is active.      *)
(* Only timer_counter % ENEMY_FIRE_PERIOD of the timer matters here.       *)
(***************************************************************************)
EXTENDS Screen

CONSTANTS
  MAX_ENEMY_BULLETS,                   \* slots of enemy_bullets[]
  ENEMY_BULLET_SPEED,                  \* pixels per tick
  ENEMY_FIRE_PERIOD,                   \* ticks between two shots
  HIT_WIDTH, HIT_HEIGHT,               \* the box the checks give a bullet
  NUM_SHIELDS, SHIELD_WIDTH, SHIELD_HEIGHT,
  SHIELD_SPACING,                      \* between two shields
  SHIELD_RISE,                         \* of the shields over the lower border
  Muzzles                              \* where an enemy can fire from

VARIABLES
  enemy_bullets,      \* active slot -> [x, y]
  shields,            \* shield -> its state
  timer_phase         \* timer_counter % ENEMY_FIRE_PERIOD

enemyFireVars == <<enemy_bullets, shields, timer_phase>>

EnemySlot == 0 .. MAX_ENEMY_BULLETS - 1

Shield == 0 .. NUM_SHIELDS - 1

ShieldState == {"SHIELD_FULL", "SHIELD_BROKEN", "SHIELD_NONE"}

ASSUME EnemyFireAssumption ==
  /\ {MAX_ENEMY_BULLETS, ENEMY_FIRE_PERIOD} \subseteq Nat \ {0}
  /\ {ENEMY_BULLET_SPEED, HIT_WIDTH, HIT_HEIGHT, NUM_SHIELDS, SHIELD_WIDTH,
      SHIELD_HEIGHT, SHIELD_SPACING, SHIELD_RISE} \subseteq Nat
  /\ Muzzles \subseteq Position

(***************************************************************************)
(* A bullet is below the screen before the enemies fire again.             *)
(***************************************************************************)
ASSUME LifetimeAssumption ==
  \A m \in Muzzles : m.y + ENEMY_BULLET_SPEED * ENEMY_FIRE_PERIOD > YResolution

(***************************************************************************)
(* A bullet cannot fall over a shield in one frame.                        *)
(***************************************************************************)
ASSUME FallAssumption == ENEMY_BULLET_SPEED <= HIT_HEIGHT + SHIELD_HEIGHT - 1

-----------------------------------------------------------------------------
(***************************************************************************)
(* init_shields(): the shields stand in a centred row.                     *)
(***************************************************************************)
SHIELD_START_X ==
  (XResolution - (NUM_SHIELDS * SHIELD_WIDTH + (NUM_SHIELDS - 1) * SHIELD_SPACING))
    \div 2

ShieldAt(i) ==
  At(SHIELD_START_X + i * (SHIELD_WIDTH + SHIELD_SPACING),
     YResolution - SHIELD_RISE)

FullShields == [i \in Shield |-> "SHIELD_FULL"]

(***************************************************************************)
(* timer_int_handler(), and the test for the frame in which enemies fire.  *)
(***************************************************************************)
PhaseTicked == (timer_phase + 1) % ENEMY_FIRE_PERIOD

FiringFrame == PhaseTicked = 0

\* A slip of update_enemy_bullets: no bullet is freed.
EnemyBulletsNeverFreed ==
  [s \in DOMAIN enemy_bullets |->
     [enemy_bullets[s] EXCEPT !.y = @ + ENEMY_BULLET_SPEED]]

(***************************************************************************)
(* update_enemy_bullets(): each active bullet falls, and is freed under    *)
(* the lower border.                                                       *)
(***************************************************************************)
update_enemy_bullets ==
  [s \in {t \in DOMAIN enemy_bullets :
            enemy_bullets[t].y + ENEMY_BULLET_SPEED <= YResolution} |->
     [enemy_bullets[s] EXCEPT !.y = @ + ENEMY_BULLET_SPEED]]

(***************************************************************************)
(* fire_enemy_bullet() of an enemy whose muzzle is m: the bullet takes the *)
(* first inactive slot.  With no slot left there is no shot.               *)
(***************************************************************************)
FirstFreeOf(bs) ==
  {s \in EnemySlot : s \notin DOMAIN bs /\ 0 .. s - 1 \subseteq DOMAIN bs}

WithShot(bs, m) ==
  [s \in DOMAIN bs \cup FirstFreeOf(bs) |->
     IF s \in DOMAIN bs THEN bs[s] ELSE m]

(***************************************************************************)
(* check_shield_collision().  The bullets bs that the standing shield i    *)
(* stops are those in its box that no shield before it has stopped; each   *)
(* costs it a level, and it stops them all, even those left over once it   *)
(* is destroyed.                                                           *)
(***************************************************************************)
InShield(bs, i) ==
  {s \in DOMAIN bs :
     Overlap(bs[s], HIT_WIDTH, HIT_HEIGHT, ShieldAt(i), SHIELD_WIDTH, SHIELD_HEIGHT)}

Standing(i) == shields[i] # "SHIELD_NONE"

\* A slip of Stopped: a broken shield stops nothing.
StoppedByFull(bs, i) == IF shields[i] = "SHIELD_FULL" THEN InShield(bs, i) ELSE {}

Stopped(bs, i) ==
  IF Standing(i)
    THEN InShield(bs, i)
           \ UNION {InShield(bs, k) : k \in {j \in 0 .. i - 1 : Standing(j)}}
    ELSE {}

\* A slip of Damaged: the break missing between two cases of the switch.
DamagedTwice(state, hits) == IF hits = {} THEN state ELSE "SHIELD_NONE"

Damaged(state, hits) ==
  CASE hits = {}                                    -> state
    [] state = "SHIELD_FULL" /\ \E s \in hits : hits = {s} -> "SHIELD_BROKEN"
    [] OTHER                                        -> "SHIELD_NONE"

check_shield_collision(bs) ==
  /\ enemy_bullets' =
       [s \in DOMAIN bs \ UNION {Stopped(bs, i) : i \in Shield} |-> bs[s]]
  /\ shields' = [i \in Shield |-> Damaged(shields[i], Stopped(bs, i))]

-----------------------------------------------------------------------------
(***************************************************************************)
(* The component on its own: the enemies fire from any of Muzzles.  The    *)
(* first game, too, is started from the menu, after any number of ticks.   *)
(***************************************************************************)
EnemyFireInit ==
  /\ enemy_bullets = << >>
  /\ shields = FullShields
  /\ timer_phase \in 0 .. ENEMY_FIRE_PERIOD - 1

(***************************************************************************)
(* A timer interrupt of game_state(): bullets fall, the enemies fire (if   *)
(* one is left) in every ENEMY_FIRE_PERIOD-th frame, the ship may be hit   *)
(* by some bullets (check_enemy_bullet_collision), then the shields are.   *)
(***************************************************************************)
ShotsOf(bs) == {bs} \cup {WithShot(bs, m) : m \in IF FiringFrame THEN Muzzles ELSE {}}

EnemyFireTick ==
  /\ timer_phase' = PhaseTicked
  /\ \E bs \in ShotsOf(update_enemy_bullets) :
       \E hit \in SUBSET DOMAIN bs :
         check_shield_collision([s \in DOMAIN bs \ hit |-> bs[s]])

(***************************************************************************)
(* MENU_START: init_enemy_bullets() and init_shields().  The game before   *)
(* has ended at any tick, and menu_handler() has counted any number of     *)
(* timer interrupts since.                                                 *)
(***************************************************************************)
EnemyFireNewGame ==
  /\ enemy_bullets' = << >>
  /\ shields' = FullShields
  /\ timer_phase' \in 0 .. ENEMY_FIRE_PERIOD - 1

EnemyFireNext == EnemyFireTick \/ EnemyFireNewGame

EnemyFireSpec == EnemyFireInit /\ [][EnemyFireNext]_enemyFireVars

-----------------------------------------------------------------------------
(***************************************************************************)
(* The types of the variables.                                             *)
(***************************************************************************)
EnemyFireTypeOK ==
  /\ DOMAIN enemy_bullets \subseteq EnemySlot
  /\ enemy_bullets \in [DOMAIN enemy_bullets -> Position]
  /\ shields \in [Shield -> ShieldState]
  /\ timer_phase \in 0 .. ENEMY_FIRE_PERIOD - 1

(***************************************************************************)
(* The firing period outlasts a fall over the whole screen: there is never *)
(* more than one bullet of the aliens in flight, in whichever game and     *)
(* frame it was fired, so that fire_enemy_bullet() always finds a slot and *)
(* no frame has two bullets to settle with the ship or with one shield.    *)
(***************************************************************************)
AtMostOneInFlight == \A s, t \in DOMAIN enemy_bullets : s = t

(***************************************************************************)
(* Where bullet s was fired: it falls straight down, one step per frame    *)
(* since the firing frame.                                                 *)
(***************************************************************************)
FiredAtY(s) == enemy_bullets[s].y - ENEMY_BULLET_SPEED * timer_phase

InColumn(s, i) ==
  /\ enemy_bullets[s].x < ShieldAt(i).x + SHIELD_WIDTH
  /\ enemy_bullets[s].x + HIT_WIDTH > ShieldAt(i).x

Above(py, i) == py + HIT_HEIGHT <= ShieldAt(i).y

(***************************************************************************)
(* No bullet gets past a shield that stands: one that was fired above a    *)
(* shield, in its column, is still above it as long as the shield stands,  *)
(* although it falls ENEMY_BULLET_SPEED pixels at a time and shields are   *)
(* checked after the ship (check_shield_collision, game_state.c).          *)
(***************************************************************************)
ShieldsCover ==
  \A s \in DOMAIN enemy_bullets, i \in Shield :
    Standing(i) /\ InColumn(s, i) /\ Above(FiredAtY(s), i)
      => Above(enemy_bullets[s].y, i)

(***************************************************************************)
(* In one frame at most one shield is damaged, and by one level only, and  *)
(* none is repaired, whatever bullets the frame has to settle.             *)
(***************************************************************************)
ShieldsWearSlowly ==
  [][ EnemyFireTick =>
        \A i \in Shield :
           /\ shields[i] = "SHIELD_FULL"   => shields'[i] # "SHIELD_NONE"
           /\ shields[i] = "SHIELD_BROKEN" => shields'[i] # "SHIELD_FULL"
           /\ shields[i] = "SHIELD_NONE"   => shields'[i] = "SHIELD_NONE"
           /\ shields'[i] # shields[i] =>
                \A k \in Shield \ {i} : shields'[k] = shields[k] ]_enemyFireVars

=============================================================================
