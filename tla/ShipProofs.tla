----------------------------- MODULE ShipProofs -----------------------------
(***************************************************************************)
(* Proofs about ship.c: first the ship and its bullets, for every screen,  *)
(* speed, delay and pool that the assumptions of module Ship allow; then   *)
(* the aliens' bullets and the shields (module EnemyFire), for every       *)
(* screen, every speed and period under which a bullet is gone before the  *)
(* next is fired, and wherever the aliens fire from.                       *)
(***************************************************************************)
EXTENDS Ship, EnemyFire, WellFoundedInduction, TLAPS

(***************************************************************************)
(* The inductive invariant.  The counter starts above FIRE_DELAY, where it *)
(* says nothing of the last shot: until then there has been none.          *)
(***************************************************************************)
NoneBeforeFirstShot ==
  fire_delay_counter > FIRE_DELAY => DOMAIN bullets = {}

ShipInv ==
  /\ ShipTypeOK
  /\ ShipOnScreen
  /\ BulletsOnScreen
  /\ BulletSpacing
  /\ NoneBeforeFirstShot

(***************************************************************************)
(* The assumptions in the form the proofs use them.                        *)
(***************************************************************************)
LEMMA ShipTypes ==
  /\ XResolution \in Nat /\ YResolution \in Nat
  /\ ship_width \in Nat /\ ship_height \in Nat
  /\ SHIP_X \in Nat /\ SHIP_Y \in Nat /\ SHIP_STEP \in Nat
  /\ BULLET_WIDTH \in Nat /\ BULLET_HEIGHT \in Nat /\ BULLET_SPEED \in Nat
  /\ FIRE_DELAY \in Nat /\ FIRE_DELAY_START \in Nat /\ MAX_BULLETS \in Nat
  /\ UINT16_RANGE \in Nat
BY ShipAssumption, ScreenAssumption

LEMMA MuzzleFacts ==
  /\ MUZZLE_OFFSET \in Nat /\ MUZZLE_OFFSET + BULLET_WIDTH <= ship_width
  /\ MUZZLE_Y \in Nat /\ MUZZLE_Y + BULLET_HEIGHT <= YResolution
<1>1. MUZZLE_OFFSET \in Int
  BY ShipTypes DEF MUZZLE_OFFSET
<1>2. MUZZLE_Y \in Int
  BY ShipTypes DEF MUZZLE_Y
<1>3. MUZZLE_OFFSET >= 0 /\ MUZZLE_Y >= 0 /\ SHIP_Y + ship_height <= YResolution
      /\ MUZZLE_OFFSET + BULLET_WIDTH <= ship_width
  BY ShipAssumption
<1>4. MUZZLE_Y + BULLET_HEIGHT <= YResolution
  BY <1>3, ShipTypes DEF MUZZLE_Y
<1> QED
  BY <1>1, <1>2, <1>3, <1>4

LEMMA ClimbFacts ==
  /\ Climb(0) = 0
  /\ \A n \in Nat : Climb(n) \in Nat /\ Climb(n + 1) = Climb(n) + BULLET_SPEED
BY ShipTypes DEF Climb

LEMMA UInt16Fits == \A n \in 0 .. UINT16_RANGE - 1 : UInt16(n) = n
BY ShipTypes DEF UInt16

(***************************************************************************)
(* The properties of the bullets bs alone, when the counter stands at n.   *)
(***************************************************************************)
Spaced(bs, n) ==
  /\ DOMAIN bs \subseteq Slot
  /\ bs \in [DOMAIN bs -> Position]
  /\ BulletsDrawn(bs)
  /\ \A s \in DOMAIN bs :
       n <= FIRE_DELAY => bs[s].y <= MUZZLE_Y - Climb(n)
  /\ \A s, t \in DOMAIN bs :
       s # t => \/ bs[s].y - bs[t].y >= Climb(FIRE_DELAY)
                \/ bs[t].y - bs[s].y >= Climb(FIRE_DELAY)
  /\ n > FIRE_DELAY => DOMAIN bs = {}

LEMMA InvMeansSpaced ==
  ShipInv <=> /\ x \in 0 .. UINT16_RANGE - 1 /\ fire_delay_counter \in Nat
              /\ ShipOnScreen
              /\ Spaced(bullets, fire_delay_counter)
BY DEF ShipInv, ShipTypeOK, BulletsOnScreen, BulletSpacing, NoneBeforeFirstShot, Spaced

-----------------------------------------------------------------------------
(***************************************************************************)
(* x stays between the borders: neither the step to the left, which tests  *)
(* x against ship_width, nor the clamp on the right lets it wrap.          *)
(***************************************************************************)
LEMMA MovesStayOnScreen ==
  ASSUME x \in 0 .. UINT16_RANGE - 1, ShipOnScreen, MoveLeft \/ MoveRight
  PROVE  x' \in 0 .. UINT16_RANGE - 1 /\ ShipOnScreen'
<1> USE ShipTypes
<1>1. x + ship_width <= XResolution
  BY DEF ShipOnScreen, ShipDrawn, Printable, At
<1>2. x' \in 0 .. UINT16_RANGE - 1 /\ x' + ship_width <= XResolution
  <2>1. CASE MoveLeft
    <3>1. CASE x > ship_width
      <4>1. x - SHIP_STEP \in 0 .. UINT16_RANGE - 1
        BY <3>1, ShipAssumption
      <4> QED
        BY <1>1, <2>1, <3>1, <4>1, UInt16Fits DEF MoveLeft
    <3>2. CASE ~(x > ship_width)
      BY <1>1, <2>1, <3>2 DEF MoveLeft
    <3> QED
      BY <3>1, <3>2
  <2>2. CASE MoveRight
    <3>1. /\ XResolution + SHIP_STEP < UINT16_RANGE
          /\ ship_width <= XResolution
      BY ShipAssumption
    <3>2. x + SHIP_STEP \in 0 .. UINT16_RANGE - 1
      BY <1>1, <3>1
    <3> QED
      BY <1>1, <2>2, <3>1, <3>2, UInt16Fits DEF MoveRight
  <2> QED
    BY <2>1, <2>2
<1>3. ShipOnScreen'
  <2>1. x' >= 0
    BY <1>2
  <2>2. x' + ship_width <= XResolution
    BY <1>2
  <2>3. SHIP_Y >= 0 /\ SHIP_Y + ship_height <= YResolution
    BY ShipAssumption
  <2> QED
    BY <2>1, <2>2, <2>3 DEF ShipOnScreen, ShipDrawn, Printable, At
<1> QED
  BY <1>2, <1>3

(***************************************************************************)
(* A shot that the delay allows is far enough from all others.             *)
(***************************************************************************)
LEMMA ShotIsSpaced ==
  ASSUME x \in 0 .. UINT16_RANGE - 1, ShipOnScreen, fire_delay_counter \in Nat,
         Spaced(bullets, fire_delay_counter),
         fire_delay_counter >= FIRE_DELAY,
         NEW s \in Slot, s \notin DOMAIN bullets
  PROVE  Spaced(ShotFrom(s), 0)
<1> USE ShipTypes
<1> DEFINE bs == ShotFrom(s)
<1>1. /\ DOMAIN bs = DOMAIN bullets \cup {s}
      /\ bs[s].x = MuzzleX /\ bs[s].y = MUZZLE_Y
      /\ \A t \in DOMAIN bullets : bs[t] = bullets[t]
  BY DEF ShotFrom, At
<1>2. x + ship_width <= XResolution
  BY DEF ShipOnScreen, ShipDrawn, Printable, At
<1>3. /\ MuzzleX \in Int /\ MUZZLE_Y \in Int
      /\ MuzzleX >= 0 /\ MuzzleX + BULLET_WIDTH <= XResolution
      /\ MUZZLE_Y >= 0 /\ MUZZLE_Y + BULLET_HEIGHT <= YResolution
  BY <1>2, MuzzleFacts DEF MuzzleX
<1>4. bs \in [DOMAIN bs -> Position]
  BY <1>3 DEF ShotFrom, At, Spaced, Position
<1>5. BulletsDrawn(bs)
  BY <1>1, <1>3 DEF BulletsDrawn, Spaced, Printable
<1>6. \A t \in DOMAIN bullets :
        bullets[t].y \in Int /\ bullets[t].y <= MUZZLE_Y - Climb(FIRE_DELAY)
  <2> SUFFICES ASSUME NEW t \in DOMAIN bullets
               PROVE  /\ bullets[t].y \in Int
                      /\ bullets[t].y <= MUZZLE_Y - Climb(FIRE_DELAY)
    OBVIOUS
  <2>1. bullets[t].y \in Int
    BY DEF Spaced, Position
  <2>2. fire_delay_counter = FIRE_DELAY
    BY DEF Spaced
  <2> QED
    BY <2>1, <2>2 DEF Spaced
<1>7. \A t \in DOMAIN bs : bs[t].y <= MUZZLE_Y - Climb(0)
  BY <1>1, <1>3, <1>6, ClimbFacts, MuzzleFacts
<1>8. \A t, u \in DOMAIN bs :
        t # u => \/ bs[t].y - bs[u].y >= Climb(FIRE_DELAY)
                 \/ bs[u].y - bs[t].y >= Climb(FIRE_DELAY)
  <2> SUFFICES ASSUME NEW t \in DOMAIN bs, NEW u \in DOMAIN bs, t # u
               PROVE  \/ bs[t].y - bs[u].y >= Climb(FIRE_DELAY)
                      \/ bs[u].y - bs[t].y >= Climb(FIRE_DELAY)
    OBVIOUS
  <2>1. CASE t \in DOMAIN bullets /\ u \in DOMAIN bullets
    BY <1>1, <2>1 DEF Spaced
  <2>2. CASE t = s /\ u \in DOMAIN bullets
    BY <1>1, <1>3, <1>6, <2>2, ClimbFacts, MuzzleFacts
  <2>3. CASE u = s /\ t \in DOMAIN bullets
    BY <1>1, <1>3, <1>6, <2>3, ClimbFacts, MuzzleFacts
  <2> QED
    BY <1>1, <2>1, <2>2, <2>3
<1>9. DOMAIN bs \subseteq Slot
  BY <1>1 DEF Spaced
<1> HIDE DEF bs
<1> QED
  BY <1>4, <1>5, <1>7, <1>8, <1>9 DEF Spaced, bs

(***************************************************************************)
(* update_bullets() keeps the distances, and lets the last shot climb as   *)
(* the counter counts.                                                     *)
(***************************************************************************)
LEMMA UpdateIsSpaced ==
  ASSUME fire_delay_counter \in Nat, Spaced(bullets, fire_delay_counter)
  PROVE  Spaced(update_bullets, DelayTicked) /\ DelayTicked \in Nat
<1> USE ShipTypes
<1> DEFINE bs == update_bullets
<1>1. /\ DOMAIN bs \subseteq DOMAIN bullets
      /\ \A s \in DOMAIN bs : /\ bs[s].x = bullets[s].x
                              /\ bs[s].y = bullets[s].y - BULLET_SPEED
                              /\ bs[s].y >= 0
                              /\ bs[s] \in Position
                              /\ bullets[s].y \in Int
  BY DEF update_bullets, Spaced, Position
<1>2. bs \in [DOMAIN bs -> Position]
  BY <1>1 DEF update_bullets
<1>3. BulletsDrawn(bs)
  <2> SUFFICES ASSUME NEW s \in DOMAIN bs
               PROVE  Printable(bs[s], BULLET_WIDTH, BULLET_HEIGHT)
    BY DEF BulletsDrawn
  <2>1. Printable(bullets[s], BULLET_WIDTH, BULLET_HEIGHT)
    BY <1>1 DEF Spaced, BulletsDrawn
  <2> QED
    BY <1>1, <2>1 DEF Printable
<1>4. DelayTicked \in Nat
  BY DEF DelayTicked
<1>5. \A s \in DOMAIN bs :
        DelayTicked <= FIRE_DELAY => bs[s].y <= MUZZLE_Y - Climb(DelayTicked)
  <2> SUFFICES ASSUME NEW s \in DOMAIN bs
               PROVE  bs[s].y <= MUZZLE_Y - Climb(DelayTicked)
    OBVIOUS
  <2>1. fire_delay_counter <= FIRE_DELAY
    BY <1>1 DEF Spaced
  <2>2. bullets[s].y <= MUZZLE_Y - Climb(fire_delay_counter)
    BY <1>1, <2>1 DEF Spaced
  <2>3. CASE fire_delay_counter < FIRE_DELAY
    BY <1>1, <2>2, <2>3, ClimbFacts, MuzzleFacts DEF DelayTicked
  <2>4. CASE fire_delay_counter = FIRE_DELAY
    BY <1>1, <2>2, <2>4, ClimbFacts, MuzzleFacts DEF DelayTicked
  <2> QED
    BY <2>1, <2>3, <2>4
<1>6. \A s, t \in DOMAIN bs :
        s # t => \/ bs[s].y - bs[t].y >= Climb(FIRE_DELAY)
                 \/ bs[t].y - bs[s].y >= Climb(FIRE_DELAY)
  <2> SUFFICES ASSUME NEW s \in DOMAIN bs, NEW t \in DOMAIN bs, s # t
               PROVE  \/ bs[s].y - bs[t].y >= Climb(FIRE_DELAY)
                      \/ bs[t].y - bs[s].y >= Climb(FIRE_DELAY)
    OBVIOUS
  <2>1. \/ bullets[s].y - bullets[t].y >= Climb(FIRE_DELAY)
        \/ bullets[t].y - bullets[s].y >= Climb(FIRE_DELAY)
    BY <1>1 DEF Spaced
  <2> QED
    BY <1>1, <2>1, ClimbFacts, MuzzleFacts
<1>7. DelayTicked > FIRE_DELAY => DOMAIN bs = {}
  <2>1. DelayTicked > FIRE_DELAY => fire_delay_counter > FIRE_DELAY
    BY DEF DelayTicked
  <2>2. fire_delay_counter > FIRE_DELAY => DOMAIN bullets = {}
    BY DEF Spaced
  <2> QED
    BY <1>1, <2>1, <2>2
<1>8. DOMAIN bs \subseteq Slot
  BY <1>1 DEF Spaced
<1> HIDE DEF bs
<1> QED
  BY <1>2, <1>3, <1>4, <1>5, <1>6, <1>7, <1>8 DEF Spaced, bs

(***************************************************************************)
(* With no slot left, the delay restarts without a shot.                   *)
(***************************************************************************)
LEMMA FullPoolIsSpaced ==
  ASSUME fire_delay_counter \in Nat, Spaced(bullets, fire_delay_counter),
         fire_delay_counter >= FIRE_DELAY
  PROVE  Spaced(bullets, 0)
<1> USE ShipTypes
<1>1. \A s \in DOMAIN bullets : bullets[s].y <= MUZZLE_Y - Climb(0)
  <2> SUFFICES ASSUME NEW s \in DOMAIN bullets
               PROVE  bullets[s].y <= MUZZLE_Y - Climb(0)
    OBVIOUS
  <2>1. bullets[s].y \in Int
    BY DEF Spaced, Position
  <2>2. fire_delay_counter = FIRE_DELAY
    BY DEF Spaced
  <2>3. bullets[s].y <= MUZZLE_Y - Climb(FIRE_DELAY)
    BY <2>2 DEF Spaced
  <2> QED
    BY <2>1, <2>3, ClimbFacts, MuzzleFacts
<1> QED
  BY <1>1 DEF Spaced

(***************************************************************************)
(* A hit keeps the others spaced.                                          *)
(***************************************************************************)
LEMMA FewerAreSpaced ==
  ASSUME NEW bs, NEW n, NEW hit, Spaced(bs, n)
  PROVE  Spaced(BulletsWithout(bs, hit), n)
<1> DEFINE left == BulletsWithout(bs, hit)
<1>1. /\ DOMAIN left = DOMAIN bs \ hit
      /\ \A s \in DOMAIN left : left[s] = bs[s]
      /\ left \in [DOMAIN left -> Position]
  BY DEF BulletsWithout, Spaced
<1>2. BulletsDrawn(left)
  BY <1>1 DEF Spaced, BulletsDrawn
<1> HIDE DEF left
<1> QED
  BY <1>1, <1>2 DEF Spaced, left

-----------------------------------------------------------------------------
(***************************************************************************)
(* The inductive step, one action at a time.                               *)
(***************************************************************************)
LEMMA ShipInitInv == ShipInit => ShipInv
<1> SUFFICES ASSUME ShipInit
             PROVE  ShipInv
  OBVIOUS
<1> USE ShipTypes DEF ShipInit
<1>1. DOMAIN bullets = {}
  OBVIOUS
<1>2. ShipOnScreen
  BY ShipAssumption DEF ShipOnScreen, ShipDrawn, Printable, At
<1>3. x \in 0 .. UINT16_RANGE - 1
  BY ShipAssumption
<1>4. bullets \in [DOMAIN bullets -> Position]
  BY <1>1
<1>5. Spaced(bullets, fire_delay_counter)
  BY <1>1, <1>4 DEF Spaced, BulletsDrawn
<1> QED
  BY <1>2, <1>3, <1>5, InvMeansSpaced

LEMMA ActionKeepsInv == ShipInv /\ ship_action => ShipInv'
<1> SUFFICES ASSUME ShipInv, ship_action
             PROVE  ShipInv'
  OBVIOUS
<1>1. /\ x \in 0 .. UINT16_RANGE - 1 /\ fire_delay_counter \in Nat
      /\ ShipOnScreen
      /\ Spaced(bullets, fire_delay_counter)
  BY InvMeansSpaced
<1> SUFFICES /\ x' \in 0 .. UINT16_RANGE - 1 /\ fire_delay_counter' \in Nat
             /\ ShipOnScreen'
             /\ Spaced(bullets', fire_delay_counter')
  BY DEF ShipInv, ShipTypeOK, BulletsOnScreen, BulletSpacing, NoneBeforeFirstShot,
         Spaced
<1>2. CASE MoveLeft \/ MoveRight
  <2>1. x' \in 0 .. UINT16_RANGE - 1 /\ ShipOnScreen'
    BY <1>1, <1>2, MovesStayOnScreen
  <2>2. UNCHANGED <<fire_delay_counter, bullets>>
    BY <1>2 DEF MoveLeft, MoveRight
  <2> QED
    BY <1>1, <2>1, <2>2
<1>3. CASE Fire
  <2>1. UNCHANGED x /\ fire_delay_counter' = 0 /\ fire_delay_counter >= FIRE_DELAY
    BY <1>3 DEF Fire
  <2>2. ShipOnScreen'
    BY <1>1, <2>1 DEF ShipOnScreen, ShipDrawn
  <2>3. CASE \E s \in Slot : FirstFree(s) /\ bullets' = ShotFrom(s)
    <3>1. PICK s \in Slot : FirstFree(s) /\ bullets' = ShotFrom(s)
      BY <2>3
    <3>2. Spaced(ShotFrom(s), 0)
      BY <1>1, <2>1, <3>1, ShotIsSpaced DEF FirstFree
    <3> QED
      BY <1>1, <2>1, <2>2, <3>1, <3>2
  <2>4. CASE Slot \subseteq DOMAIN bullets /\ UNCHANGED bullets
    <3>1. Spaced(bullets, 0)
      BY <1>1, <2>1, FullPoolIsSpaced
    <3> QED
      BY <1>1, <2>1, <2>2, <2>4, <3>1
  <2> QED
    BY <1>3, <2>3, <2>4 DEF Fire
<1>4. CASE Ignored
  <2>1. UNCHANGED <<x, fire_delay_counter, bullets>>
    BY <1>4 DEF Ignored, shipVars
  <2>2. ShipOnScreen'
    BY <1>1, <2>1 DEF ShipOnScreen, ShipDrawn
  <2> QED
    BY <1>1, <2>1, <2>2
<1> QED
  BY <1>2, <1>3, <1>4 DEF ship_action

LEMMA ShipTickKeepsInv == ShipInv /\ ShipTick => ShipInv'
<1> SUFFICES ASSUME ShipInv, ShipTick
             PROVE  ShipInv'
  OBVIOUS
<1>1. /\ x \in 0 .. UINT16_RANGE - 1 /\ fire_delay_counter \in Nat
      /\ ShipOnScreen
      /\ Spaced(bullets, fire_delay_counter)
  BY InvMeansSpaced
<1> SUFFICES /\ x' \in 0 .. UINT16_RANGE - 1 /\ fire_delay_counter' \in Nat
             /\ ShipOnScreen'
             /\ Spaced(bullets', fire_delay_counter')
  BY DEF ShipInv, ShipTypeOK, BulletsOnScreen, BulletSpacing, NoneBeforeFirstShot,
         Spaced
<1>2. Spaced(update_bullets, DelayTicked) /\ DelayTicked \in Nat
  BY <1>1, UpdateIsSpaced
<1>3. UNCHANGED x /\ fire_delay_counter' = DelayTicked
  BY DEF ShipTick
<1>4. ShipOnScreen'
  BY <1>1, <1>3 DEF ShipOnScreen, ShipDrawn
<1>5. Spaced(bullets', DelayTicked)
  <2>1. CASE bullets' = update_bullets
    BY <1>2, <2>1
  <2>2. CASE \E s \in DOMAIN update_bullets :
               bullets' = BulletsWithout(update_bullets, {s})
    BY <1>2, <2>2, FewerAreSpaced
  <2> QED
    BY <2>1, <2>2 DEF ShipTick
<1> QED
  BY <1>1, <1>2, <1>3, <1>4, <1>5

LEMMA ShipNewGameKeepsInv == ShipInv /\ ShipNewGame => ShipInv'
<1> SUFFICES ASSUME ShipInv, ShipNewGame
             PROVE  ShipInv'
  OBVIOUS
<1>1. x \in 0 .. UINT16_RANGE - 1 /\ fire_delay_counter \in Nat /\ ShipOnScreen
  BY InvMeansSpaced
<1>2. UNCHANGED <<x, fire_delay_counter>> /\ DOMAIN bullets' = {} /\ bullets' = << >>
  BY DEF ShipNewGame, init_bullets
<1>3. ShipOnScreen'
  BY <1>1, <1>2 DEF ShipOnScreen, ShipDrawn
<1>4. bullets' \in [DOMAIN bullets' -> Position]
  BY <1>2
<1>5. Spaced(bullets', fire_delay_counter')
  BY <1>2, <1>4 DEF Spaced, BulletsDrawn
<1> QED
  BY <1>1, <1>2, <1>3, <1>5
     DEF ShipInv, ShipTypeOK, BulletsOnScreen, BulletSpacing, NoneBeforeFirstShot,
         Spaced

LEMMA ShipStep == ShipInv /\ [ShipNext]_shipVars => ShipInv'
<1> SUFFICES ASSUME ShipInv, [ShipNext]_shipVars
             PROVE  ShipInv'
  OBVIOUS
<1>1. CASE ship_action
  BY <1>1, ActionKeepsInv
<1>2. CASE ShipTick
  BY <1>2, ShipTickKeepsInv
<1>3. CASE ShipNewGame
  BY <1>3, ShipNewGameKeepsInv
<1>4. CASE UNCHANGED shipVars
  BY <1>4, ActionKeepsInv DEF ship_action, Ignored
<1> QED
  BY <1>1, <1>2, <1>3, <1>4 DEF ShipNext

(***************************************************************************)
(* ShipInv is an invariant of the ship and its bullets.                    *)
(***************************************************************************)
THEOREM ShipInvariant == ShipSpec => []ShipInv
<1>1. ShipInit => ShipInv
  BY ShipInitInv
<1> QED
  BY <1>1, ShipStep, PTL DEF ShipSpec

(***************************************************************************)
(* draw_ship() never fails: on every screen that the ship fits on, the     *)
(* guards of A and D in ship_action() keep x from wrapping and from        *)
(* passing the right border.                                               *)
(***************************************************************************)
THEOREM ShipStaysOnScreen == ShipSpec => []ShipOnScreen
<1>1. ShipInv => ShipOnScreen
  BY DEF ShipInv
<1> QED
  BY <1>1, ShipInvariant, PTL

(***************************************************************************)
(* draw_all_bullets() never fails.                                         *)
(***************************************************************************)
THEOREM BulletsStayOnScreen == ShipSpec => []BulletsOnScreen
<1>1. ShipInv => BulletsOnScreen
  BY DEF ShipInv
<1> QED
  BY <1>1, ShipInvariant, PTL

(***************************************************************************)
(* Two bullets of the player are never closer than the delay of            *)
(* ship_action() lets them climb apart, whatever is fired, hit and         *)
(* restarted.                                                              *)
(***************************************************************************)
THEOREM BulletsStaySpaced == ShipSpec => []BulletSpacing
<1>1. ShipInv => BulletSpacing
  BY DEF ShipInv
<1> QED
  BY <1>1, ShipInvariant, PTL

(***************************************************************************)
(* With two slots, and a delay in which a bullet climbs more than half of  *)
(* its way to the upper border (600 of 670 pixels in ship.c), the pool is  *)
(* never exhausted when a shot is due: at most one bullet is still in      *)
(* flight then.  The ten slots of bullets[] are more than enough.          *)
(***************************************************************************)
THEOREM ShotIsNeverLost ==
  ASSUME MAX_BULLETS >= 2, MUZZLE_Y < 2 * Climb(FIRE_DELAY)
  PROVE  ShipSpec => []ShotNeverLost
<1>1. ShipInv => ShotNeverLost
  <2> SUFFICES ASSUME ShipInv, fire_delay_counter >= FIRE_DELAY,
                      Slot \subseteq DOMAIN bullets
               PROVE  FALSE
    BY DEF ShotNeverLost
  <2> USE ShipTypes
  <2>1. fire_delay_counter \in Nat /\ Spaced(bullets, fire_delay_counter)
    BY InvMeansSpaced
  <2>2. 0 \in DOMAIN bullets /\ 1 \in DOMAIN bullets
    BY DEF Slot
  <2>3. fire_delay_counter = FIRE_DELAY
    <3>1. fire_delay_counter > FIRE_DELAY => DOMAIN bullets = {}
      BY <2>1 DEF Spaced
    <3> QED
      BY <2>1, <2>2, <3>1
  <2>4. \A s \in DOMAIN bullets :
          bullets[s].y \in Int /\ bullets[s].y >= 0
            /\ bullets[s].y <= MUZZLE_Y - Climb(FIRE_DELAY)
    <3> SUFFICES ASSUME NEW s \in DOMAIN bullets
                 PROVE  /\ bullets[s].y \in Int /\ bullets[s].y >= 0
                        /\ bullets[s].y <= MUZZLE_Y - Climb(FIRE_DELAY)
      OBVIOUS
    <3>1. bullets[s].y \in Int
      BY <2>1 DEF Spaced, Position
    <3>2. bullets[s].y >= 0
      BY <2>1 DEF Spaced, BulletsDrawn, Printable
    <3> QED
      BY <2>1, <2>3, <3>1, <3>2 DEF Spaced
  <2>5. \/ bullets[0].y - bullets[1].y >= Climb(FIRE_DELAY)
        \/ bullets[1].y - bullets[0].y >= Climb(FIRE_DELAY)
    BY <2>1, <2>2 DEF Spaced
  <2> QED
    BY <2>2, <2>4, <2>5, ClimbFacts, MuzzleFacts
<1> QED
  BY <1>1, ShipInvariant, PTL

-----------------------------------------------------------------------------
(***************************************************************************)
(* A bullet is where it has fallen to since the firing frame, from one of  *)
(* the muzzles: that is why it is gone when the next firing frame comes.   *)
(***************************************************************************)
FellFromMuzzle ==
  \A s \in DOMAIN enemy_bullets : At(enemy_bullets[s].x, FiredAtY(s)) \in Muzzles

FireInv == EnemyFireTypeOK /\ AtMostOneInFlight /\ FellFromMuzzle /\ ShieldsCover

(***************************************************************************)
(* The bullets bs may be those of the frame when collisions are checked:   *)
(* either the one just fired or the one of the frame before, fallen.       *)
(***************************************************************************)
InFrame(bs) ==
  /\ DOMAIN bs \subseteq EnemySlot
  /\ bs \in [DOMAIN bs -> Position]
  /\ \A s, t \in DOMAIN bs : s = t
  /\ \A s \in DOMAIN bs :
       IF FiringFrame THEN bs[s] \in Muzzles
       ELSE /\ s \in DOMAIN enemy_bullets
            /\ bs[s] = At(enemy_bullets[s].x, enemy_bullets[s].y + ENEMY_BULLET_SPEED)

-----------------------------------------------------------------------------
(***************************************************************************)
(* A set of natural numbers that is not empty has a least one.             *)
(***************************************************************************)
LEMMA LeastNat ==
  ASSUME NEW T, T \subseteq Nat, T # {}
  PROVE  \E n \in T : \A m \in T : n <= m
<1> DEFINE Less == {p \in Nat \X Nat : p[1] < p[2]}
<1>1. IsWellFoundedOn(Less, Nat)
  BY NatLessThanWellFounded DEF OpToRel
<1>2. PICK n \in T : \A m \in T : << m, n >> \notin Less
  <2> HIDE DEF Less
  <2> QED
    BY <1>1, WFMin
<1>3. \A m \in T : ~(m < n)
  BY <1>2
<1> QED
  BY <1>3

LEMMA FireTypes ==
  /\ MAX_ENEMY_BULLETS \in Nat \ {0} /\ ENEMY_FIRE_PERIOD \in Nat \ {0}
  /\ ENEMY_BULLET_SPEED \in Nat
  /\ HIT_WIDTH \in Nat /\ HIT_HEIGHT \in Nat
  /\ NUM_SHIELDS \in Nat /\ SHIELD_WIDTH \in Nat /\ SHIELD_HEIGHT \in Nat
  /\ SHIELD_SPACING \in Nat /\ SHIELD_RISE \in Nat
  /\ Muzzles \subseteq Position
  /\ XResolution \in Nat /\ YResolution \in Nat
BY EnemyFireAssumption, ScreenAssumption

LEMMA ShieldPlace == \A i \in Shield : ShieldAt(i).x \in Int /\ ShieldAt(i).y \in Int
<1> SUFFICES ASSUME NEW i \in Shield PROVE ShieldAt(i).x \in Int /\ ShieldAt(i).y \in Int
  OBVIOUS
<1>1. NUM_SHIELDS * SHIELD_WIDTH \in Int /\ (NUM_SHIELDS - 1) * SHIELD_SPACING \in Int
  BY FireTypes
<1>2. SHIELD_START_X \in Int
  BY <1>1, FireTypes DEF SHIELD_START_X
<1>3. i \in Int /\ i * (SHIELD_WIDTH + SHIELD_SPACING) \in Int
  BY FireTypes DEF Shield
<1> QED
  BY <1>2, <1>3, FireTypes DEF ShieldAt, At

(***************************************************************************)
(* The phase: the firing frame is the one after the last of a period.      *)
(***************************************************************************)
LEMMA PhaseNext ==
  ASSUME timer_phase \in 0 .. ENEMY_FIRE_PERIOD - 1
  PROVE  /\ PhaseTicked \in 0 .. ENEMY_FIRE_PERIOD - 1
         /\ FiringFrame => timer_phase = ENEMY_FIRE_PERIOD - 1
         /\ ~FiringFrame => PhaseTicked = timer_phase + 1
<1>1. CASE timer_phase = ENEMY_FIRE_PERIOD - 1
  <2>1. timer_phase + 1 = ENEMY_FIRE_PERIOD
    BY <1>1, FireTypes
  <2>2. PhaseTicked = 0
    BY <2>1, FireTypes DEF PhaseTicked
  <2> QED
    BY <1>1, <2>2, FireTypes DEF FiringFrame
<1>2. CASE timer_phase # ENEMY_FIRE_PERIOD - 1
  <2>1. timer_phase + 1 \in 0 .. ENEMY_FIRE_PERIOD - 1
    BY <1>2, FireTypes
  <2>2. PhaseTicked = timer_phase + 1
    BY <2>1, FireTypes DEF PhaseTicked
  <2> QED
    BY <2>1, <2>2, FireTypes DEF FiringFrame
<1> QED
  BY <1>1, <1>2

(***************************************************************************)
(* update_enemy_bullets() leaves no bullet in a firing frame, and in any   *)
(* other the bullets of the frame before, fallen.                          *)
(***************************************************************************)
LEMMA BulletsFall == FireInv => /\ InFrame(update_enemy_bullets)
                                /\ FiringFrame => DOMAIN update_enemy_bullets = {}
<1> SUFFICES ASSUME FireInv
             PROVE  /\ InFrame(update_enemy_bullets)
                    /\ FiringFrame => DOMAIN update_enemy_bullets = {}
  OBVIOUS
<1> DEFINE ub == update_enemy_bullets
<1>1. EnemyFireTypeOK /\ AtMostOneInFlight /\ FellFromMuzzle
  BY DEF FireInv
<1>2. \A s \in DOMAIN enemy_bullets : enemy_bullets[s] \in Position
  BY <1>1 DEF EnemyFireTypeOK
<1>3. /\ DOMAIN ub \subseteq DOMAIN enemy_bullets
      /\ \A s \in DOMAIN ub :
           /\ enemy_bullets[s].y + ENEMY_BULLET_SPEED <= YResolution
           /\ ub[s] = [enemy_bullets[s] EXCEPT !.y = @ + ENEMY_BULLET_SPEED]
  BY DEF update_enemy_bullets
<1>4. \A s \in DOMAIN ub :
        /\ ub[s] = At(enemy_bullets[s].x, enemy_bullets[s].y + ENEMY_BULLET_SPEED)
        /\ ub[s] \in Position
  BY <1>2, <1>3, FireTypes DEF Position, At
<1>5. ASSUME FiringFrame PROVE DOMAIN ub = {}
  <2> SUFFICES ASSUME NEW s \in DOMAIN ub PROVE FALSE
    OBVIOUS
  <2> DEFINE m == At(enemy_bullets[s].x, FiredAtY(s))
  <2>1. timer_phase = ENEMY_FIRE_PERIOD - 1 /\ timer_phase \in Int
    BY <1>1, <1>5, PhaseNext, FireTypes DEF EnemyFireTypeOK
  <2>2. enemy_bullets[s].y \in Int /\ enemy_bullets[s].y + ENEMY_BULLET_SPEED <= YResolution
    BY <1>2, <1>3 DEF Position
  <2>3. m \in Muzzles /\ m.y = enemy_bullets[s].y - ENEMY_BULLET_SPEED * timer_phase
    BY <1>1, <1>3 DEF FellFromMuzzle, FiredAtY, At
  <2>4. ENEMY_BULLET_SPEED * ENEMY_FIRE_PERIOD = ENEMY_BULLET_SPEED * timer_phase + ENEMY_BULLET_SPEED
    BY <2>1, FireTypes
  <2>5. ENEMY_BULLET_SPEED * timer_phase \in Int
    BY <2>1, FireTypes
  <2>6. m.y + ENEMY_BULLET_SPEED * ENEMY_FIRE_PERIOD > YResolution
    BY <2>3, LifetimeAssumption
  <2> QED
    BY <2>2, <2>3, <2>4, <2>5, <2>6, FireTypes
<1>6. ub \in [DOMAIN ub -> Position]
  BY <1>4 DEF update_enemy_bullets
<1>7. InFrame(ub)
  BY <1>1, <1>3, <1>4, <1>5, <1>6 DEF InFrame, EnemyFireTypeOK, AtMostOneInFlight
<1> QED
  BY <1>5, <1>7

(***************************************************************************)
(* fire_enemy_bullet() adds the only bullet of its frame.                  *)
(***************************************************************************)
LEMMA ShotInFrame ==
  ASSUME FireInv, NEW bs \in ShotsOf(update_enemy_bullets)
  PROVE  InFrame(bs)
<1>1. CASE bs = update_enemy_bullets
  BY <1>1, BulletsFall
<1>2. ASSUME NEW m \in Muzzles, FiringFrame, bs = WithShot(update_enemy_bullets, m)
      PROVE  InFrame(bs)
  <2> DEFINE free == FirstFreeOf(update_enemy_bullets)
  <2>1. DOMAIN update_enemy_bullets = {}
    BY <1>2, BulletsFall
  <2>2. bs = [s \in free |-> m]
    BY <1>2, <2>1 DEF WithShot
  <2>3. free \subseteq EnemySlot /\ \A s, t \in free : s = t
    BY <2>1, FireTypes DEF FirstFreeOf, EnemySlot
  <2>4. m \in Position
    BY FireTypes
  <2> HIDE DEF free
  <2> QED
    BY <1>2, <2>2, <2>3, <2>4 DEF InFrame
<1> QED
  BY <1>1, <1>2 DEF ShotsOf

LEMMA FewerInFrame ==
  ASSUME NEW bs, InFrame(bs), NEW gone
  PROVE  InFrame([s \in DOMAIN bs \ gone |-> bs[s]])
BY DEF InFrame

(***************************************************************************)
(* A timer interrupt, as its bullets and shields are settled: cs are the   *)
(* bullets that check_shield_collision() begins with.                      *)
(***************************************************************************)
LEMMA TickSettles ==
  ASSUME FireInv, EnemyFireTick
  PROVE  \E cs : InFrame(cs) /\ check_shield_collision(cs)
<1>1. PICK bs \in ShotsOf(update_enemy_bullets) :
        \E hit \in SUBSET DOMAIN bs : check_shield_collision([s \in DOMAIN bs \ hit |-> bs[s]])
  BY DEF EnemyFireTick
<1>2. PICK hit \in SUBSET DOMAIN bs : check_shield_collision([s \in DOMAIN bs \ hit |-> bs[s]])
  BY <1>1
<1>3. InFrame(bs)
  BY ShotInFrame
<1> QED
  BY <1>2, <1>3, FewerInFrame

(***************************************************************************)
(* What check_shield_collision() leaves of the bullets: none that is in    *)
(* the box of a shield that stands.                                        *)
(***************************************************************************)
LEMMA NoneLeftInShield ==
  ASSUME NEW bs, check_shield_collision(bs),
         NEW s \in DOMAIN enemy_bullets', NEW i \in Shield, Standing(i)
  PROVE  s \in DOMAIN bs /\ enemy_bullets'[s] = bs[s] /\ s \notin InShield(bs, i)
<1>1. s \in DOMAIN bs /\ enemy_bullets'[s] = bs[s] /\ \A j \in Shield : s \notin Stopped(bs, j)
  BY DEF check_shield_collision
<1>2. ASSUME s \in InShield(bs, i) PROVE FALSE
  <2> DEFINE Holding == {j \in Shield : Standing(j) /\ s \in InShield(bs, j)}
  <2>1. Holding \subseteq Nat /\ Holding # {}
    BY <1>2 DEF Shield
  <2>2. PICK j \in Holding : \A k \in Holding : j <= k
    <3> HIDE DEF Holding
    <3> QED
      BY <2>1, LeastNat
  <2>3. \A k \in 0 .. j - 1 : ~(Standing(k) /\ s \in InShield(bs, k))
    BY <2>2, FireTypes DEF Shield
  <2>4. s \in Stopped(bs, j)
    BY <2>3 DEF Stopped
  <2> QED
    BY <1>1, <2>4
<1> QED
  BY <1>1, <1>2

(***************************************************************************)
(* What check_shield_collision() does to the shields: with one bullet at   *)
(* most, it is the shield that stops it, if any, which loses a level.      *)
(***************************************************************************)
LEMMA ShieldsWear ==
  ASSUME EnemyFireTypeOK, NEW bs, InFrame(bs), check_shield_collision(bs)
  PROVE  /\ shields' \in [Shield -> ShieldState]
         /\ \A i \in Shield :
              /\ Stopped(bs, i) = {} => shields'[i] = shields[i]
              /\ shields[i] = "SHIELD_FULL"   => shields'[i] # "SHIELD_NONE"
              /\ shields[i] = "SHIELD_BROKEN" => shields'[i] # "SHIELD_FULL"
              /\ shields[i] = "SHIELD_NONE"   => shields'[i] = "SHIELD_NONE"
<1>1. \A i \in Shield : shields'[i] = Damaged(shields[i], Stopped(bs, i))
  BY DEF check_shield_collision
<1>2. ASSUME NEW i \in Shield
      PROVE  /\ shields'[i] \in ShieldState
             /\ Stopped(bs, i) = {} => shields'[i] = shields[i]
             /\ shields[i] = "SHIELD_FULL"   => shields'[i] # "SHIELD_NONE"
             /\ shields[i] = "SHIELD_BROKEN" => shields'[i] # "SHIELD_FULL"
             /\ shields[i] = "SHIELD_NONE"   => shields'[i] = "SHIELD_NONE"
  <2> DEFINE hits == Stopped(bs, i)
  <2>1. shields[i] \in ShieldState
    BY DEF EnemyFireTypeOK
  <2>2. shields'[i] = Damaged(shields[i], hits)
    BY <1>1
  <2>3. hits = {} \/ \E s \in hits : hits = {s}
    <3>1. hits \subseteq DOMAIN bs
      BY DEF Stopped, InShield
    <3> HIDE DEF hits
    <3> QED
      BY <3>1 DEF InFrame
  <2>4. shields[i] = "SHIELD_NONE" => hits = {}
    BY DEF Stopped, Standing
  <2> HIDE DEF hits
  <2>5. CASE hits = {}
    BY <2>1, <2>2, <2>5 DEF Damaged
  <2>6. CASE hits # {} /\ shields[i] = "SHIELD_FULL"
    <3>1. shields'[i] = "SHIELD_BROKEN"
      BY <2>2, <2>3, <2>6, Zenon DEF Damaged
    <3> QED
      BY <2>6, <3>1 DEF ShieldState, hits
  <2>7. CASE hits # {} /\ shields[i] # "SHIELD_FULL"
    <3>1. shields[i] = "SHIELD_BROKEN"
      BY <2>1, <2>4, <2>7 DEF ShieldState
    <3>2. shields'[i] = "SHIELD_NONE"
      BY <2>2, <2>7, Zenon DEF Damaged
    <3> QED
      BY <2>7, <3>1, <3>2 DEF ShieldState, hits
  <2> QED
    BY <2>5, <2>6, <2>7 DEF hits
<1>3. shields' \in [Shield -> ShieldState]
  BY <1>2 DEF check_shield_collision
<1> QED
  BY <1>2, <1>3

-----------------------------------------------------------------------------
LEMMA NewGameFireInv ==
  ASSUME enemy_bullets = << >>, shields = FullShields, timer_phase \in 0 .. ENEMY_FIRE_PERIOD - 1
  PROVE  FireInv
<1>1. DOMAIN enemy_bullets = {}
  OBVIOUS
<1> QED
  BY <1>1 DEF FireInv, EnemyFireTypeOK, AtMostOneInFlight, FellFromMuzzle, ShieldsCover,
              FullShields, ShieldState

LEMMA TickKeepsFireInv ==
  ASSUME FireInv, EnemyFireTick
  PROVE  FireInv'
<1>0. EnemyFireTypeOK /\ AtMostOneInFlight /\ FellFromMuzzle /\ ShieldsCover
  BY DEF FireInv
<1>1. PICK cs : InFrame(cs) /\ check_shield_collision(cs)
  BY TickSettles
<1>2. /\ timer_phase' = PhaseTicked /\ timer_phase' \in 0 .. ENEMY_FIRE_PERIOD - 1
      /\ timer_phase \in Int /\ timer_phase' \in Int
      /\ FiringFrame => timer_phase' = 0
      /\ ~FiringFrame => timer_phase' = timer_phase + 1
  BY <1>0, PhaseNext, FireTypes DEF EnemyFireTypeOK, EnemyFireTick, FiringFrame
<1>3. /\ DOMAIN enemy_bullets' \subseteq DOMAIN cs
      /\ \A s \in DOMAIN enemy_bullets' : enemy_bullets'[s] = cs[s] /\ cs[s] \in Position
  BY <1>1 DEF check_shield_collision, InFrame
<1>4. EnemyFireTypeOK'
  <2>1. enemy_bullets' \in [DOMAIN enemy_bullets' -> Position]
    BY <1>1, <1>3 DEF check_shield_collision
  <2>2. shields' \in [Shield -> ShieldState]
    BY <1>0, <1>1, ShieldsWear
  <2> QED
    BY <1>1, <1>2, <1>3, <2>1, <2>2 DEF EnemyFireTypeOK, InFrame
<1>5. AtMostOneInFlight'
  BY <1>1, <1>3 DEF AtMostOneInFlight, InFrame
<1>6. ASSUME NEW s \in DOMAIN enemy_bullets', FiringFrame
      PROVE  /\ enemy_bullets'[s] \in Muzzles /\ enemy_bullets'[s] \in Position
             /\ FiredAtY(s)' = enemy_bullets'[s].y
  <2>1. enemy_bullets'[s] \in Muzzles /\ enemy_bullets'[s] \in Position
    BY <1>1, <1>3, <1>6 DEF InFrame
  <2> QED
    BY <1>2, <1>6, <2>1, FireTypes DEF FiredAtY, Position
<1>7. ASSUME NEW s \in DOMAIN enemy_bullets', ~FiringFrame
      PROVE  /\ s \in DOMAIN enemy_bullets /\ enemy_bullets[s] \in Position
             /\ enemy_bullets'[s] = At(enemy_bullets[s].x, enemy_bullets[s].y + ENEMY_BULLET_SPEED)
             /\ FiredAtY(s)' = FiredAtY(s)
  <2>1. /\ s \in DOMAIN enemy_bullets
        /\ enemy_bullets'[s] = At(enemy_bullets[s].x, enemy_bullets[s].y + ENEMY_BULLET_SPEED)
    BY <1>1, <1>3, <1>7 DEF InFrame
  <2>2. enemy_bullets[s] \in Position
    BY <1>0, <2>1 DEF EnemyFireTypeOK
  <2>3. ENEMY_BULLET_SPEED * timer_phase' = ENEMY_BULLET_SPEED * timer_phase + ENEMY_BULLET_SPEED
    BY <1>2, <1>7, FireTypes
  <2>4. ENEMY_BULLET_SPEED * timer_phase \in Int
    BY <1>2, FireTypes
  <2>5. enemy_bullets'[s].y = enemy_bullets[s].y + ENEMY_BULLET_SPEED /\ enemy_bullets[s].y \in Int
    BY <2>1, <2>2 DEF At, Position
  <2>6. FiredAtY(s)' = FiredAtY(s)
    BY <2>3, <2>4, <2>5, FireTypes DEF FiredAtY
  <2> QED
    BY <2>1, <2>2, <2>6
<1>8. FellFromMuzzle'
  <2> SUFFICES ASSUME NEW s \in DOMAIN enemy_bullets'
               PROVE  At(enemy_bullets'[s].x, FiredAtY(s)') \in Muzzles
    BY DEF FellFromMuzzle
  <2>1. CASE FiringFrame
    BY <1>6, <2>1 DEF At, Position
  <2>2. CASE ~FiringFrame
    BY <1>0, <1>7, <2>2 DEF At, FellFromMuzzle
  <2> QED
    BY <2>1, <2>2
<1>9. ShieldsCover'
  <2> SUFFICES ASSUME NEW s \in DOMAIN enemy_bullets', NEW i \in Shield,
                      Standing(i)', InColumn(s, i)', Above(FiredAtY(s)', i)
               PROVE  Above(enemy_bullets'[s].y, i)
    BY DEF ShieldsCover, Above, ShieldAt
  <2>1. CASE FiringFrame
    BY <1>6, <2>1
  <2>2. CASE ~FiringFrame
    <3>1. Standing(i)
      BY <1>0, <1>1, ShieldsWear DEF Standing
    <3>2. s \in DOMAIN cs /\ enemy_bullets'[s] = cs[s] /\ s \notin InShield(cs, i)
      BY <1>1, <3>1, NoneLeftInShield
    <3>3. /\ s \in DOMAIN enemy_bullets /\ enemy_bullets[s].x \in Int /\ enemy_bullets[s].y \in Int
          /\ enemy_bullets'[s].x = enemy_bullets[s].x
          /\ enemy_bullets'[s].y = enemy_bullets[s].y + ENEMY_BULLET_SPEED
          /\ FiredAtY(s)' = FiredAtY(s)
      BY <1>7, <2>2 DEF At, Position
    <3>4. InColumn(s, i) /\ Above(FiredAtY(s), i)
      BY <3>3 DEF InColumn, Above, ShieldAt
    <3>5. Above(enemy_bullets[s].y, i)
      BY <1>0, <3>1, <3>3, <3>4 DEF ShieldsCover
    <3>6. ~Overlap(enemy_bullets'[s], HIT_WIDTH, HIT_HEIGHT, ShieldAt(i), SHIELD_WIDTH, SHIELD_HEIGHT)
      BY <3>2 DEF InShield
    <3> QED
      BY <3>3, <3>4, <3>5, <3>6, ShieldPlace, FireTypes, FallAssumption
         DEF Overlap, InColumn, Above
  <2> QED
    BY <2>1, <2>2
<1> QED
  BY <1>4, <1>5, <1>8, <1>9 DEF FireInv

LEMMA FireInvKept == FireInv /\ [EnemyFireNext]_enemyFireVars => FireInv'
<1> SUFFICES ASSUME FireInv, [EnemyFireNext]_enemyFireVars PROVE FireInv'
  OBVIOUS
<1>1. CASE EnemyFireTick
  BY <1>1, TickKeepsFireInv
<1>2. CASE EnemyFireNewGame
  <2>1. DOMAIN enemy_bullets' = {}
    BY <1>2 DEF EnemyFireNewGame
  <2> QED
    BY <1>2, <2>1 DEF EnemyFireNewGame, FireInv, EnemyFireTypeOK, AtMostOneInFlight,
                      FellFromMuzzle, ShieldsCover, FullShields, ShieldState
<1>3. CASE UNCHANGED enemyFireVars
  BY <1>3
     DEF enemyFireVars, FireInv, EnemyFireTypeOK, AtMostOneInFlight, FellFromMuzzle,
              FiredAtY, ShieldsCover, Standing, InColumn
<1> QED
  BY <1>1, <1>2, <1>3 DEF EnemyFireNext

(***************************************************************************)
(* Where the bullet in flight is follows from the muzzle it was fired at   *)
(* and the ticks since (fire_enemy_bullet() and update_enemy_bullets()).   *)
(***************************************************************************)
THEOREM FireInvariant == EnemyFireSpec => []FireInv
<1>1. EnemyFireInit => FireInv
  BY NewGameFireInv DEF EnemyFireInit
<1> QED
  BY <1>1, FireInvKept, PTL DEF EnemyFireSpec

(***************************************************************************)
(* There is never more than one bullet of the aliens in flight, for every  *)
(* period that outlasts a fall (fire_enemy_bullet(), ship.c).              *)
(***************************************************************************)
THEOREM OneInFlight == EnemyFireSpec => []AtMostOneInFlight
<1>1. FireInv => AtMostOneInFlight
  BY DEF FireInv
<1> QED
  BY <1>1, FireInvariant, PTL

(***************************************************************************)
(* No bullet gets past a shield that stands, for every bullet that falls   *)
(* less in a frame than its own height and the shield's                    *)
(* (check_shield_collision(), game_state.c).                               *)
(***************************************************************************)
THEOREM NoneGetsPastShields == EnemyFireSpec => []ShieldsCover
<1>1. FireInv => ShieldsCover
  BY DEF FireInv
<1> QED
  BY <1>1, FireInvariant, PTL

(***************************************************************************)
(* A frame damages one shield at most, and by one level, although          *)
(* check_shield_collision() goes through all bullets and all shields.      *)
(***************************************************************************)
THEOREM ShieldsWearOneLevel == EnemyFireSpec => ShieldsWearSlowly
<1> DEFINE Worn == \A i \in Shield :
                     /\ shields[i] = "SHIELD_FULL"   => shields'[i] # "SHIELD_NONE"
                     /\ shields[i] = "SHIELD_BROKEN" => shields'[i] # "SHIELD_FULL"
                     /\ shields[i] = "SHIELD_NONE"   => shields'[i] = "SHIELD_NONE"
                     /\ shields'[i] # shields[i] =>
                          \A k \in Shield \ {i} : shields'[k] = shields[k]
<1>1. FireInv => [EnemyFireTick => Worn]_enemyFireVars
  <2> SUFFICES ASSUME FireInv, EnemyFireTick PROVE Worn
    OBVIOUS
  <2>1. PICK cs : InFrame(cs) /\ check_shield_collision(cs)
    BY TickSettles
  <2>2. \A i \in Shield :
          /\ Stopped(cs, i) = {} => shields'[i] = shields[i]
          /\ shields[i] = "SHIELD_FULL"   => shields'[i] # "SHIELD_NONE"
          /\ shields[i] = "SHIELD_BROKEN" => shields'[i] # "SHIELD_FULL"
          /\ shields[i] = "SHIELD_NONE"   => shields'[i] = "SHIELD_NONE"
    BY <2>1, ShieldsWear DEF FireInv
  <2>3. ASSUME NEW i \in Shield, NEW k \in Shield, i # k, NEW s \in Stopped(cs, i)
        PROVE  Stopped(cs, k) = {}
    <3> SUFFICES ASSUME NEW t \in Stopped(cs, k) PROVE FALSE
      OBVIOUS
    <3>1. s \in InShield(cs, i) /\ t \in InShield(cs, k) /\ Standing(i) /\ Standing(k)
      BY DEF Stopped
    <3>2. s = t
      BY <2>1, <3>1 DEF InFrame, InShield
    <3>3. i \in 0 .. k - 1 \/ k \in 0 .. i - 1
      BY <2>3, FireTypes DEF Shield
    <3> QED
      BY <3>1, <3>2, <3>3 DEF Stopped
  <2> QED
    BY <2>2, <2>3
<1> QED
  BY <1>1, FireInvariant, PTL DEF EnemyFireSpec, ShieldsWearSlowly

=============================================================================
