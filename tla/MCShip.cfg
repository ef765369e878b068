\* The numbers of ship.c and ship.h.  The screen is 25 steps of the ship
\* narrower than the 1152 pixels of mode 0x14C, which leaves the positions at
\* its two borders the same.
CONSTANTS
  XResolution = 402
  YResolution = 864
  SHIP_X = 350
  SHIP_Y = 700
  ship_width = 50
  ship_height = 50
  SHIP_STEP = 30
  MAX_BULLETS = 10
  BULLET_WIDTH = 8
  BULLET_HEIGHT = 30
  BULLET_SPEED = 20
  FIRE_DELAY = 30
  FIRE_DELAY_START = 150
  UINT16_RANGE = 65536
SPECIFICATION ShipSpec
INVARIANTS ShipOnScreen BulletsOnScreen BulletSpacing ShotNeverLost
