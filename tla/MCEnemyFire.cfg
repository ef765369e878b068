\* The numbers of ship.c and ship.h.
CONSTANTS
  XResolution = 1152
  YResolution = 864
  MAX_ENEMY_BULLETS = 10
  ENEMY_BULLET_SPEED = 20
  ENEMY_FIRE_PERIOD = 60
  HIT_WIDTH = 8
  HIT_HEIGHT = 30
  NUM_SHIELDS = 4
  SHIELD_WIDTH = 47
  SHIELD_HEIGHT = 34
  SHIELD_SPACING = 200
  SHIELD_RISE = 250
  Muzzles <- MCMuzzles
SPECIFICATION EnemyFireSpec
INVARIANTS AtMostOneInFlight ShieldsCover
PROPERTY ShieldsWearSlowly
