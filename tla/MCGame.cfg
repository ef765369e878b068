CONSTANTS
  XResolution = 10
  YResolution = 19
  ENEMY_ROWS = 2
  ENEMY_COLS = 2
  ENEMY_START_X = 2
  ENEMY_START_Y = 1
  ENEMY_SPACING_X = 4
  ENEMY_SPACING_Y = 6
  ENEMY_WIDTH = 2
  ENEMY_HEIGHT = 3
  ALIEN_WIDTH = 3
  ALIEN3_WIDTH = 3
  ALIEN_HEIGHT = 3
  EDGE = 1
  STEP_X = 1
  DROP_Y = 3
  MOVE_PERIOD = 1
  SHIP_X = 0
  SHIP_Y = 17
  ship_width = 4
  ship_height = 2
  SHIP_STEP = 3
  MAX_BULLETS = 2
  BULLET_WIDTH = 2
  BULLET_HEIGHT = 3
  BULLET_SPEED = 2
  FIRE_DELAY = 6
  FIRE_DELAY_START = 7
  UINT16_RANGE = 65536
  MAX_ENEMY_BULLETS = 2
  ENEMY_BULLET_SPEED = 4
  ENEMY_FIRE_PERIOD = 5
  HIT_WIDTH = 2
  HIT_HEIGHT = 3
  NUM_SHIELDS = 1
  SHIELD_WIDTH = 2
  SHIELD_HEIGHT = 2
  SHIELD_SPACING = 1
  SHIELD_RISE = 5
  Muzzles <- MCMuzzles
SPECIFICATION GameFairSpec
INVARIANT AbortsOnlyAtBottom
PROPERTIES GameEnds HitsSettled NoEnemySkipped EnemiesSpec ShipSpec EnemyFireSpec
CHECK_DEADLOCK FALSE
