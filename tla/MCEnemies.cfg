CONSTANTS
  ENEMY_ROWS = 3
  ENEMY_COLS = 2
  ENEMY_START_X = 100
  ENEMY_START_Y = 50
  ENEMY_SPACING_X = 500
  ENEMY_SPACING_Y = 80
  ENEMY_WIDTH = 40
  ENEMY_HEIGHT = 40
  ALIEN_WIDTH = 45
  ALIEN3_WIDTH = 51
  ALIEN_HEIGHT = 34
  XResolution = 1152
  YResolution = 864
  EDGE = 20
  STEP_X = 20
  DROP_Y = 40
  MOVE_PERIOD = 2
SPECIFICATION EnemiesFairSpec
INVARIANTS EnemiesTypeOK FormationRigid DescentNotPreempted NeverOffSideways
PROPERTY FormationComesDown
CHECK_DEADLOCK FALSE
