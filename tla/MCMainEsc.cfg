CONSTANTS
  BASE_SCORE = 10
  BULLET_PENALTY = 3
  TIME_PENALTY = 2
  MIN_SCORE = 1
  FREQ = 2
  MAX_SHOTS = 2
  MAX_FRAMES = 5
  FRAMES_DOWN = 3
  Faults = {}
SPECIFICATION MainSpec
PROPERTY EscReturnsToMenu
CHECK_DEADLOCK FALSE
