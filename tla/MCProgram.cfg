CONSTANTS
  BASE_SCORE = 4
  BULLET_PENALTY = 2
  TIME_PENALTY = 1
  MIN_SCORE = 2
  FREQ = 1
  MAX_SHOTS = 0
  MAX_FRAMES = 1
  FRAMES_DOWN = 1
  Faults = {"init"}
  Scores = {2, 3}
  MAX_HIGHSCORES = 3
  MAX_LINES = 5
  MishapKinds = {"kill", "test", "open", "write", "load"}
  MISHAPS = 2
SPECIFICATION ProgramSpec
INVARIANTS BoardSorted HeadersCounted FirstLineIsHeader RestartKeepsBoard WinIsListed
CHECK_DEADLOCK FALSE
