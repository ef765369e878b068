CONSTANTS
  Programs = {"scan", "poll", "timed"}
  Keys = {{1}, {0, 7}}
  CONFIG = {1, 6}
  TRYS = 3
  Errors = {{5}, {6}, {7}}
  Faults = {"inb", "outb", "irq"}
  IDLE_SECONDS = 2
  TICKS = 2
  MAX_KEYS = 4
SPECIFICATION KeyboardSpec
INVARIANTS KeysInOrder RestoreWhenQuiet
PROPERTY AlwaysReturns
CHECK_DEADLOCK FALSE
