\* The clock and the limits of timer.c; 18 Hz is the first that 16 bits do not hold.
CONSTANTS
  TIMER_FREQ = 1193182
  MIN_FREQ = 19
  Timers = {0, 2, 3}
  Frequencies = {0, 18, 60, 1193183}
  Seconds = {0, 2}
  TICKS = 2
  Configs = {7, 12}
  Hooks = {1, 2, 3}
  Faults = {"io", "irq", "print"}
  MAX_CALLS = 3
SPECIFICATION TimerFairSpec
PROPERTIES RatesPromised PrintedIsConfigured TestIntEnds
CHECK_DEADLOCK FALSE
