CONSTANTS
  TRIES = 2
  CNT = 2
  MAX_REFUSALS = 2
  Movement = {"low"}
  Answers = {"ACK", "NACK", "ERROR"}
  Faults = {"inb", "outb", "irq", "parity"}
  MAX_PACKETS = 2
SPECIFICATION MouseSpec
INVARIANTS MouseTypeOK PacketsAligned
PROPERTY CommandEnds
CHECK_DEADLOCK FALSE
