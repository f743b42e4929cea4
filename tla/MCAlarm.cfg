CONSTANTS
  p0 = p0
  p1 = p1
  p2 = p2
  NoPcb = NoPcb
  Pcb = {p0, p1, p2}
  Sleepers = {p2}
  SleepTimes = {0, 1}
SPECIFICATION ContextSpec
PROPERTY TrapUndisturbed
