CONSTANTS
  p0 = p0
  p1 = p1
  p2 = p2
  p3 = p3
  p4 = p4
  NoPcb = NoPcb
  Pcb = {p0, p1, p2, p3, p4}
  Sleepers = {p1}
  SleepTimes = {}
  PcbPool <- FivePcbs
  PCBPTR_BLOCKS = 6
  MaxPid = 6
SPECIFICATION TreeSpec
INVARIANTS InitAwakened
