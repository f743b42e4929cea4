CONSTANTS
  p0 = p0
  p1 = p1
  p2 = p2
  p3 = p3
  p4 = p4
  NoPcb = NoPcb
  Pcb = {p0, p1, p2, p3}
  Sleepers = {}
  SleepTimes = {1}
  PcbPool <- FourPcbs
  PCBPTR_BLOCKS = 3
  MaxPid = 5
SPECIFICATION TreeSpec
INVARIANTS TreeTypeOK BlocksPartition ListedOnce OwnChildrenWake
