CONSTANTS
  p0 = p0
  p1 = p1
  p2 = p2
  p3 = p3
  q0 = q0
  q1 = q1
  b0 = b0
  b1 = b1
  b2 = b2
  b3 = b3
  NoPcb = NoPcb
  NoMq = NoMq
  NoResource = NoResource
  NoMessage = NoMessage
  Pcb = {p0, p1, p2, p3}
  Sleepers = {p1}
  SleepTimes = {}
  PcbPool <- FourPcbs
  MaxPid = 4
  Qids <- TwoQueues
  MqId = {q0, q1}
  ResourceId = {}
  ResourceTypes = {"none"}
  Messages <- OneMessage
  BufLengths = {}
  OpenModes = {}
  Descriptor = {b0, b1, b2, b3}
  MAX_LEN_MESSAGE = 2
  MAX_NUM_MESSAGES = 2
  MAX_NUM_MESSAGEQUEUES = 2
  MAX_NUM_RESOURCES = 0
  MESSAGE_BLOCKS = 5
  PCBPTR_BLOCKS = 9
  MaxFd = 1
  OpenFirst = TRUE
  CHILDREN = 1
  MESSAGES_EXTRA = 3
  Nap = 2
SPECIFICATION FairTestSpec
INVARIANTS InitIsLast PoolsSuffice
PROPERTIES TestEnds
