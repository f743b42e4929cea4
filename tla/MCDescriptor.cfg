CONSTANTS
  p0 = p0
  p1 = p1
  q0 = q0
  q1 = q1
  r0 = r0
  b0 = b0
  b1 = b1
  b2 = b2
  NoPcb = NoPcb
  NoMq = NoMq
  NoResource = NoResource
  NoMessage = NoMessage
  Pcb = {p0, p1}
  Sleepers = {}
  SleepTimes = {}
  MqId = {q0, q1}
  ResourceId = {r0}
  ResourceTypes = {"file", "device"}
  Messages <- OneMessage
  BufLengths = {1}
  OpenModes = {"DSOS_CREATE", "DSOS_READ", "DSOS_WRITE", "DSOS_EXCL"}
  Descriptor = {b0, b1, b2}
  MAX_LEN_MESSAGE = 2
  MAX_NUM_MESSAGES = 1
  MAX_NUM_MESSAGEQUEUES = 2
  MAX_NUM_RESOURCES = 1
  MESSAGE_BLOCKS = 1
  PCBPTR_BLOCKS = 2
  MaxFd = 2
  OpenFirst = TRUE
VIEW Unreturned
SPECIFICATION IoSpec
INVARIANTS DescriptorsConsistent ResourcesConsistent NoDescriptorLost OpenQueuesExist
