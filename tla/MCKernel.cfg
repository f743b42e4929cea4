CONSTANTS
  p0 = p0
  p1 = p1
  p2 = p2
  q0 = q0
  r0 = r0
  b0 = b0
  b1 = b1
  NoPcb = NoPcb
  NoMq = NoMq
  NoResource = NoResource
  NoMessage = NoMessage
  Pcb = {p0, p1, p2}
  Sleepers = {}
  SleepTimes = {0}
  PcbPool <- ThreePcbs
  MaxPid = 3
  MqId = {q0}
  ResourceId = {r0}
  ResourceTypes = {"file"}
  Messages <- OneMessage
  BufLengths = {1}
  OpenModes = {"DSOS_CREATE", "DSOS_READ"}
  Descriptor = {b0, b1}
  MAX_LEN_MESSAGE = 2
  MAX_NUM_MESSAGES = 1
  MAX_NUM_MESSAGEQUEUES = 1
  MAX_NUM_RESOURCES = 1
  MESSAGE_BLOCKS = 1
  PCBPTR_BLOCKS = 3
  MaxFd = 1
  OpenFirst = TRUE
VIEW Unreturned
SPECIFICATION KernelSpec
INVARIANTS NoDanglingDescriptor WakesTheLiving
