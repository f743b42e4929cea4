CONSTANTS
  p0 = p0
  p1 = p1
  p2 = p2
  p3 = p3
  q0 = q0
  q1 = q1
  b0 = b0
  b1 = b1
  b2 = b2
  NoPcb = NoPcb
  NoMq = NoMq
  NoMessage = NoMessage
  Pcb = {p0, p1, p2}
  Sleepers = {p0}
  SleepTimes = {1}
  MqId = {q0}
  Messages <- OneMessage
  BufLengths = {1, 2}
  OpenModes = {"DSOS_CREATE", "DSOS_WRITE"}
  Descriptor = {b0, b1}
  MAX_LEN_MESSAGE = 2
  MAX_NUM_MESSAGES = 2
  MAX_NUM_MESSAGEQUEUES = 1
  MESSAGE_BLOCKS = 3
  PCBPTR_BLOCKS = 3
  MaxFd = 1
  OpenFirst = TRUE
SPECIFICATION Spec
INVARIANTS BlockedCallsWait
