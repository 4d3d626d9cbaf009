SPECIFICATION Spec
CONSTANTS
  kcd = kcd
  procA = procA
  procB = procB
  null = null
  Process = {kcd, procA, procB}
  Null = null
  Timer = Timer
  Uart = Uart
  Decoder = kcd
  priority <- MCPriority
  LOWEST = 2
  Block = {0, 1}
  Delay = {0, 2}
  MaxTime = 3
INVARIANTS
  ReadyQueuesRight
  NoIdleBlock
  DelayedMailOnTime
