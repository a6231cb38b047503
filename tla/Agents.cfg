\* Messages to mailboxes of two that overflow, file events, masks, loop states
\* and tool calls, two applications, one priority level, no clock.
SPECIFICATION Spec
CONSTANTS
  MaxPid = 2
  MaxPriority = 17
  DefaultPriority = 16
  Priorities = {}
  MailboxCapacity = 2
  MaxSends = 3
  IntMax = 5
  MaxTime = 0
  MaxSkew = 0
  Timeouts <- Forever
  Intervals = {}
  Masks <- FileOnly
  LoopInputs = {"Observing"}
  ToolOutcomes = {"Observing"}
INVARIANTS OnePlace TreeComplete PidsPartitioned NeverIdle NoLostWakeup SleepersThink
  MailboxKeepsNewest KernelInv
PROPERTIES ImplementsChannel
