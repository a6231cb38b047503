\* Liveness with a task above the default priority.
SPECIFICATION FairSpec
CONSTANTS
  MaxPid = 2
  MaxPriority = 17
  DefaultPriority = 16
  Priorities = {17}
  MailboxCapacity = 1
  MaxSends = 0
  IntMax = 5
  MaxTime = 0
  MaxSkew = 0
  Timeouts <- Forever
  Intervals = {}
  Masks <- NoMasks
  LoopInputs = {}
  ToolOutcomes = {}
PROPERTIES ReadyRuns
