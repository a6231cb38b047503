\* A file event while an agent that watches nothing sleeps.
SPECIFICATION Spec
CONSTANTS
  MaxPid = 2
  MaxPriority = 17
  DefaultPriority = 16
  Priorities = {}
  MailboxCapacity = 1
  MaxSends = 0
  IntMax = 5
  MaxTime = 0
  MaxSkew = 0
  Timeouts <- Forever
  Intervals = {}
  Masks <- FileOnly
  LoopInputs = {}
  ToolOutcomes = {}
PROPERTIES DefaultWatchesAll
