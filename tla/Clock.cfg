\* Heartbeats, timeouts and a moving clock, two applications.
SPECIFICATION Spec
CONSTANTS
  MaxPid = 2
  MaxPriority = 17
  DefaultPriority = 16
  Priorities = {}
  MailboxCapacity = 1
  MaxSends = 0
  IntMax = 5
  MaxTime = 3
  MaxSkew = 1
  Timeouts <- SoonOrHuge
  Intervals = {2}
  Masks <- UselessBit
  LoopInputs = {}
  ToolOutcomes = {"Calling"}
INVARIANTS NoLostWakeup
PROPERTIES SleepsBeforeDeadline TickWakesAllDue
