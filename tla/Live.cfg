\* Liveness: messages, waits with and without a timeout, and one priority level,
\* the highest, which a priority above it leaves as it is.
SPECIFICATION FairSpec
CONSTANTS
  MaxPid = 2
  MaxPriority = 16
  DefaultPriority = 16
  Priorities = {18}
  MailboxCapacity = 1
  MaxSends = 1
  IntMax = 5
  MaxTime = 2
  MaxSkew = 0
  Timeouts <- ForeverOrSoon
  Intervals = {}
  Masks <- NoMasks
  LoopInputs = {}
  ToolOutcomes = {}
INVARIANTS ScanFindsBest
PROPERTIES TimedWaitReturns EventEndsWait ReadyRuns OrphansReaped
