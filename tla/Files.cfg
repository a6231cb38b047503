\* Two cells per block and one direct pointer: fourteen cells fill the block
\* of pointers below indirect2, fifteen would run off its end.
SPECIFICATION OpenSpec
CONSTANTS
  Names = {f, g, full, long}
  FullNames = {full}
  LongNames = {long}
  Cells = 2
  DirectCount = 1
  NumInodes = 4
  NumBlocks = 14
  Zero = zero
  Tasks = {1, 2}
  First = 1
  MaxOpen = 2
  MaxFds = 5
  MaxCalls = 7
  Flags <- OpenModes
  Lengths = {3, 8}
  Absent = absent
  Closed = closed
SYMMETRY NameSymmetry
CHECK_DEADLOCK FALSE
INVARIANTS FsInv AssertionsHold
PROPERTIES ImplementsFiles
