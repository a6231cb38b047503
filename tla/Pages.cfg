\* Three user spaces and two kernel stacks; tables of four entries, pages of two bytes.
SPECIFICATION PageSpec
CONSTANTS
  FrameEnd = 34
  Fan = 4
  PageSize = 2
  UserSets = {1, 2, 3}
  Kernel = 0
  Pids = {0, 1}
  Programs <- SmallPrograms
  StackPages = 1
  ContextVa = 30
  ContextPages = 2
  Buffers <- SmallBuffers
  Refs = {6}
  RefSize = 2
  MaxOps = 5
CHECK_DEADLOCK FALSE
INVARIANTS TablesInv
PROPERTIES ImplementsSpaces
