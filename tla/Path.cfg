\* Nodes of one to three bytes in a path of five bytes and three nodes, behind
\* a Tool Result region of four bytes.
SPECIFICATION AreaSpec
CONSTANTS
  PathBufferLen = 6
  MaxBytes = 5
  MaxNodes = 3
  HeaderSize = 1
  Policy = "Lru"
  Payloads = {0, 2, 5}
  MaxSeq = 4
  Chunk = 2
  ResultLen = 4
  Answers = {4, 5}
  MetaSize = 1
  Processes <- TwoProcesses
  Targets = {1, 2, 3}
  MaxCalls = 2
INVARIANTS PathInv NodesIntact WithinQuota HeaderAgrees EvictionSucceeds VictimIsOldest ChunksMoveAll LastResultReadable HeldNodesReadable
PROPERTIES ImplementsLog
