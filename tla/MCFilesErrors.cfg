SPECIFICATION Spec
CONSTANTS
  T1 = T1
  T2 = T2
  Threads <- MCThreads
  Scenes <- MCScenes
  Pseudo <- MCPseudo
  MaxFaults = 1
  Mask = 18
  BufferSize = 2
  ChunkSize = 2
  CR = 10
  LF = 11
INVARIANT ErrorsAreThrown
CHECK_DEADLOCK FALSE
