SPECIFICATION FairSpec
CONSTANTS
  BufferSize = 3
  v1 = v1
  v2 = v2
  Values <- MCValues
  Zero = Zero
  ConsumerCalls <- CallsThatAreSafe
INVARIANTS PushHasRoom CallWithinSize KnownIsThere NoSharedSlot CopiesTheQueue
PROPERTY ImplementsFairFifo
