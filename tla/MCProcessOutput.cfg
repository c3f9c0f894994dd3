SPECIFICATION ProcessSpec
CONSTANTS
  BUFFER_SIZE = 2
  PipeSize = 4
  MaxDescriptors = 5
  MaxOutput = 7
  MaxCalls = 5
INVARIANT AllOfTheOutput
CHECK_DEADLOCK FALSE
