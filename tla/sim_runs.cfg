SPECIFICATION FairSpec
CONSTANTS
  IMM = 4096
  INT = 16384
  WORD = 32768
  BITS = 15
  MEM_SIZE = 64
  FloatResults = {0, 5}
  Files <- RunFiles
  Stdins <- RunStdins
INVARIANTS
  TypeOK
  MemorySafe
  FramesHold
PROPERTIES
  EndsWithoutBranches
  ReturnsToCaller
