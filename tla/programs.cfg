SPECIFICATION ProgSpec
CONSTANTS
  IMM = 4096
  INT = 16384
  WORD = 32768
  BITS = 15
  LOW = 16
  IMM_BITS = 12
  LOW_BITS = 4
  MEM_SIZE = 1704
  CODE_BASE = 16
  DATA_BASE = 1616
  ARRAY = 1616
  FloatResults = {0}
  Files = {}
  Stdins <- ProgramStdins
INVARIANTS
  AnswersRight
  FailsOnlyWithoutRoom
PROPERTIES
  ProgramsEnd
