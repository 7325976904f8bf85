SPECIFICATION ToolSpec
CONSTANTS
  IMM = 4096
  INT = 16384
  WORD = 32768
  BITS = 15
  LOW = 16
  IMM_BITS = 12
  LOW_BITS = 4
  MEM_SIZE = 216
  CODE_BASE = 16
  DATA_BASE = 192
  FloatResults = {0}
  Scripts <- RunScripts
  Files = {}
  Stdins <- RunStdins
PROPERTIES
  RunsTheScript
CHECK_DEADLOCK FALSE
