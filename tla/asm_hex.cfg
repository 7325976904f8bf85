SPECIFICATION Spec
CONSTANTS
  IMM = 8
  INT = 4096
  WORD = 65536
  LOW = 2
  IMM_BITS = 3
  LOW_BITS = 1
  CODE_BASE = 256
  DATA_BASE = 2048
  MaxLines = 2
  StaleTexts = {}
  Labels = {"", ":a", ":b"}
  Lines <- HexLines
INVARIANTS
  LdBuildsItsValue
