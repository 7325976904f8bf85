SPECIFICATION Spec
CONSTANTS
  IMM = 4096
  INT = 1048576
  WORD = 1073741824
  LOW = 16
  IMM_BITS = 12
  LOW_BITS = 4
  CODE_BASE = 8192
  DATA_BASE = 65536
  MaxLines = 2
  StaleTexts = {"text"}
  Labels = {"", ":a", ":b"}
  Lines <- OperandLines
INVARIANTS
  PassesAgree
  SameOperation
  FieldsFit
  FilesTell
