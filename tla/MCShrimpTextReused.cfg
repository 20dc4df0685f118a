SPECIFICATION Spec
CONSTANTS
  ca = ca
  cb = cb
  Block = {b1, b2}
  Reg = {r1, r2}
  Char = {ca, cb}
  NUL = NUL
  Junk = {ca}
  None = None
  Literal <- MCLiteral
  DataLen = 3
  MaxStrings = 5
  MemLimit = 30
INVARIANTS AllReadRight
CHECK_DEADLOCK FALSE
