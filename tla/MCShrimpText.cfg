SPECIFICATION Spec
CONSTANTS
  ca = ca
  cb = cb
  Block = {b1, b2, b3}
  Reg = {r1, r2}
  Char = {ca, cb}
  NUL = NUL
  Junk = {ca}
  None = None
  Literal <- MCLiteral
  DataLen = 3
  MaxStrings = 5
  MemLimit = 58
INVARIANTS FreshReadsRight TextInv
SYMMETRY Alike
CHECK_DEADLOCK FALSE
