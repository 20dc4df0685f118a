SPECIFICATION MCSpec
CONSTANTS
  b1 = b1
  b2 = b2
  b3 = b3
  Block <- MCTwo
  Null = Null
  Num = Num
  NumClasses = 3
  NumSlots = 2
  FieldClass <- MCFieldClass
  StrLen = 0
  Bufs = {0, 2}
  Wild = {Num}
  Reg <- MCReg
  Typed = FALSE
SYMMETRY MCSymmetry
INVARIANTS SafePathsLive DegradedInv
PROPERTIES Progress
CHECK_DEADLOCK FALSE
