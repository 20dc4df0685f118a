SPECIFICATION MCSpec
CONSTANTS
  b1 = b1
  b2 = b2
  b3 = b3
  Block <- MCThree
  Null = Null
  Num = Num
  NumClasses = 3
  NumSlots = 3
  FieldClass <- MCFieldClass
  StrLen = 0
  Bufs = {2}
  Wild = {}
  Reg <- MCReg
  Typed = TRUE
SYMMETRY MCSymmetry
INVARIANTS GCTypeOK Sound Exact MarksClear NoCrash IInv
PROPERTIES OnlyReclaims
CHECK_DEADLOCK FALSE
