SPECIFICATION Spec
CONSTANTS
  b1 = b1
  b2 = b2
  b3 = b3
  Block <- MCThree
  Null = Null
  Num = Num
  NumClasses = 2
  NumSlots = 2
  FieldClass <- MCFieldClass
  StrLen = 0
  Reg = {0, 255}
  ArgReg <- MCArgReg
  PoolSizes = {24}
  MemLimit = 80
  Imm = {Null}
  ArrSizes = {1}
  MaxArrays = 1
  MaxDepth = 1
SYMMETRY MCSymmetry
INVARIANTS TypeOK CollectorPrecondition CollectsAll Accounting VMInv
CHECK_DEADLOCK FALSE
