SPECIFICATION FairSpec
CONSTANTS
  b1 = b1
  b2 = b2
  b3 = b3
  Block <- MCTwo
  Null = Null
  Num = Num
  NumClasses = 2
  NumSlots = 2
  FieldClass <- MCFieldClass
  StrLen = 0
  Reg = {0, 255}
  ArgReg <- MCArgReg
  PoolSizes = {24, 32}
  MemLimit = 50
  Imm = {Num}
  ArrSizes = {1}
  MaxArrays = 2
  MaxDepth = 1
PROPERTIES NewArraysNull
CHECK_DEADLOCK FALSE
