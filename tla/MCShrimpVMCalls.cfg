SPECIFICATION FairSpec
CONSTANTS
  b1 = b1
  b2 = b2
  b3 = b3
  Block <- MCTwo
  Null = Null
  Num = Num
  NumClasses = 2
  NumSlots = 2
  FieldClass <- MCFieldClass
  StrLen = 0
  Reg = {255}
  ArgReg <- MCArgReg
  PoolSizes = {24}
  MemLimit = 50
  Imm = {Null}
  ArrSizes = {1}
  MaxArrays = 1
  MaxDepth = 3
INVARIANTS RefsLive NoHiddenRefs
PROPERTIES GCReturns ManagedHeapSpec RunsEnd
CHECK_DEADLOCK FALSE
