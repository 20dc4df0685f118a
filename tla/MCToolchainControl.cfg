SPECIFICATION Spec
CONSTANTS
  main = main
  foo = foo
  l1 = l1
  l2 = l2
  A = A
  B = B
  x = x
  y = y
  s0 = s0
  s1 = s1
  i32 = i32
  p = p
  q = q
  r0 = r0
  none = none
  Main = main
  EmptyText = s0
  FuncDecl <- ControlFuncs
  ClassDecl = {}
  Label <- ControlLabels
  Statement <- ControlStatements
  Literal = {}
  BuiltinType = {i32}
  RegId <- MCRegId
  TextLen <- MCTextLen
  MaxFuncs = 2
  MaxClasses = 0
  MaxInstrs = 3
  MaxCode = 17
  MaxDepth = 3
INVARIANTS ToolchainTypeOK JumpsLand CallsDefined PcOnInstruction ControlInFunction ToolchainInv
CHECK_DEADLOCK FALSE
