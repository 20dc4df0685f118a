SPECIFICATION Spec
CONSTANTS
  main = main
  foo = foo
  l1 = l1
  l2 = l2
  A = A
  B = B
  x = x
  y = y
  s0 = s0
  s1 = s1
  i32 = i32
  p = p
  q = q
  r0 = r0
  none = none
  Main = main
  EmptyText = s0
  FuncDecl <- DataFuncs
  ClassDecl <- DataClasses
  Label = {}
  Statement <- DataStatements
  Literal = {s1}
  BuiltinType = {i32}
  RegId <- MCRegId
  TextLen <- MCTextLen
  MaxFuncs = 1
  MaxClasses = 3
  MaxInstrs = 3
  MaxCode = 24
  MaxDepth = 1
INVARIANTS FileRoundTrips SymbolsResolve ParamsArrive ToolchainInv
CHECK_DEADLOCK FALSE
