SPECIFICATION Spec
CONSTANTS
  Modulus = 16
  NumRegs = 21
  Address <- MCAddress
  Var <- MCVar
  Programs <- MCPrograms
  Inputs <- MCInputs
  TmpStart <- MCTmpStart
INVARIANTS LangTypeOK ControlInCode
PROPERTIES SourceSpec MachineSpec ComputesOnInt32 Halts
CHECK_DEADLOCK FALSE
