SPECIFICATION Spec
CONSTANT Value <- MCValue
INVARIANTS OperandsSurvive Dispatches
CHECK_DEADLOCK FALSE
