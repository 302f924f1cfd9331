SPECIFICATION Spec
CONSTANTS
  Values = {v1, v2}
  None = none
  MaxStarts = 2
INVARIANTS AttachKeeps
CHECK_DEADLOCK FALSE
