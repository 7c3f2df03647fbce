\* A function that stores an abstract value through a pointer.
CONSTANTS
  Value = {u, v}
  Null = null
  Byte <- Bytes
  Size = {1, 2, 4}
  Owner <- Frames
  MaxDepth = 3
  MaxLabels = 2
SPECIFICATION Spec
INVARIANT TaintSurvives
