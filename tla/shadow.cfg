\* Stores of 1, 2 and 4 bytes in three frames.
CONSTANTS
  Value = {u, v}
  Null = null
  Byte <- Bytes
  Size = {1, 2, 4}
  Owner <- Frames
  MaxDepth = 3
  MaxLabels = 2
SPECIFICATION Spec
SYMMETRY Symmetry
INVARIANT ShadowTypeOK
INVARIANT RecordedOnce
INVARIANT NoStaleTaint
INVARIANT ShadowAgrees
INVARIANT WholeLoadsExact
