\* Matched and mismatched programs on short stacks.
CONSTANTS
  Value = {a, b}
  Null = null
  main = main
  f = f
  g = g
  bswap = bswap
  Function = {main, f, g}
  Intrinsic = {bswap}
  Main = main
  Programs <- AllPrograms
  StackSize = 4
  MaxCalls = 5
SPECIFICATION Spec
SYMMETRY Symmetry
INVARIANT StashTypeOK
INVARIANT TaintedHaveValues
INVARIANT ValuesArrive
INVARIANT NothingLeft
