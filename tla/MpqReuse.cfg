SPECIFICATION Spec
CONSTANTS
  NumFifo = 2
  NumCells = 1
  NumStatic = 1
  MaxPkts = 2
  Elems = {1, 2}
  Reuse = TRUE
INVARIANT NonEmptyAssertion
