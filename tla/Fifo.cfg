\* Two FIFOs with a static cell each compete for one shared cell; two
\* elements, so that the order and the data output show.
SPECIFICATION Spec
CONSTANTS
  NumFifo = 2
  NumCells = 1
  NumStatic = 1
  Elems = {p1, p2}
INVARIANTS
  TypeOK
  CellsPartitioned
PROPERTY ImplementsQueues
