\* Two MPQs, messages of up to two packets, one shared cell.
SPECIFICATION FairSpec
CONSTANTS
  NumFifo = 2
  NumCells = 1
  NumStatic = 1
  MaxPkts = 2
  Elems = {1, 2}
  Reuse = FALSE
INVARIANTS
  TypeOK
  CountersAccounted
  HandlerOrder
  PacketsGivenBack
  AllHandled
  LockedStaysValid
PROPERTIES
  EachTaskOnce
  DrivesQueues
  AllGivenBack
