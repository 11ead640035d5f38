\* Five packets of one or two segments through a ring of four, over two MPQs
\* that share one cell: all orders of writes, arrivals and feedbacks, with
\* the wrap of the ring.
SPECIFICATION FairSpec
CONSTANTS
  Size = 4
  Sizes = {1, 2}
  NumPkts = 5
  NumMsgs = 2
  NumCells = 1
  NumStatic = 1
INVARIANTS
  TypeOK
  PacketsDisjoint
  SpaceAccounted
PROPERTY AllProcessed
