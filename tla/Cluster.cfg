\* Three tasks, two HPUs, two places in the FIFO, a ring of two packets.
SPECIFICATION CsFairSpec
CONSTANTS
  NumRB = 1
  NumSlots = 4
  Sizes = {0, 2}
  Handshake = FALSE
  NumHpus = 2
  FifoDepth = 2
  TaskIds = {t1, t2, t3}
INVARIANTS
  CsTypeOK
  DataBeforeHandler
  ToPopExact
  BuffersOwned
PROPERTY AllFedBack
