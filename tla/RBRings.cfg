\* Two rings of four slots: the shim's choice between rings, all sizes.
SPECIFICATION FairSpec
CONSTANTS
  NumRB = 2
  NumSlots = 4
  Sizes = {1, 2, 3}
  Handshake = TRUE
INVARIANTS
  TypeOK
  PacketsDisjoint
  BitmapExact
  ReportedSpaceIsFree
PROPERTY SpaceRecovered
