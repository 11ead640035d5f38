\* As cluster_scheduler.sv drives it: alloc_ready_o is not looked at.
SPECIFICATION Spec
CONSTANTS
  NumRB = 1
  NumSlots = 8
  Sizes = {3}
  Handshake = FALSE
INVARIANT ReportedSpaceIsGranted
