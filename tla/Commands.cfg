\* Two clusters; four host direct commands, two of the NIC and two transfers,
\* of which four are unanswered at a time.
SPECIFICATION FairSpec
CONSTANTS
  Clusters = {{w1, r1, s1, x1}, {w2, r2, q1, t1}}
  Writes = {w1, w2}
  Reads = {r1, r2}
  Sends = {s1}
  Rdmas = {q1}
  ToHost = {x1}
  FromHost = {t1}
  RdmaPackets = 2
  RespBuffSize = 4
  AxDepth = 1
  IdDepth = 2
  RespFIFODepth = 4
  NumParallelCmd = 2
  NetworkBuffer = 2
  MaxBusy = 4
INVARIANTS
  TypeOK
  ResponsesFit
PROPERTY ImplementsService
