\* Two tasks inside at most; two command ids, a command buffer of one entry;
\* handlers of up to four commands, waits, tests and transfers.
SPECIFICATION FairSpec
CONSTANTS
  Tasks = {t1, t2}
  NumCmds = 2
  NumBuffered = 1
  MaxOps = 4
  DmaWhileLocked = FALSE
INVARIANTS
  TypeOK
  IdsExact
  FedBackLast
PROPERTIES
  WaitMeansDone
  AllFedBack
