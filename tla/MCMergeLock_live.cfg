\* Liveness with synchronous callers.
CONSTANTS
  a1 = a1  a2 = a2  b1 = b1  op = op  mA = mA  mB = mB
  Machines = {mA, mB}
  MachineOf <- MCMachineOf
  NoProc = NoProc  NoInode = NoInode
  MaxBreaks = 2
  Inodes = {i1, i2}
  SyncProcs = {a1}
  StepProcs = {a2}
  MergeProcs = {}
  Operators = {op}
SPECIFICATION FairSpec
PROPERTY AcquireEnds
CHECK_DEADLOCK FALSE
