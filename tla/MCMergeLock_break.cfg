\* Every caller may break a stale lock; an operator may unlink it.
CONSTANTS
  a1 = a1  a2 = a2  b1 = b1  op = op  mA = mA  mB = mB
  Machines = {mA, mB}
  MachineOf <- MCMachineOf
  NoProc = NoProc  NoInode = NoInode
  MaxBreaks = 2
  Inodes = {i1, i2, i3}
  SyncProcs = {b1}
  StepProcs = {a1}
  MergeProcs = {a2}
  Operators = {op}
SYMMETRY InodeSymmetry
VIEW LiveFiles
CONSTRAINT OneLeak
SPECIFICATION Spec
INVARIANTS TypeOK ExclusiveUnlessStolen ReadHolderNeverJudgedStale
\* All processes may have ended.
CHECK_DEADLOCK FALSE
