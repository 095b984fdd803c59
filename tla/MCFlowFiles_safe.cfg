\* One trouble: a crash, an unreadable cold file or a failed best-effort step.
SPECIFICATION Spec
CONSTANTS
  f1 = f1  f2 = f2
  Flows = {f1, f2}
  NoFlow = NoFlow
  MaxBody = 2
  Troubles <- Disturbed
  MaxTroubles = 1
SYMMETRY FlowSymmetry
INVARIANTS
  TypeOK RefsResolve SavedIsStored UnreadStaysWhole ResumableWhileOpen
  BaselinesOutliveResume
CHECK_DEADLOCK FALSE
