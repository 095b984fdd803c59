\* An undo over the snapshot an earlier undo left.
CONSTANTS
  f1 = f1  f2 = f2
  Flows = {f1}
  MaxTroubles = 1
  MaxEdits = 1
  MaxRejects = 1
SPECIFICATION Spec
INVARIANT EditsSurvive
CHECK_DEADLOCK FALSE
