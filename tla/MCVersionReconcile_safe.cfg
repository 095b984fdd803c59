\* Two flows release, one release is rejected; edits, failures and kills.
CONSTANTS
  f1 = f1  f2 = f2
  Flows = {f1, f2}
  MaxTroubles = 2
  MaxEdits = 1
  MaxRejects = 1
SPECIFICATION Spec
INVARIANTS TypeOK ReleasesFollow EditsKept VerdictHonoured
SYMMETRY Alike
CHECK_DEADLOCK FALSE
