\* Review rounds, rulings, deferral, the operator, saves cut in the middle, restarts.
CONSTANTS
  f1 = f1  f2 = f2
  Setups <- SafeSetups
  ContinuationLimit = 1
  MaxRetries = 1
SPECIFICATION RewindSpec
INVARIANTS
  RewindTypeOK ReviewedUnlessBehind BookkeepingUnlessBehind
PROPERTY GateUnlessBehind
