\* Termination under a fix budget.
CONSTANTS
  f1 = f1  f2 = f2
  Setups <- LiveSetups
  ContinuationLimit = 1
  MaxRetries = 1
SPECIFICATION FairSpec
PROPERTY Terminates
