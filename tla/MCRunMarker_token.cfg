\* Runs of two machines and an end-session.
CONSTANTS
  a1 = a1  a2 = a2  a3 = a3  b1 = b1  ea = ea
  MachineOf <- MCMachineOf
  NoMarker = NoMarker  Undecodable = Undecodable
  Runs = {a1, a2, b1}
  Enders = {ea}
  Worlds <- EveryWorld
SPECIFICATION Spec
INVARIANTS
  TypeOK ExclusiveUnlessEvicted LostClaimStopsDestruction
  ExclusiveAcrossMachines NothingLeftBehind
\* All processes may have ended.
CHECK_DEADLOCK FALSE
