\* Every shape of graph on three groups, with stops.
CONSTANTS
  g1 = g1  g2 = g2  g3 = g3  g4 = g4
  Groups = {g1, g2, g3}
  Order <- MCOrder
  MaxWorkers = 2
  Scenarios <- EveryShape
SPECIFICATION FairSpec
PROPERTIES Terminates ImplementsTaskGraph
