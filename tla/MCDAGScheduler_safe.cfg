\* Four graphs on four groups undisturbed; every graph on three groups with stops
\* and one KeyboardInterrupt, two of the groups perhaps without a commit.
CONSTANTS
  g1 = g1  g2 = g2  g3 = g3  g4 = g4
  Groups = {g1, g2, g3, g4}
  Order <- MCOrder
  MaxWorkers = 2
  Scenarios <- Everything
SPECIFICATION Spec
INVARIANTS
  TypeOK RunsOnce
  NoSharedWorktree DependenciesVisible CompletedWorkMerged
