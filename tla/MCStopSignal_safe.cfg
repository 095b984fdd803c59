\* Two interjections and two Ctrl-C over two steps.  Nothing is stuck for
\* good but a run that is over, waits on a person or died inside Event.clear().
SPECIFICATION FairSpec
CONSTANTS
    a = a
    b = b
    Interjections = {a, b}
    MaxSteps = 2
    MaxCtrlC = 2
    MaxWorkers = 1
CHECK_DEADLOCK FALSE
INVARIANTS TypeOK InterruptsLandSafely DrainedTextKept
PROPERTY StopCutsWork
