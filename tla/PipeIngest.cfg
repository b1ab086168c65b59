\* Two threads with two events each and three connections; every service
\* death costs the agent one of them.
SPECIFICATION Spec
CONSTANTS
    Threads = {t1, t2}
    PerThread = 2
    MaxConns = 3
INVARIANTS
    TypeOK
    WholeInOrder
    WriteTellsTheTruth
    NeverTwice
