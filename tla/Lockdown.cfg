\* Two interchangeable callbacks, three events, one restart, one date, no
\* rotation.
SPECIFICATION LockdownSpec
CONSTANTS
    MaxPart = 3
    Days = {1}
    MaxSeals = 3
    MaxStarts = 2
    Callbacks = {c1, c2}
    Others = TRUE
INVARIANTS
    LockdownTypeOK
    OneActivation
    LockAfterReport
    OpenPortLocks
    LockdownLeavesTrace
PROPERTY
    LockHeld
SYMMETRY Interchangeable
