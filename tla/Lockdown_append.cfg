\* One callback, two events, no restart: the event lockdown_on is denied.
SPECIFICATION LockdownSpec
CONSTANTS
    MaxPart = 2
    Days = {1}
    MaxSeals = 2
    MaxStarts = 1
    Callbacks = {c1}
    Others = FALSE
INVARIANT AppendOnly
