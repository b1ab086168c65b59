\* One admin is enough.
SPECIFICATION Spec
CONSTANTS
    Admins = {a1}
    Window = 1
    MaxClock = 2
INVARIANT UninstallWorks
