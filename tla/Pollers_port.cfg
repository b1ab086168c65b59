\* The ports and the bytes above them that ServiceThreads.cfg has; a stick, a
\* file and a process are not needed.
SPECIFICATION ThreadsSpec
CONSTANTS
    f1 = f1
    f2 = f2
    Files = {f1, f2}
    MaxLines <- MCMaxLines
    Sticks = {k}
    Paths = {p}
    MaxInsertions = 0
    Users = {u1}
    Chromium = {c}
    Firefox = {}
    Exports = {}
    MaxRows = 1
    Pids = {i1}
    MaxProcesses = 0
    MaxHeld = 0
    Texts <- MCTexts
    Ram = "standard"
    Values = {v1}
    Ports <- MCPorts
    Junk = {0, 1}
    MaxNotices = 0
INVARIANTS
    PortIsShown
