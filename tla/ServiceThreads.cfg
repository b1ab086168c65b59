\* A file of two lines and one of one; one stick with one path, which comes
\* twice; two users with two browsers and a row in each, one export; two
\* processes on two ids; three texts of config.json; the byte above a port is 0 or not.
SPECIFICATION FairSpec
CONSTANTS
    f1 = f1
    f2 = f2
    Files = {f1, f2}
    MaxLines <- MCMaxLines
    Sticks = {k}
    Paths = {p}
    MaxInsertions = 2
    Users = {u1, u2}
    Chromium = {c}
    Firefox = {f}
    Exports = {e}
    MaxRows = 1
    Pids = {i1, i2}
    MaxProcesses = 2
    MaxHeld = 1
    Texts <- MCTexts
    Ram = "standard"
    Values = {v1, v2}
    Ports <- MCPorts
    Junk = {0, 1}
    MaxNotices = 2
INVARIANTS
    ThreadsTypeOK
    MarkedIsThere
    FileNamesItsStick
    PackIsWhatItSays
    PairsAreOne
PROPERTIES
    CompleteFileArrives
    
    PollersCatchUp
