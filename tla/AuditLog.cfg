\* Two dates, parts of one line, four events and three starts.
SPECIFICATION Spec
CONSTANTS
    MaxPart = 1
    Days = {1, 2}
    MaxSeals = 4
    MaxStarts = 3
INVARIANTS
    TypeOK
    LossLeavesTrace
    OneChain
    GapsAreDrops
    PartOverflowBounded
PROPERTY LedgerSpec
