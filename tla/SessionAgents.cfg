\* A console and a remote session, one account with an ASCII name and one
\* without; one death of the service.
SPECIFICATION FairSpec
CONSTANTS
    Sessions = {s1, s2}
    Remote = {s2}
    Accounts = {ann, bob}
    Foreign = {bob}
    MaxCrashes = 1
INVARIANTS
    TypeOK
    NoSecondAgent
    RecordNamesUser
PROPERTY AgentComes
