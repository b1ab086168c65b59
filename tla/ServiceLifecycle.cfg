\* A worker before the auth pipe, a tracer after it, and two sessions; nothing
\* else needs a bound.
SPECIFICATION FairSpec
CONSTANTS
    Early = {deep}
    Late = {process}
    Tracers = {process}
    Sessions = {s1, s2}
INVARIANT TypeOK
PROPERTIES
    StopsOrHangs
    OrphansOnlyByDeath
    AgentsReturn
