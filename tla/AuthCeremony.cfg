\* Two admins with either action and either key, challenges that live two
\* ticks and a clock of four.
SPECIFICATION FairSpec
CONSTANTS
    Admins = {a1, a2}
    Window = 2
    MaxClock = 4
INVARIANT TypeOK
PROPERTIES
    StopNeedsToken
    GrantedIsInForce
    WokenStops
