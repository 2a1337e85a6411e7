SPECIFICATION Spec
CONSTANTS
    Coord <- MCCoord
    Home <- MCHome
INVARIANTS
    RaisedForReason
    ToldIsKept
PROPERTY UntoldInterrupts
