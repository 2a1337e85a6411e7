SPECIFICATION Spec
CONSTANTS
    Instructions <- MCInstructions
    Period = 5
    Delay = 4
    Hush = 3
    Values = {0, 3}
INVARIANTS
    TypeOK
    OnTime
    SoundEnds
PROPERTIES
    TimeKept
    GoesSilent
