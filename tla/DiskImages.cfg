SPECIFICATION Spec
CONSTANTS
    Hard = Hard
    Small = Small
    Floppy = Floppy
    Old = Old
    New = New
    None = None
    Image <- MCImage
    Edition <- MCEdition
    Blocks <- MCBlocks
    Data <- MCData
    Overlaid <- MCOverlaid
    Stem <- MCStem
    Loads <- MCLoads
    Written <- MCWritten
    BitsPerByte = 2
    BitsPerWord = 3
    BlockBits = 1
INVARIANTS
    TypeOK
    OwnOverlay
PROPERTY KeepsBlocks
