SPECIFICATION KSpec
CONSTANTS
    t1 = t1
    t2 = t2
    a = a
    b = b
    c = c
    NoKey = NoKey
    Typed = {t1, t2}
    Texts <- MCTexts
    FifoRoom = 1
INVARIANTS
    KTypeOK
    TakenInOrder
    PasteKept
PROPERTY PasteEnds
