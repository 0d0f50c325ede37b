SPECIFICATION MCSpec
CONSTANTS
    k1 = k1
    k2 = k2
    COMMENT = COMMENT
    BLANK = BLANK
    LONG = LONG
    Keys <- MCKeys
    Requests = {r1, r2}
    Inputs <- Pasted
    InitFiles <- Files
    MaxLines = 4
    c1 = c1
    c2 = c2
    NoKey = NoKey
    Fingerprints <- MCKeys
    Contents <- MCContents
    StartBuf = 6
    MaxToken = 12
    Names = {v1, v2}
    Values <- MCValues
    Kilo = 2
    Word = 16
SYMMETRY RequestSymmetry
INVARIANTS
    MishapsExplain
    KeysDelivered
PROPERTIES
    ImplementsKeySet
    SizesSound
CONSTRAINT Bounded
