SPECIFICATION FairSpec
CONSTANTS
    b1 = b1
    b2 = b2
    Sessions = {b1, b2}
    Kinds <- MCKinds
    MaxMessages = 4
CHECK_DEADLOCK FALSE
PROPERTY SessionsSound
