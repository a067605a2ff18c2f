SPECIFICATION BufferSpec
CONSTANTS
    Cap = 3
    MsgIDs = {m1, m2}
    Texts = {t1, t2}
    NoID = NoID
    MaxSeq = 5
INVARIANTS
    Contiguous
    SinceIsGapless
PROPERTIES
    ImplementsLog
