SPECIFICATION FairSpec
CONSTANTS
    q1 = q1
    q2 = q2
    w1 = w1
    w2 = w2
    d1 = d1
    d2 = d2
    Queries = {q1, q2}
    Timed = {q1}
    Streams = {q2}
    Writers = {w1, w2}
    Docs = {d1, d2}
    Upload <- MCUpload
    NoDoc = NoDoc
    Missing = Missing
    InitialKbs <- MCNoText
    Free = Free
    MaxRestarts = 1
INVARIANTS
    TypeOK
    AckedIndexed
    QuerySeesAcked
PROPERTIES
    IndexNeverShrinks
    EveryCallEnds
CHECK_DEADLOCK FALSE
