CONSTANTS
    Writers = {w1, w2, w3}
    Contents = {c1, c2}
    Stamps = {d1, d2}
    NoWriter = NoWriter
    MaxRows = 3
SPECIFICATION Spec
SYMMETRY Symmetry
INVARIANTS
    TypeOK
    AckedOnce
    SerialChain
    RowsFormTree
    VerifiedIsWhole
CHECK_DEADLOCK FALSE
