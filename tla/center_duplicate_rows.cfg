SPECIFICATION Spec
CONSTANTS
    Session = {s1, s2}
    Parser = {p1, p2}
    Gui = {}
    File = {f1}
    Batch <- Batches
    MaxBatch = 1
    NoThread = NoThread
    MaxPending = 2
    DbFails = FALSE
SYMMETRY Symmetry
INVARIANT OneRowPerFile
CHECK_DEADLOCK FALSE
