SPECIFICATION FairSpec
CONSTANTS
    Session = {s1}
    Parser = {p1, p2}
    Gui = {g1}
    File = {f1}
    Batch <- Batches
    MaxBatch = 1
    NoThread = NoThread
    MaxPending = 2
    DbFails = TRUE
INVARIANTS TypeOK AnswersMatch SavedFileIsTheFile
PROPERTY LostSessionStopsTheServer PoisonEndsSession SilentAgentLeaves
CHECK_DEADLOCK FALSE
