SPECIFICATION Spec
CONSTANTS
    Thread = {t1, t2, t3}
    NoThread = NoThread
INVARIANTS TypeOK OrphanDepthBounded
PROPERTY ImplementsExclusiveUse
CHECK_DEADLOCK FALSE
