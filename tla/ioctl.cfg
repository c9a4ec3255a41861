SPECIFICATION FairSpec
CONSTANTS
    Loader = loader
    Mon = {m1}
    NoRequest = NoRequest
    Count = 4
    MaxRaced = 2
    Processes <- Listed
INVARIANTS TypeOK NoFault HookedAsAsked ToldIsTheVerdict
PROPERTY EveryRequestTried
CHECK_DEADLOCK FALSE
