SPECIFICATION FairSpec
CONSTANTS
    Event = {e1, e2}
    Comm = comm
    NoThread = NoThread
    Header = Header
    No = No
    MaxPolls = 2
    MaxRaced = 2
CONSTRAINT Followed
INVARIANTS TypeOK Accounting WellFormedAnswers StackRecordAlive CallbackIsReleased
PROPERTY PollComesBack
CHECK_DEADLOCK FALSE
