SPECIFICATION FairSpec
CONSTANTS
    Piece <- MCPiece
    Junk <- MCJunk
    Data <- MCData
    Sent <- MCSent
    MaxAsks = 3
    MaxAdrift = 1
    MaxFrames = 2
    MaxDepth = 2
INVARIANTS
    TypeOK
    OverreadNeedsThreePieces
    StaleOnlyAfterDoubledYes
    HeldOnlyWhenBroken
    OneThreadAtATime
PROPERTIES
    ImplementsFrameDelivery
    EveryCommandAnswered
CHECK_DEADLOCK FALSE
