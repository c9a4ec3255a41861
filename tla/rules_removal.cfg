SPECIFICATION FairSpec
CONSTANTS
    Null = Null
    MaxNodes = 3
    f1 = f1
    f2 = f2
    Contents <- MCContents
    Handlers = {}
    Image <- MCImage
    LoaderImage = "loader"
    NoImage = "none"
    TooLong = "long"
    Commands <- MCCommands
    Asks <- MCAsks
    Files <- MCFiles
    MaxWork = 2
    MaxShort = 0
PROPERTY RemovalEnds
CHECK_DEADLOCK FALSE
