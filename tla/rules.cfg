SPECIFICATION Spec
CONSTANTS
    Null = Null
    MaxNodes = 5
    f1 = f1
    f2 = f2
    Contents <- MCContents
    Handlers = {h1}
    Image <- MCImage
    LoaderImage = "loader"
    NoImage = "none"
    TooLong = "long"
    Commands <- MCCommands
    Asks <- MCAsks
    Files <- MCFiles
    MaxWork = 2
    MaxShort = 1
INVARIANTS TypeOK HandlesFollowTheRules StopsOnlyBeforeTheFirstRule
PROPERTY ImplementsRuleSet
CHECK_DEADLOCK FALSE
