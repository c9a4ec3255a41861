SPECIFICATION Spec
CONSTANTS
    local = local
    stick = stick
    plain = plain
    short = short
    Names = {local, stick, plain, short}
    Paths = {local, stick}
    None = None
    Types = {"hwp", "zip"}
    i1 = i1
    i2 = i2
    c1 = c1
    c2 = c2
    Indices = {i1, i2}
    Contents = {c1, c2}
    Suffix <- MCSuffix
    External = {stick}
    Remembered = {}
    ShortNames = {short}
    MaxNodes = 2
    MaxFields = 2
SYMMETRY MCSymmetry
INVARIANT NewTypeCanBeAdded
CHECK_DEADLOCK FALSE
