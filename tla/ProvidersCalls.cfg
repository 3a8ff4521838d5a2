CONSTANTS
    a = a
    b = b
    x = x
    y = y
    p = p
    q = q
    Servers = {p, q}
    Ids = {a, b}
    Secrets = {x, y}
    Unset = Unset
    Unreadable = Unreadable
    All = All
    NotRead = NotRead
    Lists <- SmallLists
    Settings <- Telling
    MaxEdits = 2
SPECIFICATION Spec
INVARIANTS
    AnswersAreCurrent
    SourceIsUnambiguous
SYMMETRY SetSymmetry
CHECK_DEADLOCK FALSE
