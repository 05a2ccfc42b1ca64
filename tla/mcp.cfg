SPECIFICATION FairSpec
CONSTANTS
    None = None
    PageTokens = {t1}
    MaxPages = 2
    MaxTools = 3
    MaxLines = 2
INVARIANTS
    CallGuarded
    ListIsWhole
PROPERTIES
    NothingAfterReturn
    CommandEnds
CHECK_DEADLOCK FALSE
