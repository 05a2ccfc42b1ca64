SPECIFICATION FairSpec
CONSTANTS
    None = None
    MaxAttempts = 4
    PageTokens = {t1, t2}
    Caps = {0, 2, 50}
INVARIANTS
    MutationSentOnce
    VerifiedTokenSent
    OkIsComplete
PROPERTIES
    CommandEnds
CHECK_DEADLOCK FALSE
