SPECIFICATION ApiSpec
CONSTANTS
    MAX_RETRIES = 3
    Margin = 1
    Lifetimes = {0, 1, 2, 3}
    MaxDelay = 3
    MaxTime = 6
    MaxCalls = 3
    Absent = Absent
INVARIANTS
    MutationSentOnce
PROPERTIES
    StalenessBounded
CHECK_DEADLOCK FALSE
