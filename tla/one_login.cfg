SPECIFICATION LoginFairSpec
CONSTANTS
    None = None
    OtpAttempts = 3
    OtpSends = 2
    PasswordAttempts = 3
    TransportAttempts = 3
    RetryAttempts = 3
INVARIANTS
    PendingMatchesPhase
    SideEffectsBounded
    WithinBudgets
    NothingRepeated
    RetriesAreEarned
    NeverDrifts
    CompleteIsStored
PROPERTIES
    LoginReturns
CHECK_DEADLOCK FALSE
