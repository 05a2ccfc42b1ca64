SPECIFICATION Spec
CONSTANTS
    a1 = a1
    a2 = a2
    p = p
    x = x
    None = None
    MissingId = x
    ActionIds = {a1, a2}
    Params = {p}
    Workflow <- MCWorkflow
    Bodies <- MCBodies
INVARIANTS
    TypeOK
    UnappliedRunsReadOnly
    NoPlaceholderLeft
    RecordIsTrue
