SPECIFICATION Spec
CONSTANTS
    val1 = val1
    val2 = val2
    isodate = isodate
    doc1 = doc1
    None = None
    Procs = {p1, p2}
    Profiles = {prod}
    Docs = {doc1, doc2}
    PlainIds = {doc1}
    Values = {val1, val2, isodate}
    Json <- MCJson
    Templates <- MCTemplates
    ApprovalNames = {n1, n2}
    RunNames = {r1, r2}
    ExpiryCap = 1
    MaxTime = 2
    InitialData <- MCInitialData
    MaxForeign = 1
SYMMETRY Symmetry
INVARIANTS
    ArtifactIsTrue
PROPERTIES
    WritesWhatWasSeen
    NeverRepeated
CHECK_DEADLOCK FALSE
