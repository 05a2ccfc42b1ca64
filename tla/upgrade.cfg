SPECIFICATION FairSpec
CONSTANTS
    Versions <- MCVersions
    Deployments = {"default", "embedded-mongo", "user-mongo"}
    Tables <- MCTables
    IssueFiles <- MCFiles
INVARIANTS
    RouteIsSupported
    RouteIsShortest
PROPERTIES
    SearchEnds
CHECK_DEADLOCK FALSE
