SPECIFICATION Spec
CONSTANTS
    None = None
    Procs = {p1}
    Accounts = {a, b}
    Secrets = {s1}
    Settings = {x}
    Ops = {"logout"}
    Faults = {"write"}
    Headless = {}
INVARIANTS
    NoDanglingRef
