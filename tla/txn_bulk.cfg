SPECIFICATION Spec
CONSTANTS
    None = None
    Procs = {p1}
    Accounts = {a, b}
    Secrets = {s1, s2}
    Settings = {x}
    Ops = {"resave", "login", "logout"}
    Faults = {"crash", "keyring", "conflict"}
    Headless = {}
SYMMETRY Symmetry
INVARIANTS
    NoDanglingRef
PROPERTIES
    ImplementsAtomicSave
