SPECIFICATION Spec
CONSTANTS
    Emails = {ann, bob}
    Watched <- FewKeys
    Faults = {"network", "expiry", "disabling"}
    MaxSignIns = 2
    MaxEdits = 1
    MaxFaults = 1
    MaxLoads = 1
    MaxEvents = 3
SYMMETRY Sym
CHECK_DEADLOCK FALSE
INVARIANTS
    OneAccountPerEmail
    PageHasItsSession
    SettledPageIsCurrent
