\* Every fault, crashes and redeployments included.
SPECIFICATION Spec
CONSTANTS
    Datasets = {d1}
    Clients = {c1, c2, c3}
    NoDataset = none
    Faults <- AllFaults
SYMMETRY ClientSymmetry
INVARIANTS
    ReadyIsComplete
    AnswerIsFinal
    ServedHasObject
CHECK_DEADLOCK FALSE
