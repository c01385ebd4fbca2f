\* No faults: two requests race each other and the uploads of two datasets.
SPECIFICATION Spec
CONSTANTS
    Datasets = {d1, d2}
    Clients = {c1, c2}
    NoDataset = none
    Faults <- NoFaults
INVARIANTS
    ReadyHasObject
    OrphanOnlyByRace
    TempOutlivesRefusalOnly
PROPERTY
    StatusOrder
\* The server really may stop: every upload is over, and nobody asks for more.
CHECK_DEADLOCK FALSE
