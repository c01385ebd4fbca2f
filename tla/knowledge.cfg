\* Two documents and two clients, with every fault.  The system may come to rest.
SPECIFICATION FairKnowledge
CONSTANTS
    Docs = {d1, d2}
    Clients = {c1, c2}
    Faults = {"database", "crash", "residue"}
CHECK_DEADLOCK FALSE
INVARIANTS
    AcceptedIsKept
    RefusedLeavesNothing
PROPERTIES
    AcceptedIsFound
    ImplementsCatalogue
