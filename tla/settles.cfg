\* Fair scheduling; files and storage may fail: three requests race one upload.
SPECIFICATION FairSpec
CONSTANTS
    Datasets = {d1}
    Clients = {c1, c2, c3}
    NoDataset = none
    Faults <- FileFaults
PROPERTIES
    RequestsSettle
    ImplementsRegistry
\* The server really may stop: the upload is over and its dataset deleted.
CHECK_DEADLOCK FALSE
