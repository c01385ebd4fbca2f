\* Eight files of one to six rows; a dataset of each list may be deleted. Parameters
\* that are not whole are in tenths.
SPECIFICATION Spec
CONSTANTS
    Null = Null
    Junk = Junk
    Pending = Pending
    Failed = Failed
    Day = 10
    MaxBars = 5
    Trimmed <- MCTrimmed
    Quoted <- MCQuoted
    Datasets <- MCDatasets
    Lists <- MCLists
    Doomed = {"daily", "flawed", "notes", "both"}
    Columns <- MCColumns
    Tables <- MCTables
    Days = {2, 4}
    Defaults <- MCDefaults
    Values <- MCValues
    Unit = 10
INVARIANTS
    BarsAreSound
    RunIsAsReviewed
    GatesAgree
CHECK_DEADLOCK FALSE
