SPECIFICATION Spec
CONSTANTS
    Null = Null
    Junk = Junk
    Datasets <- MCDatasets
    Types <- MCTypes
    Tables <- MCTables
    Forms <- MCForms
    MaxLimit = 4
    MaxOffset = 4
    Most <- MCMost
    MaxNodes = 3
    MaxFormula = 16
    Spelling <- MCSpelling
    TooLong <- MCTooLong
    MaxDeletions = 1
    MaxPageSize = 4
    MinBuckets = 5
    MaxCorrelated = 2
INVARIANTS
    AnswerIsRight
    TotalIsRight
    AnalysisIsRight
    FormulaIsRead
    AcceptedIsServed
CHECK_DEADLOCK FALSE
