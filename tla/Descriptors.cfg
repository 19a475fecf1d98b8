SPECIFICATION TablesSpec
CONSTANTS
    TableLimits = {7, 16, 23, 24}
    Selectors = {0, 8, 16}
    Vectors = {0, 1, 2, 3}
    Bases <- MCBases
    Limits = {2}
    FlagSets <- MCFlagSets
    MaxStores = 2
INVARIANTS ReadsWhatIsStored StaysInTable
CHECK_DEADLOCK FALSE
