SPECIFICATION DiagSpec
CONSTANTS
    Handles = {"DBC", "STMT"}
    MaxRecords = 2
    Sizes = {1, 3}
    MaxSmall = 3
INVARIANTS
    ErrorsInOrder
    NoDataMeansAllGiven
    TruncationIsToldAlways
