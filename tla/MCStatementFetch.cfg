SPECIFICATION FairSpec
CONSTANTS
    MaxRows = 2
    NumCols = 1
    MaxRowArray = 2
    Pointers = {TRUE, FALSE}
    Params = {}
    MaxData = 0
    Shapes = {}
    ParamSetSizes = {}
INVARIANTS
    TypeOK
    RowFollowsIterator
    RowsetConsecutive
    FetchReportAgrees
    FailuresAreClean
PROPERTIES
    ForwardOnly
    FetchingEnds
