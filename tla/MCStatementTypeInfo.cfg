SPECIFICATION Spec
CONSTANTS
    MaxRows = 2
    NumCols = 1
    MaxRowArray = 2
    Pointers = {TRUE, FALSE}
    Params = {}
    MaxData = 0
    Shapes = {}
    ParamSetSizes = {}
INVARIANT
    ExecuteSuccessMeansNoError
