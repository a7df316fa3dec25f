SPECIFICATION Spec
CONSTANTS
    MaxRows = 0
    NumCols = 0
    MaxRowArray = 1
    Pointers = {}
    Params = {1, 2}
    MaxData = 1
    Shapes <- MCShapes
    ParamSetSizes = {1, 2}
INVARIANTS
    ParametersAreComplete
