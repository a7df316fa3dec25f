CONSTANTS
    WCharSize = 2
    NameLengths = {4}
    Nullabilities = {"NULLABLE"}
    NameBuffers <- MCNameBuffers
    Texts = {0, 2, 3}
    TextBuffers <- MCTextBuffers
    RowArraySize = 1
    Requests <- MCRequests
    Versions = {"v1", "v2"}
    Lengths <- MCLengths
    Asked = {"USER_NAME", "DBMS_VER", "ACCESSIBLE_TABLES", "SQL_CONFORMANCE", "TXN_CAPABLE",
             "DTC_TRANSITION_COST"}
    Buffers <- MCBuffers
    MaxRows = 2
    DataTypes = {"BIT", "BOOLEAN", "INTEGER"}

SPECIFICATION MCSpec

INVARIANTS
    OutputsDefined
    InterfaceForwards
    ColumnsAreDescribed
    InfoTellsConnection
    AnswersAgree
    SettingsAreKept
    
    CatalogIsRead
    NumbersAreExact

CHECK_DEADLOCK FALSE
