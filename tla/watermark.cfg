CONSTANTS
    Configs <- MCConfigs
    RowKinds <- MCRowKinds
    FirstMarks = {0, 4}
    MaxMark = 5
    MaxRows = 3
    PageSize = 2
    HintPages = 2
    MaxFaults = 1
SPECIFICATION Spec
PROPERTIES
    NothingPassedOver
    
    CatchesUp
