CONSTANTS
    Bits = 12
    FloatUnit = 100
    MaxWhole = 1024
    MaxUnits = 512
    ExpFrom = 1000
    ExpBelow = 2
    Saturates = FALSE
    MaxRecordFields = 2
    MaxBytes = 4
    Cases <- MCCases
    SoftNotNull = {"a"}
    Workers = {w1, w2}
    MaxAttempts = 2
SPECIFICATION FlowSpec
INVARIANTS
    
    
    CodersTransparent
    MetricsExact
