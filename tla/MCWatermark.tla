---------------------------- MODULE MCWatermark ----------------------------
EXTENDS Watermark

MCConfigs ==
    [mode : {"column"}, layout : {"file", "slash", "dir"}, fresh : BOOLEAN,
     dlqFile : {FALSE}, rules : {FALSE}, pages : {"none"}, initial : {0}, gran : {1}]
    \cup
    [mode : {"column"}, layout : {"slash"}, fresh : {TRUE},
     dlqFile : {FALSE}, rules : {FALSE}, pages : {"none"}, initial : {0}, gran : {3}]
    \cup
    [mode : {"offset"}, layout : {"file", "slash", "dir"}, fresh : BOOLEAN,
     dlqFile : BOOLEAN, rules : {FALSE}, pages : {"hint", "probe", "none"}, initial : {0}, gran : {1}]
    \cup
    [mode : {"offset"}, layout : {"file"}, fresh : {TRUE},
     dlqFile : BOOLEAN, rules : {TRUE}, pages : {"none"}, initial : {0}, gran : {1}]
    \cup
    [mode : {"offset"}, layout : {"file"}, fresh : {TRUE},
     dlqFile : {TRUE}, rules : {FALSE}, pages : {"hint", "probe"}, initial : {1}, gran : {1}]
MCRowKinds(mode) ==
    IF mode = "column" THEN [ok : {TRUE}, w : {0, 5}, lane : {1}, nulls : {0}]
                            \cup [ok : {TRUE}, w : {3}, lane : {2}, nulls : {0}]
                            \cup [ok : {FALSE}, w : {5}, lane : {2}, nulls : {0}]
    ELSE [ok : {TRUE}, w : {0}, lane : {1}, nulls : {0, 1}]
         \cup [ok : {FALSE}, w : {0}, lane : {1}, nulls : {0}]
============================================================================
