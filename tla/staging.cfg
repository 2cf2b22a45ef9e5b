SPECIFICATION Spec
CONSTANTS
  Bundles = {b1, b2}
  MaxRecords = 2
  MaxAttempts = 2
  Storages = {"local", "gcs"}
  SharedURI = FALSE
SYMMETRY Symmetry
INVARIANTS TypeOK NoPartialFile AckedPublished NoOrphanTemp
