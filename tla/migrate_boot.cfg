CONSTANTS
  Server = {s1, s2, s3}
  Latest = 2
  MaxStops = 2
SPECIFICATION FairSpec
INVARIANTS TypeOK SchemaRecorded ServesMigrated
PROPERTIES AllServe
CHECK_DEADLOCK FALSE
