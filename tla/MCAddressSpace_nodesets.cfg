SPECIFICATION FairSpec
CONSTANTS
  Table <- NodesetTables
  Calls <- NodesetCalls
  MaxRefusals = 1
  Builds = {TRUE, FALSE}
INVARIANTS
  TypeOK
  LoadsUnlessRefused
  MethodlessNeverLoads
  WholeOrUnavailable
  NothingTwice
  InstancesComplete
  InstancesOfLoadedTypes
  DeviceNamesItsMaker
PROPERTY
  ReachesRun
CHECK_DEADLOCK FALSE
