SPECIFICATION SystemSpec
CONSTANTS
    PciNodes = {1, 2, 3, 4, 5, 6, 7, 8, 9}
    Pcis <- Addresses
    StagedPcis <- OneAddress
    Numas = {0}
    Evidences = {"REAL"}
    ParentsOf <- AnyParents
    kMaxNodes = 8
    kMaxEdges = 12
    MaxDevices = 4
    MaxStagedEdges = 1
INVARIANT TopologyTypeOK
INVARIANT AncestorsAreOwn
INVARIANT BuiltOnlyWithoutCycles
INVARIANT SharedSwitchSharesRoot
INVARIANT SwitchesFollowBuses
PROPERTY BuildReturns
CHECK_DEADLOCK FALSE
