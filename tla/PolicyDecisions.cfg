SPECIFICATION Spec
CONSTANTS
    NicIds = {1, 2}
    NicChoices <- AllNics
    GpuChoices <- Gpus
    TopologyChoices <- Topologies
    PolicyChoices <- Policies
    TargetNumas = {0, 1}
    NoGpu = NoGpu
    NoTopology = NoTopology
    MaxFreshness = 100
INVARIANT SelectsExactlyWhenPossible
INVARIANT DominatedNeverSelected
INVARIANT UnknownNeverAllowed
INVARIANT RevalidationIsReported
CHECK_DEADLOCK FALSE
