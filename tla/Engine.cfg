SPECIFICATION EngineSpec
CONSTANTS
    None = None
    NoTopology = NoTopology
    Unavailable = Unavailable
    w1 = w1
    w2 = w2
    b1 = b1
    b2 = b2
    Workers = {w1, w2}
    Boots = {b1, b2}
    Nics <- TheNics
    Functions <- TheFunctions
    Ports <- TheFunctions
    Queues <- TheFunctions
    Gpus <- TheGpus
    Attachments = {}
    ResidencyIds = {}
    Contents <- TheContents
    kMaxNics = 4
    kMaxGpus = 3
    kMaxFunctions = 3
    kMaxPorts = 2
    kMaxQueues = 3
    kMaxAttachments = 2
    kMaxResidencies = 2
    GenerationModulus = 16
    MaxGeneration = 2
    MaxTopologyGeneration = 1
    MaxEpoch = 2
    PublishedLifecycles = {"AVAILABLE"}
    PublishedAttachmentStates = {"COMMITTED"}
    PublishedResidencyStates = {"RESIDENT"}
    VfCount = 2
    DenseCount = 3
    MaxNics = 2
    MaxGpus = 2
    MaxFreshness = 100
    Plans <- ThePlans
    Sites <- TheSites
INVARIANT IngestLeavesPrefix
INVARIANT IngestOrderIsClosed
PROPERTY SelectsLiveEvidence
PROPERTY AllowanceIsNotRetracted
