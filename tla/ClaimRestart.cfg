SPECIFICATION Spec
CONSTANTS
    None = None
    w1 = w1
    b1 = b1
    n1 = n1
    c1 = c1
    Workers = {w1}
    Boots = {b1}
    Nics = {n1}
    Functions = {}
    Ports = {}
    Queues = {}
    Gpus = {}
    Attachments = {}
    ResidencyIds = {}
    Contents = {c1}
    kMaxNics = 2
    kMaxGpus = 2
    kMaxFunctions = 2
    kMaxPorts = 2
    kMaxQueues = 2
    kMaxAttachments = 2
    kMaxResidencies = 2
    GenerationModulus = 16
    MaxGeneration = 2
    MaxTopologyGeneration = 0
    MaxEpoch = 2
    PublishedLifecycles = {"AVAILABLE"}
    PublishedAttachmentStates = {"COMMITTED"}
    PublishedResidencyStates = {"RESIDENT"}
INVARIANT RestartDemotesNics
