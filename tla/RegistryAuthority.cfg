SPECIFICATION Spec
CONSTANTS
    None = None
    w1 = w1
    w2 = w2
    b1 = b1
    b2 = b2
    n1 = n1
    n2 = n2
    c1 = c1
    Workers = {w1, w2}
    Boots = {b1, b2}
    Nics = {n1, n2}
    Functions = {}
    Ports = {}
    Queues = {}
    Gpus = {}
    Attachments = {}
    ResidencyIds = {}
    Contents = {c1}
    kMaxNics = 3
    kMaxGpus = 3
    kMaxFunctions = 3
    kMaxPorts = 3
    kMaxQueues = 3
    kMaxAttachments = 3
    kMaxResidencies = 3
    GenerationModulus = 16
    MaxGeneration = 2
    MaxTopologyGeneration = 0
    MaxEpoch = 2
    PublishedLifecycles = {"AVAILABLE", "REVALIDATION_REQUIRED"}
    PublishedAttachmentStates = {"COMMITTED"}
    PublishedResidencyStates = {"RESIDENT"}
SYMMETRY AuthoritySymmetry
INVARIANT LiveEvidence
PROPERTY ImplementsAuthority
