SPECIFICATION Spec
CONSTANTS
    None = None
    w1 = w1
    w2 = w2
    b1 = b1
    b2 = b2
    n1 = n1
    a1 = a1
    r1 = r1
    c1 = c1
    Workers = {w1, w2}
    Boots = {b1, b2}
    Nics = {n1}
    Functions = {}
    Ports = {}
    Queues = {}
    Gpus = {}
    Attachments = {a1}
    ResidencyIds = {r1}
    Contents = {c1}
    kMaxNics = 2
    kMaxGpus = 2
    kMaxFunctions = 2
    kMaxPorts = 2
    kMaxQueues = 2
    kMaxAttachments = 2
    kMaxResidencies = 2
    GenerationModulus = 16
    MaxGeneration = 1
    MaxTopologyGeneration = 0
    MaxEpoch = 2
    PublishedLifecycles = {"AVAILABLE"}
    PublishedAttachmentStates = {"COMMITTED"}
    PublishedResidencyStates = {"RESIDENT"}
SYMMETRY AuthoritySymmetry
INVARIANT TypeOK
INVARIANT OwnersAreLive
PROPERTY LostBasisInvalidates
INVARIANT ResidenciesInGenerationOrder
