SPECIFICATION Spec
CONSTANTS
    None = None
    w1 = w1
    b1 = b1
    n1 = n1
    g1 = g1
    f1 = f1
    q1 = q1
    f2 = f2
    c1 = c1
    c2 = c2
    Workers = {w1}
    Boots = {b1}
    Nics = {n1}
    Functions = {f1, f2}
    Ports = {}
    Queues = {q1}
    Gpus = {g1}
    Attachments = {}
    ResidencyIds = {}
    Contents = {c1, c2}
    kMaxNics = 3
    kMaxGpus = 3
    kMaxFunctions = 3
    kMaxPorts = 3
    kMaxQueues = 3
    kMaxAttachments = 3
    kMaxResidencies = 3
    GenerationModulus = 3
    MaxGeneration = 2
    MaxTopologyGeneration = 1
    MaxEpoch = 1
    PublishedLifecycles = {"AVAILABLE"}
    PublishedAttachmentStates = {"COMMITTED"}
    PublishedResidencyStates = {"RESIDENT"}
PROPERTY NothingGoesBack
PROPERTY NewEvidenceNeedsNewGeneration
SYMMETRY TableSymmetry
