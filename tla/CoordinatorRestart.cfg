SPECIFICATION CoordinatorSpec
CONSTANTS
    None = None
    w1 = w1
    w2 = w2
    b1 = b1
    b2 = b2
    n1 = n1
    r1 = r1
    c1 = c1
    Workers = {w1, w2}
    Boots = {b1, b2}
    Nics = {n1}
    Functions = {}
    Ports = {}
    Queues = {}
    Gpus = {}
    Attachments = {}
    ResidencyIds = {r1}
    Contents = {c1}
    kMaxNics = 2
    kMaxGpus = 2
    kMaxFunctions = 2
    kMaxPorts = 2
    kMaxQueues = 2
    kMaxAttachments = 2
    kMaxResidencies = 2
    GenerationModulus = 16
    MaxGeneration = 2
    MaxTopologyGeneration = 0
    MaxEpoch = 3
    PublishedLifecycles = {"AVAILABLE"}
    PublishedAttachmentStates = {"COMMITTED"}
    PublishedResidencyStates = {"RESIDENT"}
    TheNic = n1
    TheResidency = r1
    TheContent = c1
    FrameEpochs = {0, 1, 2}
    Torn = Torn
    Error = Error
INVARIANT CoordinatorTypeOK
INVARIANT SavedStateIsWhole
INVARIANT ServesWhatItPersisted
INVARIANT OldBootIsFenced
INVARIANT AuthorityOnlyFromNewIncarnation
PROPERTY LaunchSettles
PROPERTY ImplementsAtomicStore
