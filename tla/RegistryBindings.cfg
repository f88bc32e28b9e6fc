SPECIFICATION Spec
CONSTANTS
    None = None
    w1 = w1
    b1 = b1
    n1 = n1
    f1 = f1
    p1 = p1
    q1 = q1
    a1 = a1
    r1 = r1
    c1 = c1
    Workers = {w1}
    Boots = {b1}
    Nics = {n1}
    Functions = {f1}
    Ports = {p1}
    Queues = {q1}
    Gpus = {}
    Attachments = {a1}
    ResidencyIds = {r1}
    Contents = {c1}
    kMaxNics = 2
    kMaxGpus = 2
    kMaxFunctions = 2
    kMaxPorts = 2
    kMaxQueues = 2
    kMaxAttachments = 2
    kMaxResidencies = 1
    GenerationModulus = 16
    MaxGeneration = 1
    MaxTopologyGeneration = 0
    MaxEpoch = 2
    \* No reference depends on a lifecycle: demoted from the start.
    PublishedLifecycles = {"REVALIDATION_REQUIRED"}
    PublishedAttachmentStates = {"COMMITTED"}
    PublishedResidencyStates = {"RESIDENT"}
INVARIANT CheckedReferencesResolve
