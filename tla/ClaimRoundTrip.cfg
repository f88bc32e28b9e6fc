SPECIFICATION Spec
CONSTANTS
    ByteBase = 4
    kMaxNics = 2
    kMaxGpus = 2
    kMaxHistory = 2
    kMaxSources = 2
    kFormatVersion = 1
    MaxEpoch = 3
    States <- PersistentStates
    Nothing = Nothing
INVARIANT IdentityRoundTrips
