CONSTANTS
    r1 = r1
    r2 = r2
    m1 = m1
    m2 = m2
    c1 = c1
    c2 = c2
    Requests <- MCRequests
    Mutations <- MCMutations
    Contents <- MCContents
    None = None
    InitialConfigs <- MCInitialConfigs
    MaxReloads = 1
    MaxLives = 2
SPECIFICATION Spec
INVARIANT RuntimesServeTheirReaders
PROPERTY MutationsAreTransactions
PROPERTY QueueDrains
CHECK_DEADLOCK FALSE
