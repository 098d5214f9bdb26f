\* Two --once runs over three jobs, two to a batch; one process dies.
CONSTANTS
    Null = Null
    c1 = c1
    c2 = c2
    c3 = c3
    d1 = d1
    d2 = d2
    d3 = d3
    w1 = w1
    w2 = w2
    Unparseable = Unparseable
    NoIdentity = NoIdentity
    Conversations = {c1, c2, c3}
    Documents = {d1, d2, d3}
    KeyOf <- MCKeyOf
    Jsonb <- MCJsonb
    ClaimBatch = 2
    LeaseSeconds = 1
    Workers = {w1, w2}
    OnceWorkers = {w1, w2}
    MaxDelivery = 2
    Verdict <- MCVerdict
    Lethal = {}
    Ingesters = {}
    FileNames = {}
    Directories <- NoDirectories
    Unstorable = {}
    MaxIngests = 0
    VanishingBlobs = {}
    MaxFaults = 1
SPECIFICATION DrainSpec
INVARIANTS
    EveryJobExactlyOnce
PROPERTIES
    DrainEnds
    ClaimIsAtomic
\* the --once runs return
CHECK_DEADLOCK FALSE
