\* c2 changes between two ingests, loses its blob, and processes die.
CONSTANTS
    Null = Null
    c1 = c1
    c2 = c2
    d1 = d1
    d1r = d1r
    d2 = d2
    d2b = d2b
    w1 = w1
    w2 = w2
    i1 = i1
    f1 = f1
    f2 = f2
    Unparseable = Unparseable
    NoIdentity = NoIdentity
    Conversations = {c1, c2}
    Documents = {d1, d1r, d2, d2b}
    KeyOf <- MCKeyOf
    Jsonb <- RendersD1
    ClaimBatch = 2
    LeaseSeconds = 1
    Workers = {w1, w2}
    OnceWorkers = {}
    MaxDelivery = 2
    Verdict <- EachOne
    Lethal = {}
    Ingesters = {i1}
    FileNames = {f1, f2}
    Directories <- TwoVersions
    Unstorable = {}
    MaxIngests = 2
    VanishingBlobs = {c2}
    MaxFaults = 1
SPECIFICATION Spec
SYMMETRY WorkerSymmetry
INVARIANTS
    TypeOK
    ClosedJobHasResult
    DeadIsRejected
    NoDoubleDelivery
    UnchangedJobIsForItsContent
    BlobBeforeJob
PROPERTIES
    KeepsTheLedger
    ResultsStand
