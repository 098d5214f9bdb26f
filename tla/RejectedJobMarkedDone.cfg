\* A rejected job is delivered twice.
CONSTANTS
    Null = Null
    c1 = c1
    c2 = c2
    d1 = d1
    d1r = d1r
    d2 = d2
    d2b = d2b
    w1 = w1
    w2 = w2
    i1 = i1
    f1 = f1
    f2 = f2
    Unparseable = Unparseable
    NoIdentity = NoIdentity
    Conversations = {c2}
    Documents = {d2}
    KeyOf <- MCKeyOf
    Jsonb <- Unchanged
    ClaimBatch = 1
    LeaseSeconds = 1
    Workers = {w1, w2}
    OnceWorkers = {}
    MaxDelivery = 1
    Verdict <- RejectsD2
    Lethal = {}
    Ingesters = {i1}
    FileNames = {f2}
    Directories <- OneConversation
    Unstorable = {}
    MaxIngests = 1
    VanishingBlobs = {}
    MaxFaults = 0
SPECIFICATION Spec
SYMMETRY WorkerSymmetry
INVARIANTS
    DoneIsNotRejected
