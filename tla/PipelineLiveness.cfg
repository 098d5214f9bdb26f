\* Scoring d1 kills every worker that tries; one more process dies.
CONSTANTS
    Null = Null
    c1 = c1
    c2 = c2
    d1 = d1
    d1r = d1r
    d2 = d2
    d2b = d2b
    w1 = w1
    w2 = w2
    i1 = i1
    f1 = f1
    f2 = f2
    Unparseable = Unparseable
    NoIdentity = NoIdentity
    Conversations = {c1, c2}
    Documents = {d1, d2}
    KeyOf <- MCKeyOf
    Jsonb <- Unchanged
    ClaimBatch = 2
    LeaseSeconds = 1
    Workers = {w1, w2}
    OnceWorkers = {}
    MaxDelivery = 1
    Verdict <- AllScored
    Lethal = {d1}
    Ingesters = {i1}
    FileNames = {f1, f2}
    Directories <- OneVersion
    Unstorable = {}
    MaxIngests = 1
    VanishingBlobs = {}
    MaxFaults = 1
SPECIFICATION FairSpec
PROPERTIES
    EveryJobCloses
