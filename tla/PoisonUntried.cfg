\* One worker, two jobs in a batch, max_delivery as in production.
CONSTANTS
    Null = Null
    c1 = c1
    c2 = c2
    d1 = d1
    d2 = d2
    w1 = w1
    i1 = i1
    f1 = f1
    f2 = f2
    Unparseable = Unparseable
    NoIdentity = NoIdentity
    Conversations = {c1, c2}
    Documents = {d1, d2}
    KeyOf <- MCKeyOf
    Jsonb <- MCJsonb
    ClaimBatch = 2
    LeaseSeconds = 1
    Workers = {w1}
    OnceWorkers = {}
    MaxDelivery = 3
    Verdict <- MCVerdict
    Lethal = {d1}
    Ingesters = {i1}
    FileNames = {f1, f2}
    Directories <- BothFiles
    Unstorable = {}
    MaxIngests = 1
    VanishingBlobs = {}
    MaxFaults = 0
SPECIFICATION TriedSpec
INVARIANTS
    PoisonWasTried
