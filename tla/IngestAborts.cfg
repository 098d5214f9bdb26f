\* A document Postgres cannot store is among the files.
CONSTANTS
    Null = Null
    c1 = c1
    c2 = c2
    d1 = d1
    d1b = d1b
    d2 = d2
    dx = dx
    i1 = i1
    i2 = i2
    fa = fa
    fb = fb
    fc = fc
    Unparseable = Unparseable
    NoIdentity = NoIdentity
    Conversations = {c1, c2}
    Documents = {d1, d1b, d2, dx}
    KeyOf <- MCKeyOf
    Jsonb <- MCJsonb
    ClaimBatch = 2
    LeaseSeconds = 1
    Ingesters = {i1}
    FileNames = {fa, fb, fc}
    Directories <- OneDelivery
    Unstorable = {d1}
    MaxIngests = 1
SPECIFICATION IngestSpec
INVARIANTS
    EndedIngestAccountsForTheRest
CHECK_DEADLOCK FALSE
