\* Contents change, and a batch may take less than all that is claimable.
CONSTANTS
    Null = Null
    c1 = c1
    c2 = c2
    c3 = c3
    d1 = d1
    d1b = d1b
    d2 = d2
    d3 = d3
    Conversations = {c1, c2, c3}
    Documents = {d1, d1b, d2, d3}
    KeyOf <- MCKeyOf
    Jsonb <- MCJsonb
    ClaimBatch = 2
    LeaseSeconds = 1
    MaxEnqueues = 5
    MaxDeliveries = 2
SPECIFICATION FakeSpec
INVARIANTS
    FakeTypeOK
PROPERTIES
    BehavesLikePg
