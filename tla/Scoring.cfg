\* Every sample conversation; up to three turns of all kinds, or four customer
\* turns of every score; each under nineteen environments.
CONSTANTS
    Texts = {"good", "bad", "flat", "weak", "unsure", "long", "emoji", "punctuation", "blank"}
    Words = {"good", "bad", "flat", "weak", "unsure", "long"}
    Emoji = {"emoji"}
    Tokens <- MCTokens
    Start <- MCStart
    Readable <- MCReadable
    Id2Label <- MCId2Label
    Softmax <- MCSoftmax
    RecencyWeight <- MCRecencyWeight
    ValueError = ValueError
    None = None
    Given <- MCGiven
    Environments <- MCEnvironments
    MaxMixed = 3
    MaxTurns = 4
SPECIFICATION ScoringSpec
INVARIANTS
    StatusFollowsTheTurns
    FixturesComeOutAsDocumented
    OnlyTheUnhashableEndsIt
    OnlyCustomersCount
    EveryTurnIsInItsPlace
    ParamsExplainTheNumbers
    NoneIsNotZero
    OverallIsBetweenExtremes
    TrajectoryHasTheRightDirection
\* a behaviour scores one conversation
CHECK_DEADLOCK FALSE
