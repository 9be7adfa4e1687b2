SPECIFICATION FairSpec
CONSTANTS
    e1 = e1
    e2 = e2
    plain = plain
    pinned = pinned
    Endpoint = {e1, e2}
    Tier <- TierOf
    Client = {plain, pinned}
    Session = {pinned}
    Scenes <- SceneSet
    Height = {0, 1}
    Span = {1}
    RetryAfter = {0}
    FailuresToOpen = 2
    MaxCooldown = 1
    MaxOpens = 0
    HedgeWave = 2
    Quorum = 3
    Fanout = 2
    None = None
CHECK_DEADLOCK FALSE
INVARIANTS
    ProbeIsAlive
    HeightIsVouched
PROPERTIES
    AnswersAreNotLost
    RequestsEnd
    EndpointsReturn
