SPECIFICATION FairSpec
CONSTANTS
    a1 = a1 a2 = a2 b1 = b1 c1 = c1 w1 = w1 w2 = w2
    Jobs <- TwoKeys
    Scope <- ScopeTwo
    Limit <- LimitTwo
    NoScope <- NoKey
    Workers <- TwoWorkers
    Capacity = 2
    SlowScopes = {"a"}
PROPERTIES OthersProceed
