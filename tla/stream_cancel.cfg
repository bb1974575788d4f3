SPECIFICATION Spec
CONSTANTS
    t1 = t1 w1 = w1 w2 = w2
    Tasks <- OneTask
    Workers <- TwoWorkers
    upstreamDuplicateGuardAttempts = 3
    MaxPublications = 1
    FaultKinds = {}
    MaxFaults = 0
PROPERTIES CancelStopsRun
CHECK_DEADLOCK FALSE
