SPECIFICATION Spec
CONSTRAINT Unpaused
CONSTANTS
    t1 = t1 w1 = w1 w2 = w2
    Tasks <- OneTask
    Workers <- TwoWorkers
    upstreamDuplicateGuardAttempts = 2
    MaxPublications = 2
    FaultKinds = {"crash", "redisloss", "redisfail", "dbfail"}
    MaxFaults = 2
SYMMETRY Symmetry
INVARIANTS NotLost OneRun
PROPERTIES Lifecycle
CHECK_DEADLOCK FALSE
