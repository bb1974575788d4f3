SPECIFICATION FairSpec
CONSTANTS
    t1 = t1 w1 = w1 w2 = w2
    Tasks <- OneTask
    Workers <- OneWorker
    upstreamDuplicateGuardAttempts = 2
    MaxPublications = 3
    FaultKinds = {"crash", "redisloss", "redisfail", "dbfail"}
    MaxFaults = 1
PROPERTIES EveryTaskEnds EverythingRemoved
CHECK_DEADLOCK FALSE
