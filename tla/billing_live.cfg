CONSTANTS
    u1 = u1  t1 = t1  t2 = t2  t3 = t3
    Users <- One
    Tasks <- Both
    Owner <- MCOwner
    Mode <- MCMode
    Price <- MCPrice
    Units <- MCUnits
    InitialCredits <- MCCredits
    Deltas <- NoDeltas
    MaxCredits = 3
    PlanQuota = 0
    AdjustTo = {}
    MaxPeriods = 0
    MaxResets = 0
    FaultKinds = {"crash"}
    MaxFaults = 1
SPECIFICATION FairSpec
PROPERTIES EveryTaskEnds ReservationsFreed
CHECK_DEADLOCK FALSE
