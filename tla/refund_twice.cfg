CONSTANTS
    u1 = u1  t1 = t1  t2 = t2  t3 = t3
    Users <- One
    Tasks <- Two
    Owner <- MCOwner
    Mode <- SubMode
    Price <- MCPrice
    Units <- MCUnits
    InitialCredits <- MCCredits
    Deltas <- NoDeltas
    MaxCredits = 3
    PlanQuota = 1
    AdjustTo = {}
    MaxPeriods = 2
    MaxResets = 0
    FaultKinds = {}
    MaxFaults = 0
SPECIFICATION Spec
INVARIANT QuotaWithinGrants
CHECK_DEADLOCK FALSE
