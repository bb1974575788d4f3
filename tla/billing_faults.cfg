CONSTANTS
    u1 = u1  t1 = t1  t2 = t2  t3 = t3
    Users <- One
    Tasks <- Both
    Owner <- MCOwner
    Mode <- MCMode
    Price <- MCPrice
    Units <- MCUnits
    InitialCredits <- MCCredits
    Deltas <- Clawbacks
    MaxCredits = 3
    PlanQuota = 0
    AdjustTo = {}
    MaxPeriods = 0
    MaxResets = 0
    FaultKinds = {"crash", "dbfail", "acklost"}
    MaxFaults = 2
SPECIFICATION Spec
INVARIANTS ReservationInv ChargedIffDelivered
CHECK_DEADLOCK FALSE
