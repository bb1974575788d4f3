CONSTANTS
    u1 = u1  t1 = t1  t2 = t2  t3 = t3
    Users <- One
    Tasks <- Three
    Owner <- MCOwner
    Mode <- MCMode
    Price <- MCPrice
    Units <- MCUnits
    InitialCredits <- MCCredits
    Deltas <- NoDeltas
    MaxCredits = 3
    PlanQuota = 1
    AdjustTo = {0}
    MaxPeriods = 1
    MaxResets = 1
    FaultKinds = {"acklost"}
    MaxFaults = 1
SPECIFICATION Spec
ACTION_CONSTRAINT MoneyOrQuota
SYMMETRY Symmetry
INVARIANTS TypeOK ReservationCovers ReservationExact Solvent QuotaWithinGrants QuotaReturned
PROPERTY Lifecycle
CHECK_DEADLOCK FALSE
