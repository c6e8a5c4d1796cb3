SPECIFICATION FairSpec
CONSTANTS
    Workers = {w1}
    w1 = w1
    Types = {k1}
    ClaimIds = {c1}
    TransferIds = {t1, t2}
    EscalationIds = {e1, e2}
    Monitors = {}
    Forcers = {f1}
    Admins = {a1}
    Submitters = {}
    Escalators = {x1}
    MaxDays <- Basic
    TicksPerDay = 1
    Window = 0
    Start = 0
    MaxTime = 0
    CanCrash = TRUE
    NoClaim = NoClaim
    NoTransfer = NoTransfer
    NoEscalation = NoEscalation
    NoRow = NoRow
    NoScan = NoScan
    NoReview = NoReview
    NoWorker = NoWorker
INVARIANT TypeOK
INVARIANT PaidOnce
INVARIANT SettledIsBacked
 
PROPERTY SettledIsPaid
PROPERTY ImplementsSettlement
CHECK_DEADLOCK FALSE
