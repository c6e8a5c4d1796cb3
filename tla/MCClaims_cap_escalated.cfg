SPECIFICATION Spec
CONSTANTS
    Workers = {w1}
    w1 = w1
    Types = {k1}
    ClaimIds = {c1, c2, c3}
    TransferIds = {t1, t2, t3}
    EscalationIds = {e1, e2}
    Monitors = {m1}
    Forcers = {}
    Admins = {}
    Submitters = {}
    Escalators = {x1}
    MaxDays <- Basic
    TicksPerDay = 1
    Window = 0
    Start = 0
    MaxTime = 2
    CanCrash = FALSE
    NoClaim = NoClaim
    NoTransfer = NoTransfer
    NoEscalation = NoEscalation
    NoRow = NoRow
    NoScan = NoScan
    NoReview = NoReview
    NoWorker = NoWorker
SYMMETRY Symmetry
INVARIANT CapRespected
CHECK_DEADLOCK FALSE
