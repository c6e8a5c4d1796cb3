SPECIFICATION Spec
CONSTANTS
    Workers = {w1}
    w1 = w1
    Types = {k1}
    ClaimIds = {c1, c2}
    TransferIds = {t1, t2}
    EscalationIds = {}
    Monitors = {m1}
    Forcers = {}
    Admins = {a1}
    Submitters = {}
    Escalators = {}
    MaxDays <- Basic
    TicksPerDay = 1
    Window = 0
    Start = 0
    MaxTime = 1
    CanCrash = FALSE
    NoClaim = NoClaim
    NoTransfer = NoTransfer
    NoEscalation = NoEscalation
    NoRow = NoRow
    NoScan = NoScan
    NoReview = NoReview
    NoWorker = NoWorker
SYMMETRY Symmetry
PROPERTY CapAllowsItsDays
CHECK_DEADLOCK FALSE
