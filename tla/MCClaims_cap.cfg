SPECIFICATION Spec
CONSTANTS
    Workers = {w1}
    w1 = w1
    Types = {k1}
    ClaimIds = {c1, c2, c3}
    TransferIds = {t1, t2, t3}
    EscalationIds = {}
    Monitors = {m1}
    Forcers = {}
    Admins = {a1}
    Submitters = {s1}
    Escalators = {}
    MaxDays <- Basic
    TicksPerDay = 1
    Window = 0
    Start = 4
    MaxTime = 6
    CanCrash = FALSE
    NoClaim = NoClaim
    NoTransfer = NoTransfer
    NoEscalation = NoEscalation
    NoRow = NoRow
    NoScan = NoScan
    NoReview = NoReview
    NoWorker = NoWorker
SYMMETRY Symmetry
 
INVARIANT AutoClaimsSpaced
CHECK_DEADLOCK FALSE
