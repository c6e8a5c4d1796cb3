SPECIFICATION Spec
CONSTANTS
    Focuses = {"scoring"}
    x1 = x1  x2 = x2  v1 = v1  v2 = v2  z1 = z1  z2 = z2
    Plans = {z1, z2}
    PolRequests = {x1, x2, r3}
    OrderKeys = {k1}
    FirstWeek = 3
    LastWeek = 4
    PastStreaks = {0, 3}
    Modes = {"client", "billing"}
    NoPlan = NoPlan
    NoRow = NoRow
    Codes = {z1, z2}
    Senders = {x1, x2}
    Verifiers = {v1, v2}
    MaxAttempts = 2
    Cooldown = 1
    Ttl = 1
    OtpMaxTime = 2
    MaxTries = 4
    NoCode = NoCode
    WrongCode = WrongCode
    UpiIds = {dflt, z1, z2, bad}
    WellFormed = {dflt, z1, z2}
    DefaultUpi = dflt
    AccountVerifiers = {x1, x2}
    NoUpi = NoUpi
    NoCheck = NoCheck
    ReportIds = {1, 2, 3}
    ReportWorkers = {x1, x2}
    bandh = bandh
    rain = rain
    Tokens = {bandh, rain}
    CategoryOf <- Cat
    TicksOfDay = 2
    ReportWindow = 1
    ReportMaxTime = 1
    NoCategory = NoCategory
    NoReport = NoReport
    Kinds <- Order
    WindowPolls <- Polls
    Slack = 1
    OpenAt <- Hours
    Risks = {}
    ForcedTypes = {"zonelock"}
    MaxTick = 3
    MaxRestarts = 1
    NoState = NoState
    Uploads = {x1, x2}
    Places = {0, 6000}
    Lags = {0, 2}
    Telemetry <- Metadata
    PastTrails <- Trails
    TrailLength = 4
    Retention = 1
    SignalStart = 4
    SignalEnd = 5
    NoPlace = NoPlace
    NoTower = NoTower
    NoMotion = NoMotion
    NoSignal = NoSignal
    Filers = {f1}
    RawScores <- Scores
    Affinities = {30, 50}
    TriggerConfidences = {55, 90}
    Threshold <- Level
    Margin = 700
    ConfidenceMin = 35
    ConfidenceMax = 75
    Engines = {"disabled", "missing"}
    FailOpen = {TRUE, FALSE}
    g1 = g1  g2 = g2  g3 = g3
    Members = {x1, x2, z1, z2}
    Groups = {g1, g2, g3}
    BucketOf <- Bucket
    RunIds = {n1}
    MinSupport = 1
    MinMembers = 3
    Lookback = 1
    Medium = 50
    High = 75
    LastHalfLife = 1
INVARIANT SignalsAdviseOnly
CHECK_DEADLOCK FALSE
