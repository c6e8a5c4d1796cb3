SPECIFICATION Spec

CONSTANTS
    Orders = {o1, o2}
    Keys = {k1, k2}
    Requests <- OneRequest
    EventIds = {e1, e2, e3}
    Payments = {p1, p2}
    Creators = {c1}
    Handlers = {h1, h2}
    Readers = {r1}
    Lifetime = 1
    MaxTime = 1
    NoOrder = NoOrder
    NoInfo = NoInfo
    NoEvent = NoEvent
    NoKey = NoKey
    NoRequest = NoRequest
    w1 = w1
    basic = basic
    premium = premium

SYMMETRY Symmetry

INVARIANTS
    TypeOK
    MoneyBacksCoverage
    StatusAgreesWithCoverage
    ReceiptsMatchEffects
    OutboxMatchesReceipts
    LockedReadIsCurrent

PROPERTIES
    OnlyReceiptedEventsMoveMoney
    ImplementsLedger
