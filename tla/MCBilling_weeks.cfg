SPECIFICATION Spec

CONSTANTS
    Orders = {o1, o2}
    Keys = {k1, k2}
    Requests <- TwoWeeks
    EventIds = {e1, e2, e3}
    Payments = {p1, p2}
    Creators = {c1, c2}
    Handlers = {h1, h2}
    Readers = {}
    Lifetime = 1
    MaxTime = 0
    NoOrder = NoOrder
    NoInfo = NoInfo
    NoEvent = NoEvent
    NoKey = NoKey
    NoRequest = NoRequest
    w1 = w1
    basic = basic
    premium = premium

SYMMETRY Symmetry

INVARIANTS
    CoverageUnambiguous
    ReceiptsMatchEffects
    IdempotentAnswers
    CreationNeverCollides

PROPERTIES
    OrderTransitions
