SPECIFICATION FairSpec

CONSTANTS
    Orders = {o1}
    Keys = {k1}
    Requests <- OneRequest
    EventIds = {e1, e2}
    Payments = {p1}
    Creators = {c1}
    Handlers = {h1, h2}
    Readers = {r1}
    Lifetime = 1
    MaxTime = 1
    NoOrder = NoOrder
    NoInfo = NoInfo
    NoEvent = NoEvent
    NoKey = NoKey
    NoRequest = NoRequest
    w1 = w1
    basic = basic
    premium = premium

PROPERTIES
    WebhooksFinish
    PaidIsCovered
    RefundEndsCoverage
