------------------------------ MODULE Billing ------------------------------
(***************************************************************************)
(* The Spring billing service (billing-service/): payment orders, provider *)
(* webhooks, weekly coverage and the outbox, as concurrent database        *)
(* transactions over the tables of V1__create_billing_schema.sql.          *)
(*                                                                         *)
(* Three kinds of request threads run at once:                             *)
(*   Creators  POST /internal/v1/payment-orders     PaymentOrderService    *)
(*   Handlers  POST /webhooks/v1/payments/{prov}    WebhookProcessing-     *)
(*             Service                                                     *)
(*   Readers   GET  /internal/v1/payment-orders/id  PaymentOrderQuery-     *)
(*             Service                                                     *)
(* A step of a thread is what it does between two points where another     *)
(* transaction can get in: a lock it may wait for, or its commit.  What a  *)
(* thread read earlier it keeps in its own "seen".                         *)
(***************************************************************************)
EXTENDS Integers, FiniteSets

CONSTANTS
    Orders,      \* order ids (random UUIDs)
    Keys,        \* idempotency keys, already trimmed by normalizeKey
    Requests,    \* CreatePaymentOrderCommand: [worker, plan, amount, week]
    EventIds,    \* provider event ids
    Payments,    \* provider payment ids
    Creators, Handlers, Readers,
    Lifetime,    \* ORDER_LIFETIME, in ticks of the clock
    MaxTime,     \* bound: the clock stops here
    NoOrder, NoInfo, NoEvent, NoKey, NoRequest

(***************************************************************************)
(* A week is the day number of its first day; day 0 is a Monday.  The      *)
(* schema and requireMonday both refuse any other first day.               *)
(***************************************************************************)
RequestType == [worker : {r.worker : r \in Requests},
                plan   : {r.plan   : r \in Requests},
                amount : {r.amount : r \in Requests},
                week   : Nat]

ASSUME RequestsAssumption ==
    /\ Requests \subseteq RequestType
    /\ \A r \in Requests : r.week % 7 = 0

ASSUME ClockAssumption == Lifetime \in Nat \ {0} /\ MaxTime \in Nat

Amounts == {r.amount : r \in Requests}

(* V1__create_billing_schema.sql:12-14; ABSENT stands for "no such row".   *)
Statuses == {"ABSENT", "CREATED", "PENDING", "PAID", "FAILED", "EXPIRED",
             "REFUNDED"}

OrderInfo == [key : Keys, request : Requests, expiresAt : Nat]

Event == [order : Orders, payment : Payments, amount : Amounts,
          status : {"PAID", "FAILED", "REFUNDED"}]

ASSUME NullsAssumption ==
    /\ NoOrder \notin Orders
    /\ NoInfo \notin OrderInfo
    /\ NoEvent \notin EventIds \cup Event
    /\ NoKey \notin Keys
    /\ NoRequest \notin Requests

VARIABLES
    now,        \* Clock
    status,     \* payment_orders.status
    info,       \* the columns of payment_orders that never change
    txn,        \* payment_transactions, by provider_payment_id
    coverage,   \* coverage_periods.status, by payment_order_id
    receipts,   \* webhook_receipts, by provider_event_id
    outbox,     \* outbox_events: rows of each type, by order
    sent,       \* the provider's events, by event id (outside the service)
    answers,    \* the successful answers of POST payment-orders so far
    creator, handler, reader   \* what each request thread holds

tables  == <<status, info, txn, coverage, receipts, outbox>>
threads == <<creator, handler, reader>>
vars    == <<now, tables, sent, answers, threads>>

IdleCreator == [pc |-> "idle", key |-> NoKey, request |-> NoRequest]
IdleHandler == [pc |-> "idle", event |-> NoEvent, seen |-> "ABSENT"]
IdleReader  == [pc |-> "idle", order |-> NoOrder]

TypeOK ==
    /\ now \in 0..MaxTime
    /\ status \in [Orders -> Statuses]
    /\ info \in [Orders -> OrderInfo \cup {NoInfo}]
    /\ txn \in [Payments -> [order : Orders \cup {NoOrder},
                             status : {"NONE", "CAPTURED", "REFUNDED"}]]
    /\ coverage \in [Orders -> {"NONE", "ACTIVE", "REVOKED"}]
    /\ receipts \subseteq EventIds
    /\ outbox \in [Orders -> [activated : Nat, revoked : Nat]]
    /\ sent \in [EventIds -> Event \cup {NoEvent}]
    /\ answers \subseteq [key : Keys, request : Requests, order : Orders]
    /\ creator \in [Creators -> [pc : {"idle", "insert"},
                                 key : Keys \cup {NoKey},
                                 request : Requests \cup {NoRequest}]]
    /\ handler \in [Handlers -> [pc : {"idle", "arrived", "checked", "locked"},
                                 event : EventIds \cup {NoEvent},
                                 seen : Statuses]]
    /\ reader \in [Readers -> [pc : {"idle", "expire"},
                               order : Orders \cup {NoOrder}]]

Init ==
    /\ now = 0
    /\ status = [o \in Orders |-> "ABSENT"]
    /\ info = [o \in Orders |-> NoInfo]
    /\ txn = [p \in Payments |-> [order |-> NoOrder, status |-> "NONE"]]
    /\ coverage = [o \in Orders |-> "NONE"]
    /\ receipts = {}
    /\ outbox = [o \in Orders |-> [activated |-> 0, revoked |-> 0]]
    /\ sent = [e \in EventIds |-> NoEvent]
    /\ answers = {}
    /\ creator = [c \in Creators |-> IdleCreator]
    /\ handler = [h \in Handlers |-> IdleHandler]
    /\ reader = [r \in Readers |-> IdleReader]

Tick ==
    /\ now < MaxTime
    /\ now' = now + 1
    /\ UNCHANGED <<tables, sent, answers, threads>>

Exists(o) == status[o] # "ABSENT"

(***************************************************************************)
(* PaymentOrder's transitions: the statuses from which each mark method    *)
(* goes through.  From the target itself the method returns at once, so    *)
(* in every case the order ends in the target; any other status raises     *)
(* InvalidPaymentTransitionException, which rolls the transaction back.    *)
(***************************************************************************)
Accepts == [PAID     |-> {"PENDING", "PAID"},
            FAILED   |-> {"CREATED", "PENDING", "FAILED"},
            EXPIRED  |-> {"PENDING", "EXPIRED"},
            REFUNDED |-> {"PAID", "REFUNDED"}]

-----------------------------------------------------------------------------
(***************************************************************************)
(* PaymentOrderService.create                                              *)
(***************************************************************************)
(* Mutant of KeyLockFree: no advisory lock on the key.                     *)
KeyLockFree_None(k) == TRUE

KeyLockFree(k) ==
    \A c \in Creators : creator[c].pc = "insert" => creator[c].key # k

(* Mutant of CreateLock: requireSameRequest is not called.                 *)
CreateLock_AnyRequest(c, k, r) ==
    /\ creator[c].pc = "idle"
    /\ KeyLockFree(k)
    /\ LET existing == {o \in Orders : Exists(o) /\ info[o].key = k}
       IN  \/ /\ existing = {}
              /\ creator' = [creator EXCEPT ![c] =
                     [pc |-> "insert", key |-> k, request |-> r]]
              /\ UNCHANGED answers
           \/ /\ answers' = answers \cup
                     {[key |-> k, request |-> r, order |-> o] : o \in existing}
              /\ existing # {}
              /\ UNCHANGED creator
    /\ UNCHANGED <<now, tables, sent, handler, reader>>

(* The advisory lock on the key, then findByIdempotencyKey: an existing    *)
(* order answers the request if requireSameRequest agrees, and is a        *)
(* conflict (409, nothing written) if not.                                 *)
CreateLock(c, k, r) ==
    /\ creator[c].pc = "idle"
    /\ KeyLockFree(k)
    /\ LET existing == {o \in Orders : Exists(o) /\ info[o].key = k}
       IN  \/ /\ existing = {}
              /\ creator' = [creator EXCEPT ![c] =
                     [pc |-> "insert", key |-> k, request |-> r]]
              /\ UNCHANGED answers
           \/ \E o \in existing :
                /\ answers' = IF info[o].request = r
                              THEN answers \cup
                                   {[key |-> k, request |-> r, order |-> o]}
                              ELSE answers
                /\ UNCHANGED creator
    /\ UNCHANGED <<now, tables, sent, handler, reader>>

(* Mutant of CreateInsert: the lifetime is subtracted from the clock.      *)
CreateInsert_Past(c, o) ==
    /\ creator[c].pc = "insert"
    /\ ~Exists(o)
    /\ status' = [status EXCEPT ![o] = "PENDING"]
    /\ info' = [info EXCEPT ![o] = [key |-> creator[c].key,
           request |-> creator[c].request, expiresAt |-> now - Lifetime]]
    /\ creator' = [creator EXCEPT ![c] = IdleCreator]
    /\ UNCHANGED <<now, txn, coverage, receipts, outbox, sent, answers,
                   handler, reader>>

(* createNew and its commit.  The row is CREATED only in memory: the       *)
(* provider accepts it and markPending runs before the save.  The UNIQUE   *)
(* constraint on idempotency_key refuses a second row for the key.         *)
CreateInsert(c, o) ==
    /\ creator[c].pc = "insert"
    /\ ~Exists(o)
    /\ LET k == creator[c].key
           r == creator[c].request
       IN  /\ \A x \in Orders : Exists(x) => info[x].key # k
           /\ status' = [status EXCEPT ![o] = "PENDING"]
           /\ info' = [info EXCEPT ![o] =
                  [key |-> k, request |-> r, expiresAt |-> now + Lifetime]]
           /\ answers' = answers \cup
                  {[key |-> k, request |-> r, order |-> o]}
    /\ creator' = [creator EXCEPT ![c] = IdleCreator]
    /\ UNCHANGED <<now, txn, coverage, receipts, outbox, sent, handler, reader>>

(* A failure of the provider call, of the connection or of the process     *)
(* before the commit: the transaction and its advisory lock are gone.      *)
CreateRollback(c) ==
    /\ creator[c].pc = "insert"
    /\ creator' = [creator EXCEPT ![c] = IdleCreator]
    /\ UNCHANGED <<now, tables, sent, answers, handler, reader>>

-----------------------------------------------------------------------------
(***************************************************************************)
(* WebhookProcessingService.process                                        *)
(***************************************************************************)
(* Mutant of EventLockFree: a session lock the commit does not release.    *)
EventLockFree_Session(e) ==
    /\ e \notin receipts
    /\ \A h \in Handlers : handler[h].pc \in {"checked", "locked"}
                               => handler[h].event # e

EventLockFree(e) ==
    \A h \in Handlers : handler[h].pc \in {"checked", "locked"}
                            => handler[h].event # e

(* Mutant of RowLockFree: the order is read without FOR UPDATE.            *)
RowLockFree_None(o) == TRUE

RowLockFree(o) ==
    \A h \in Handlers : handler[h].pc = "locked"
                            => sent[handler[h].event].order # o

(* A request whose signature verifies; the provider may send an event any  *)
(* number of times, in any order, also after it was processed.             *)
Deliver(h, e) ==
    /\ handler[h].pc = "idle"
    /\ sent[e] # NoEvent
    /\ handler' = [handler EXCEPT ![h] =
           [pc |-> "arrived", event |-> e, seen |-> "ABSENT"]]
    /\ UNCHANGED <<now, tables, sent, answers, creator, reader>>

(* Mutant of LockEvent: the receipt of an event is not looked up.          *)
LockEvent_NoReceipt(h) ==
    /\ handler[h].pc = "arrived"
    /\ EventLockFree(handler[h].event)
    /\ handler' = [handler EXCEPT ![h].pc = "checked"]
    /\ UNCHANGED <<now, tables, sent, answers, creator, reader>>

(* acquireEventLock, then the receipt lookup: DUPLICATE ends here.         *)
LockEvent(h) ==
    /\ handler[h].pc = "arrived"
    /\ EventLockFree(handler[h].event)
    /\ handler' = [handler EXCEPT ![h] =
           IF handler[h].event \in receipts
           THEN IdleHandler
           ELSE [@ EXCEPT !.pc = "checked"]]
    /\ UNCHANGED <<now, tables, sent, answers, creator, reader>>

(* Mutant of ValidEvent: the amount is not compared.                       *)
ValidEvent_AnyAmount(ev) == Exists(ev.order)

ValidEvent(ev) == Exists(ev.order) /\ info[ev.order].request.amount = ev.amount

(* findByIdForUpdate and validateEvent: the row is locked until the        *)
(* transaction ends, and its status is read under the lock.                *)
LockOrder(h) ==
    /\ handler[h].pc = "checked"
    /\ LET ev == sent[handler[h].event]
       IN  /\ RowLockFree(ev.order)
           /\ handler' = [handler EXCEPT ![h] =
                  IF ValidEvent(ev)
                  THEN [pc |-> "locked", event |-> @.event,
                        seen |-> status[ev.order]]
                  ELSE IdleHandler]
    /\ UNCHANGED <<now, tables, sent, answers, creator, reader>>

SameWeek(o1, o2) ==
    /\ info[o1].request.worker = info[o2].request.worker
    /\ info[o1].request.week = info[o2].request.week

(* Mutants of CanCapture: no unique index on the coverage's order, or none *)
(* on the worker's active week.                                            *)
CanCapture_ManyPayments(ev, seen) ==
    /\ ev.status = "PAID"
    /\ seen \in Accepts.PAID
    /\ txn[ev.payment].status = "NONE"
    /\ \A o \in Orders \ {ev.order} :
           coverage[o] = "ACTIVE" => ~SameWeek(o, ev.order)

CanCapture_ManyOrders(ev, seen) ==
    /\ ev.status = "PAID"
    /\ seen \in Accepts.PAID
    /\ txn[ev.payment].status = "NONE"
    /\ coverage[ev.order] = "NONE"

(* capturePayment goes through: markPaid accepts the status, and the       *)
(* unique indexes on the payment, on the coverage's order and on the       *)
(* worker's active week let the inserts in.                                *)
CanCapture(ev, seen) ==
    /\ ev.status = "PAID"
    /\ seen \in Accepts.PAID
    /\ txn[ev.payment].status = "NONE"
    /\ coverage[ev.order] = "NONE"
    /\ \A o \in Orders : coverage[o] = "ACTIVE" => ~SameWeek(o, ev.order)

(* Mutant of CanFail: markFailed without its guard.                        *)
CanFail_Always(ev, seen) == ev.status = "FAILED"

CanFail(ev, seen) == ev.status = "FAILED" /\ seen \in Accepts.FAILED

(* refundPayment goes through: the transaction is looked up by payment id, *)
(* the coverage by order id.                                               *)
CanRefund(ev, seen) ==
    /\ ev.status = "REFUNDED"
    /\ seen \in Accepts.REFUNDED
    /\ txn[ev.payment].status # "NONE"
    /\ coverage[ev.order] # "NONE"

Capture(ev) ==
    /\ txn' = [txn EXCEPT ![ev.payment] =
                  [order |-> ev.order, status |-> "CAPTURED"]]
    /\ coverage' = [coverage EXCEPT ![ev.order] = "ACTIVE"]
    /\ outbox' = [outbox EXCEPT ![ev.order] =
           [activated |-> @.activated + 1, revoked |-> @.revoked]]

(* Mutants of Refund: coverage is looked up by worker and week; coverage   *)
(* is revoked without its announcement.                                    *)
Refund_ByWeek(ev) ==
    /\ txn' = [txn EXCEPT ![ev.payment] =
                  [order |-> @.order, status |-> "REFUNDED"]]
    /\ coverage' = [o \in Orders |->
           IF Exists(o) /\ SameWeek(o, ev.order) THEN "REVOKED" ELSE coverage[o]]
    /\ outbox' = [outbox EXCEPT ![ev.order] =
           [activated |-> @.activated, revoked |-> @.revoked + 1]]

Refund_Silent(ev) ==
    /\ txn' = [txn EXCEPT ![ev.payment] =
                  [order |-> @.order, status |-> "REFUNDED"]]
    /\ coverage' = [coverage EXCEPT ![ev.order] = "REVOKED"]
    /\ UNCHANGED outbox

Refund(ev) ==
    /\ txn' = [txn EXCEPT ![ev.payment] =
                  [order |-> @.order, status |-> "REFUNDED"]]
    /\ coverage' = [coverage EXCEPT ![ev.order] = "REVOKED"]
    /\ outbox' = [outbox EXCEPT ![ev.order] =
           [activated |-> @.activated, revoked |-> @.revoked + 1]]

(* The switch over the event's status and the commit: order, transaction,  *)
(* coverage, outbox and receipt become visible together.                   *)
Process(h) ==
    /\ handler[h].pc = "locked"
    /\ LET ev == sent[handler[h].event]
           seen == handler[h].seen
       IN  /\ \/ CanCapture(ev, seen) /\ Capture(ev)
              \/ CanFail(ev, seen) /\ UNCHANGED <<txn, coverage, outbox>>
              \/ CanRefund(ev, seen) /\ Refund(ev)
           /\ status' = [status EXCEPT ![ev.order] = ev.status]
    /\ receipts' = receipts \cup {handler[h].event}
    /\ handler' = [handler EXCEPT ![h] = IdleHandler]
    /\ UNCHANGED <<now, info, sent, answers, creator, reader>>

(* Mutant of Reject: a rejected event keeps a receipt, as the schema's     *)
(* status REJECTED would allow.                                            *)
Reject_Receipted(h) ==
    /\ handler[h].pc = "locked"
    /\ LET ev == sent[handler[h].event]
           seen == handler[h].seen
       IN  ~(CanCapture(ev, seen) \/ CanFail(ev, seen) \/ CanRefund(ev, seen))
    /\ receipts' = receipts \cup {handler[h].event}
    /\ handler' = [handler EXCEPT ![h] = IdleHandler]
    /\ UNCHANGED <<now, status, info, txn, coverage, outbox, sent, answers,
                   creator, reader>>

(* An exception anywhere in the switch: everything is rolled back, no      *)
(* receipt is kept, and the provider may deliver the event again.          *)
Reject(h) ==
    /\ handler[h].pc = "locked"
    /\ LET ev == sent[handler[h].event]
           seen == handler[h].seen
       IN  ~(CanCapture(ev, seen) \/ CanFail(ev, seen) \/ CanRefund(ev, seen))
    /\ handler' = [handler EXCEPT ![h] = IdleHandler]
    /\ UNCHANGED <<now, tables, sent, answers, creator, reader>>

(* Mutant of HandlerCrash: the receipt is committed before the effects.    *)
HandlerCrash_Receipted(h) ==
    /\ handler[h].pc = "locked"
    /\ receipts' = receipts \cup {handler[h].event}
    /\ handler' = [handler EXCEPT ![h] = IdleHandler]
    /\ UNCHANGED <<now, status, info, txn, coverage, outbox, sent, answers,
                   creator, reader>>

(* The process or its connection dies inside the transaction.              *)
HandlerCrash(h) ==
    /\ handler[h].pc # "idle"
    /\ handler' = [handler EXCEPT ![h] = IdleHandler]
    /\ UNCHANGED <<now, tables, sent, answers, creator, reader>>

-----------------------------------------------------------------------------
(***************************************************************************)
(* PaymentOrderQueryService.getOwned                                       *)
(***************************************************************************)
(* findByIdAndWorkerPhone takes no lock.  Only an order seen PENDING past  *)
(* its expiry leaves something to write.                                   *)
ReadOrder(r, o) ==
    /\ reader[r].pc = "idle"
    /\ status[o] = "PENDING"
    /\ info[o].expiresAt <= now
    /\ reader' = [reader EXCEPT ![r] = [pc |-> "expire", order |-> o]]
    /\ UNCHANGED <<now, tables, sent, answers, creator, handler>>

(* The UPDATE of markExpired at commit.  It waits for a row lock, then     *)
(* overwrites the status by id alone: there is no version column and no    *)
(* condition on the status that was read.                                  *)
WriteExpired(r) ==
    /\ reader[r].pc = "expire"
    /\ RowLockFree(reader[r].order)
    /\ status' = [status EXCEPT ![reader[r].order] = "EXPIRED"]
    /\ reader' = [reader EXCEPT ![r] = IdleReader]
    /\ UNCHANGED <<now, info, txn, coverage, receipts, outbox, sent, answers,
                   creator, handler>>

ReaderCrash(r) ==
    /\ reader[r].pc = "expire"
    /\ reader' = [reader EXCEPT ![r] = IdleReader]
    /\ UNCHANGED <<now, tables, sent, answers, creator, handler>>

-----------------------------------------------------------------------------
(***************************************************************************)
(* The payment provider (outside the service): it notifies about a payment *)
(* of an order it was given, a payment belongs to one order, only a        *)
(* captured payment is refunded, and one fact may be notified under        *)
(* several event ids.                                                      *)
(***************************************************************************)
Charged(p) == \E e \in EventIds :
    sent[e] # NoEvent /\ sent[e].payment = p /\ sent[e].status = "PAID"

Emit(e, ev) ==
    /\ sent[e] = NoEvent
    /\ Exists(ev.order)
    /\ \A x \in EventIds : sent[x] # NoEvent /\ sent[x].payment = ev.payment
           => sent[x].order = ev.order
    /\ ev.status = "REFUNDED" => Charged(ev.payment)
    /\ ev.status = "FAILED" => ~Charged(ev.payment)
    /\ sent' = [sent EXCEPT ![e] = ev]
    /\ UNCHANGED <<now, tables, answers, threads>>

-----------------------------------------------------------------------------
CreatorStep == \E c \in Creators :
    \/ \E k \in Keys, r \in Requests : CreateLock(c, k, r)
    \/ \E o \in Orders : CreateInsert(c, o)
    \/ CreateRollback(c)

HandlerStep == \E h \in Handlers :
    \/ \E e \in EventIds : Deliver(h, e)
    \/ LockEvent(h)
    \/ LockOrder(h)
    \/ Process(h)
    \/ Reject(h)
    \/ HandlerCrash(h)

ReaderStep == \E r \in Readers :
    \/ \E o \in Orders : ReadOrder(r, o)
    \/ WriteExpired(r)
    \/ ReaderCrash(r)

ProviderStep == \E e \in EventIds, ev \in Event : Emit(e, ev)

Next == Tick \/ CreatorStep \/ HandlerStep \/ ReaderStep \/ ProviderStep

Spec == Init /\ [][Next]_vars
-----------------------------------------------------------------------------
(***************************************************************************)
(* Safety.                                                                 *)
(***************************************************************************)
CapturesOf(o) == {p \in Payments : txn[p].order = o}
ReceiptsOf(o, st) == {e \in receipts : sent[e].order = o /\ sent[e].status = st}

(* Money and coverage agree whatever interleaving of webhooks, status      *)
(* polls and crashes led here: an order has coverage exactly when one      *)
(* payment of it was captured, and the coverage is active exactly while    *)
(* that payment is not refunded.  payment_transactions has no unique index *)
(* on the order: only capturePayment's row lock and markPaid's guard keep  *)
(* a second payment out, and refundPayment finds the transaction by        *)
(* payment and the coverage by order.                                      *)
MoneyBacksCoverage ==
    \A o \in Orders :
        IF coverage[o] = "NONE"
        THEN CapturesOf(o) = {}
        ELSE \E p \in Payments :
                /\ CapturesOf(o) = {p}
                /\ txn[p].status =
                       IF coverage[o] = "ACTIVE" THEN "CAPTURED" ELSE "REFUNDED"

(* The order's status does not contradict its coverage: nobody who reads   *)
(* PAID is without active coverage, nothing is covered while the order is  *)
(* PENDING or FAILED, and a REFUNDED order's coverage is revoked.          *)
(* (EXPIRED is left out: WriteExpired may overwrite a paid order.)         *)
StatusAgreesWithCoverage ==
    \A o \in Orders :
        /\ status[o] \in {"ABSENT", "CREATED", "PENDING", "FAILED"}
               => coverage[o] = "NONE"
        /\ status[o] = "PAID" => coverage[o] = "ACTIVE"
        /\ status[o] = "REFUNDED" => coverage[o] = "REVOKED"

(* A receipt is kept exactly with the effect of its event, whose amount is *)
(* the price its order was created with: a PAID receipt                    *)
(* has its own captured payment, a REFUNDED one means revoked coverage, a  *)
(* FAILED one no coverage and an order that stays unpaid.                  *)
ReceiptsMatchEffects ==
    \A e \in receipts :
        LET ev == sent[e]
        IN  /\ ev.amount = info[ev.order].request.amount
            /\ ev.status = "PAID" => txn[ev.payment].order = ev.order
            /\ ev.status = "REFUNDED" => coverage[ev.order] = "REVOKED"
            /\ ev.status = "FAILED" =>
                   /\ coverage[ev.order] = "NONE"
                   /\ status[ev.order] \in {"FAILED", "EXPIRED"}

(* The outbox holds exactly one row for every receipted PAID or REFUNDED   *)
(* event, and one activation for every period of coverage: deliveries that *)
(* are duplicated, or repeated after a crash in process, announce nothing. *)
OutboxMatchesReceipts ==
    \A o \in Orders :
        /\ outbox[o].activated = Cardinality(ReceiptsOf(o, "PAID"))
        /\ outbox[o].activated = IF coverage[o] = "NONE" THEN 0 ELSE 1
        /\ outbox[o].revoked = Cardinality(ReceiptsOf(o, "REFUNDED"))

(* Mutant of Covers: endsOn is a week after startsOn.                      *)
Covers_EightDays(o, w, day) ==
    /\ coverage[o] = "ACTIVE"
    /\ info[o].request.worker = w
    /\ info[o].request.week <= day
    /\ day <= info[o].request.week + 7

(* A day of a period: startsOn to endsOn, as findActive compares them.     *)
Covers(o, w, day) ==
    /\ coverage[o] = "ACTIVE"
    /\ info[o].request.worker = w
    /\ info[o].request.week <= day
    /\ day <= info[o].request.week + 6

Days == UNION {r.week .. r.week + 6 : r \in Requests}

(* CoverageQueryService.findCoverage reads an Optional of the ACTIVE       *)
(* periods of a worker whose seven days contain a date: two matches would  *)
(* be an error instead of an answer.  The index on (worker, first day) is  *)
(* enough only because every first day is a Monday.                        *)
CoverageUnambiguous ==
    \A day \in Days, o1, o2 \in Orders, w \in {r.worker : r \in Requests} :
        Covers(o1, w, day) /\ Covers(o2, w, day) => o1 = o2

(* PaymentOrderService.create is idempotent per key: every request that    *)
(* was answered with an order got the one order that carries its key and   *)
(* was created from exactly its own command, however the creations raced.  *)
IdempotentAnswers ==
    \A a \in answers :
        /\ Exists(a.order)
        /\ info[a.order].key = a.key
        /\ info[a.order].request = a.request
        /\ \A o \in Orders : Exists(o) /\ info[o].key = a.key => o = a.order

(* The advisory lock serialises the creations of a key, so a creation that *)
(* found no order for its key still finds none when it inserts: a          *)
(* concurrent duplicate request is answered with the same order and never  *)
(* fails on the UNIQUE constraint.                                         *)
CreationNeverCollides ==
    \A c \in Creators : creator[c].pc = "insert" =>
        \A o \in Orders : Exists(o) => info[o].key # creator[c].key

(* What a webhook read of the order under findByIdForUpdate is still true  *)
(* when it commits: no other webhook and no status poll gets in between.   *)
LockedReadIsCurrent ==
    \A h \in Handlers : handler[h].pc = "locked" =>
        handler[h].seen = status[sent[handler[h].event].order]

(***************************************************************************)
(* Action properties.                                                      *)
(***************************************************************************)
(* Money, coverage and outbox change only together with one new receipt,   *)
(* and only in rows of the order of the event it receipts: no status poll, *)
(* creation, duplicate or rejected webhook touches them.                   *)
OnlyReceiptedEventsMoveMoney ==
    [][ <<txn, coverage, outbox>>' # <<txn, coverage, outbox>> =>
        \E e \in EventIds \ receipts :
            /\ receipts' = receipts \cup {e}
            /\ \A o \in Orders \ {sent[e].order} :
                 /\ coverage'[o] = coverage[o]
                 /\ outbox'[o] = outbox[o]
            /\ \A p \in Payments : txn'[p] # txn[p] =>
                 txn'[p].order = sent[e].order ]_vars

(* Coverage that was revoked is never active again, and coverage never     *)
(* vanishes, although the order's own status may be overwritten: a         *)
(* consequence of ImplementsLedger that is proved by itself.               *)
RevocationIsFinal ==
    [][ \A o \in Orders :
          /\ coverage[o] = "REVOKED" => coverage'[o] = "REVOKED"
          /\ coverage[o] = "ACTIVE" => coverage'[o] # "NONE" ]_vars

(***************************************************************************)
(* What the design says and a status poll can break.                       *)
(***************************************************************************)
(* docs/superpowers/specs/2026-08-15-spring-billing-service-design.md,     *)
(* "Allowed transitions", with creation as the step into PENDING.          *)
AllowedTransitions ==
    {<<"ABSENT", "PENDING">>, <<"CREATED", "PENDING">>, <<"CREATED", "FAILED">>,
     <<"PENDING", "PAID">>, <<"PENDING", "FAILED">>, <<"PENDING", "EXPIRED">>,
     <<"PAID", "REFUNDED">>}

(* Every change of an order's status is one the design's table allows.     *)
OrderTransitions ==
    [][ \A o \in Orders : status'[o] # status[o] =>
          <<status[o], status'[o]>> \in AllowedTransitions ]_vars

(* A repeated notification of a refund is idempotent: the outbox announces *)
(* one revocation per order (same document, "Repeated notification of the  *)
(* current state is idempotent").                                          *)
RevokedOnce == \A o \in Orders : outbox[o].revoked <= 1

-----------------------------------------------------------------------------
(***************************************************************************)
(* The ledger this service implements.                                     *)
(***************************************************************************)
Slot(o) == IF Exists(o)
           THEN <<info[o].request.worker, info[o].request.week>>
           ELSE <<>>

Ledger == INSTANCE CoverageLedger WITH
    Slots   <- {<<r.worker, r.week>> : r \in Requests},
    NoSlot  <- <<>>,
    slot    <- [o \in Orders |-> Slot(o)],
    cover   <- coverage,
    notices <- outbox

(* Every behaviour of the service, with all its threads, locks, receipts   *)
(* and crashes, is a behaviour of the ledger.                              *)
ImplementsLedger == Ledger!Spec

-----------------------------------------------------------------------------
(***************************************************************************)
(* Liveness.  A thread that waits for a PostgreSQL lock is queued and gets *)
(* it in turn (strong fairness); a thread that waits for nothing goes on.  *)
(* The provider (outside the service) delivers an event again and again    *)
(* until it is answered without an error.  Crashes stop at some time: from *)
(* then on a request ends only where process itself ends it.               *)
(***************************************************************************)
ThreadFairness == \A h \in Handlers :
    /\ SF_vars(LockEvent(h))
    /\ SF_vars(LockOrder(h))
    /\ WF_vars(Process(h))
    /\ WF_vars(Reject(h))

Redeliver(e) == e \notin receipts /\ \E h \in Handlers : Deliver(h, e)

ProviderFairness == \A e \in EventIds : SF_vars(Redeliver(e))

CrashesStop == <>[][ \A h \in Handlers :
    HandlerCrash(h) => LockEvent(h) \/ LockOrder(h) \/ Reject(h) ]_vars

FairSpec == Spec /\ ThreadFairness /\ ProviderFairness /\ CrashesStop

(* No webhook request waits for ever on the advisory lock of its event or  *)
(* on the row lock of its order: its transaction ends.                     *)
WebhooksFinish ==
    \A h \in Handlers : handler[h].pc # "idle" ~> handler[h].pc = "idle"

(* A paid, valid event of an order still PENDING ends in coverage, however *)
(* often its delivery is repeated, overtaken or cut off, unless the order  *)
(* first failed or expired, or another order already covers the week.      *)
CaptureOwed(e, o) ==
    /\ sent[e] # NoEvent
    /\ sent[e].order = o
    /\ sent[e].status = "PAID"
    /\ ValidEvent(sent[e])
    /\ status[o] = "PENDING"

PaidIsCovered ==
    \A e \in EventIds, o \in Orders :
        CaptureOwed(e, o) ~>
            \/ coverage[o] # "NONE"
            \/ status[o] \in {"FAILED", "EXPIRED"}
            \/ \E x \in Orders \ {o} : coverage[x] = "ACTIVE" /\ SameWeek(x, o)

(* A refund of the captured payment ends the coverage even when it is      *)
(* delivered before the payment's own event, unless a status poll has      *)
(* meanwhile overwritten the order with EXPIRED.                           *)
RefundOwed(e, o) ==
    /\ sent[e] # NoEvent
    /\ sent[e].order = o
    /\ sent[e].status = "REFUNDED"
    /\ ValidEvent(sent[e])
    /\ txn[sent[e].payment].order = o

RefundEndsCoverage ==
    \A e \in EventIds, o \in Orders :
        RefundOwed(e, o) ~> coverage[o] = "REVOKED" \/ status[o] = "EXPIRED"
=============================================================================
