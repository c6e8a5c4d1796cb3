--------------------------- MODULE BillingProofs ---------------------------
(***************************************************************************)
(* What holds of the billing service for every number of orders, events,   *)
(* payments and threads.  The invariant is proved in layers, each of which *)
(* is preserved by a step given the layers before it:                      *)
(*   Types   the type invariant, and what a busy thread holds is an order, *)
(*           an event, a key and not one of the null values;               *)
(*   Rows    the rows of an order appear together, and what the provider   *)
(*           notified is about orders that exist;                          *)
(*   Locks   the row lock and the event lock exclude, and what was read    *)
(*           under the row lock is still so;                               *)
(*   Money   transactions, coverage, status and receipts agree.            *)
(***************************************************************************)
EXTENDS Billing, FiniteSetTheorems, TLAPS

ThreadsHold ==
    /\ \A c \in Creators : creator[c].pc = "insert" =>
          creator[c].key \in Keys /\ creator[c].request \in Requests
    /\ \A h \in Handlers : handler[h].pc # "idle" =>
          handler[h].event \in EventIds /\ sent[handler[h].event] \in Event
    /\ \A r \in Readers : reader[r].pc = "expire" => reader[r].order \in Orders

Types == TypeOK /\ ThreadsHold

-----------------------------------------------------------------------------
LEMMA TypesInit == Init => Types
  BY ClockAssumption DEF Init, Types, TypeOK, ThreadsHold, IdleCreator,
     IdleHandler, IdleReader, Statuses

LEMMA TypesStep == Types /\ [Next]_vars => Types'
  <1> SUFFICES ASSUME Types, [Next]_vars
               PROVE  Types'
    OBVIOUS
  <1> USE ClockAssumption, NullsAssumption DEF Types, TypeOK, ThreadsHold
  <1>1. CASE Tick
    BY <1>1 DEF Tick, tables, threads
  <1>2. ASSUME NEW c \in Creators, NEW k \in Keys, NEW r \in Requests,
               CreateLock(c, k, r)
        PROVE  Types'
    <2>1. answers' \subseteq [key : Keys, request : Requests, order : Orders]
      BY <1>2 DEF CreateLock
    <2>2. \/ creator' = [creator EXCEPT ![c] =
                  [pc |-> "insert", key |-> k, request |-> r]]
          \/ creator' = creator
      BY <1>2 DEF CreateLock
    <2>3. UNCHANGED <<now, tables, sent, handler, reader>>
      BY <1>2 DEF CreateLock
    <2>4. CASE creator' = [creator EXCEPT ![c] =
                  [pc |-> "insert", key |-> k, request |-> r]]
      BY <2>1, <2>3, <2>4 DEF tables
    <2>5. CASE creator' = creator
      BY <2>1, <2>3, <2>5 DEF tables
    <2> QED
      BY <2>2, <2>4, <2>5
  <1>3. ASSUME NEW c \in Creators, NEW o \in Orders, CreateInsert(c, o)
        PROVE  Types'
    <2>1. creator[c].key \in Keys /\ creator[c].request \in Requests
      BY <1>3 DEF CreateInsert
    <2>2. [key |-> creator[c].key, request |-> creator[c].request,
           expiresAt |-> now + Lifetime] \in OrderInfo
      BY <2>1 DEF OrderInfo
    <2>3. info' \in [Orders -> OrderInfo \cup {NoInfo}]
      BY <1>3, <2>2 DEF CreateInsert
    <2>4. status' \in [Orders -> Statuses]
      BY <1>3 DEF CreateInsert, Statuses
    <2>5. answers' \subseteq [key : Keys, request : Requests, order : Orders]
      BY <1>3, <2>1 DEF CreateInsert
    <2> QED
      BY <1>3, <2>3, <2>4, <2>5 DEF CreateInsert, IdleCreator
  <1>4. ASSUME NEW c \in Creators, CreateRollback(c)
        PROVE  Types'
    BY <1>4 DEF CreateRollback, tables, IdleCreator
  <1>5. ASSUME NEW h \in Handlers, NEW e \in EventIds, Deliver(h, e)
        PROVE  Types'
    BY <1>5 DEF Deliver, tables, Statuses
  <1>6. ASSUME NEW h \in Handlers, LockEvent(h)
        PROVE  Types'
    <2>1. /\ handler[h].pc = "arrived"
          /\ UNCHANGED <<now, tables, sent, answers, creator, reader>>
          /\ \/ handler' = [handler EXCEPT ![h] = IdleHandler]
             \/ handler' = [handler EXCEPT ![h].pc = "checked"]
      BY <1>6 DEF LockEvent
    <2>2. CASE handler' = [handler EXCEPT ![h] = IdleHandler]
      BY <2>1, <2>2 DEF tables, IdleHandler, Statuses
    <2>3. CASE handler' = [handler EXCEPT ![h].pc = "checked"]
      BY <2>1, <2>3 DEF tables
    <2> QED
      BY <2>1, <2>2, <2>3
  <1>7. ASSUME NEW h \in Handlers, LockOrder(h)
        PROVE  Types'
    <2>1. sent[handler[h].event] \in Event
      BY <1>7 DEF LockOrder
    <2>2. status[sent[handler[h].event].order] \in Statuses
      BY <2>1 DEF Event
    <2>3. /\ handler[h].pc = "checked"
          /\ UNCHANGED <<now, tables, sent, answers, creator, reader>>
          /\ \/ handler' = [handler EXCEPT ![h] = IdleHandler]
             \/ handler' = [handler EXCEPT ![h] =
                    [pc |-> "locked", event |-> handler[h].event,
                     seen |-> status[sent[handler[h].event].order]]]
      BY <1>7 DEF LockOrder
    <2>4. CASE handler' = [handler EXCEPT ![h] = IdleHandler]
      BY <2>3, <2>4 DEF tables, IdleHandler, Statuses
    <2>5. CASE handler' = [handler EXCEPT ![h] =
                    [pc |-> "locked", event |-> handler[h].event,
                     seen |-> status[sent[handler[h].event].order]]]
      <3>1. handler' \in [Handlers ->
                [pc : {"idle", "arrived", "checked", "locked"},
                 event : EventIds \cup {NoEvent}, seen : Statuses]]
        BY <2>2, <2>5
      <3>2. ThreadsHold'
        BY <2>3, <2>5 DEF tables
      <3>3. TypeOK'
        BY <2>3, <3>1 DEF tables
      <3> HIDE DEF TypeOK, ThreadsHold
      <3> QED
        BY <3>2, <3>3
    <2> QED
      BY <2>3, <2>4, <2>5
  <1>8. ASSUME NEW h \in Handlers, Process(h)
        PROVE  Types'
    <2> DEFINE ev == sent[handler[h].event]
    <2>1. ev \in Event /\ handler[h].event \in EventIds
      BY <1>8 DEF Process
    <2>2. ev.order \in Orders /\ ev.payment \in Payments
          /\ ev.status \in {"PAID", "FAILED", "REFUNDED"}
      BY <2>1 DEF Event
    <2> HIDE DEF ev
    <2>3. status' \in [Orders -> Statuses]
      BY <1>8, <2>2 DEF Process, Statuses, ev
    <2>4. \/ Capture(ev)
          \/ UNCHANGED <<txn, coverage, outbox>>
          \/ Refund(ev)
      BY <1>8 DEF Process, ev
    <2>5. /\ txn' \in [Payments -> [order : Orders \cup {NoOrder},
                                    status : {"NONE", "CAPTURED", "REFUNDED"}]]
          /\ coverage' \in [Orders -> {"NONE", "ACTIVE", "REVOKED"}]
          /\ outbox' \in [Orders -> [activated : Nat, revoked : Nat]]
      <3>1. CASE Capture(ev)
        BY <2>2, <3>1 DEF Capture
      <3>2. CASE UNCHANGED <<txn, coverage, outbox>>
        BY <3>2
      <3>3. CASE Refund(ev)
        <4>1. txn' \in [Payments -> [order : Orders \cup {NoOrder},
                                    status : {"NONE", "CAPTURED", "REFUNDED"}]]
          BY <2>2, <3>3 DEF Refund
        <4>2. coverage' \in [Orders -> {"NONE", "ACTIVE", "REVOKED"}]
          BY <2>2, <3>3 DEF Refund
        <4>3. outbox' \in [Orders -> [activated : Nat, revoked : Nat]]
          BY <2>2, <3>3 DEF Refund
        <4> QED
          BY <4>1, <4>2, <4>3
      <3> QED
        BY <2>4, <3>1, <3>2, <3>3
    <2>6. receipts' \subseteq EventIds
      BY <1>8, <2>1 DEF Process
    <2>7. /\ handler' = [handler EXCEPT ![h] = IdleHandler]
          /\ UNCHANGED <<now, info, sent, answers, creator, reader>>
      BY <1>8 DEF Process
    <2>8. handler' \in [Handlers ->
              [pc : {"idle", "arrived", "checked", "locked"},
               event : EventIds \cup {NoEvent}, seen : Statuses]]
      BY <2>7 DEF IdleHandler, Statuses
    <2>9. ThreadsHold'
      BY <2>7 DEF IdleHandler
    <2>10. TypeOK'
      BY <2>3, <2>5, <2>6, <2>7, <2>8
    <2> HIDE DEF TypeOK, ThreadsHold
    <2> QED
      BY <2>9, <2>10
  <1>9. ASSUME NEW h \in Handlers, Reject(h)
        PROVE  Types'
    BY <1>9 DEF Reject, tables, IdleHandler, Statuses
  <1>10. ASSUME NEW h \in Handlers, HandlerCrash(h)
         PROVE  Types'
    BY <1>10 DEF HandlerCrash, tables, IdleHandler, Statuses
  <1>11. ASSUME NEW r \in Readers, NEW o \in Orders, ReadOrder(r, o)
         PROVE  Types'
    BY <1>11 DEF ReadOrder, tables
  <1>12. ASSUME NEW r \in Readers, WriteExpired(r)
         PROVE  Types'
    BY <1>12 DEF WriteExpired, IdleReader, Statuses
  <1>13. ASSUME NEW r \in Readers, ReaderCrash(r)
         PROVE  Types'
    BY <1>13 DEF ReaderCrash, tables, IdleReader
  <1>14. ASSUME NEW e \in EventIds, NEW ev \in Event, Emit(e, ev)
         PROVE  Types'
    BY <1>14 DEF Emit, tables, threads
  <1>15. CASE UNCHANGED vars
    BY <1>15 DEF vars, tables, threads
  <1> QED
    BY <1>1, <1>2, <1>3, <1>4, <1>5, <1>6, <1>7, <1>8, <1>9, <1>10, <1>11,
       <1>12, <1>13, <1>14, <1>15
       DEF Next, CreatorStep, HandlerStep, ReaderStep, ProviderStep

(* Every reachable state is well typed.                                    *)
THEOREM TypeCorrect == Spec => []TypeOK
  <1>1. Types => TypeOK
    BY DEF Types
  <1> QED
    BY <1>1, TypesInit, TypesStep, PTL DEF Spec

-----------------------------------------------------------------------------
(* An order has its columns exactly when it has a row; it is never stored  *)
(* as CREATED; and events, receipts and status polls are about rows.       *)
Rows ==
    /\ \A o \in Orders : status[o] = "ABSENT" <=> info[o] = NoInfo
    /\ \A o \in Orders : status[o] # "CREATED"
    /\ \A e \in EventIds : sent[e] # NoEvent => Exists(sent[e].order)
    /\ \A e \in receipts : sent[e] # NoEvent
    /\ \A e1, e2 \in EventIds :
          /\ sent[e1] # NoEvent
          /\ sent[e2] # NoEvent
          /\ sent[e1].payment = sent[e2].payment
          => sent[e1].order = sent[e2].order
    /\ \A r \in Readers : reader[r].pc = "expire" => Exists(reader[r].order)

LEMMA RowsInit == Init => Rows
  BY DEF Init, Rows, IdleReader

(* The event a busy handler holds, and its fields.                         *)
LEMMA HeldEvent ==
  ASSUME Types, NEW h \in Handlers, handler[h].pc # "idle"
  PROVE  LET ev == sent[handler[h].event]
         IN  /\ handler[h].event \in EventIds
             /\ ev # NoEvent
             /\ ev.order \in Orders
             /\ ev.payment \in Payments
             /\ ev.amount \in Amounts
             /\ ev.status \in {"PAID", "FAILED", "REFUNDED"}
  BY NullsAssumption DEF Types, ThreadsHold, Event

LEMMA RowsStep == Types /\ Rows /\ [Next]_vars => Rows'
  <1> SUFFICES ASSUME Types, Rows, [Next]_vars
               PROVE  Rows'
    OBVIOUS
  <1> USE NullsAssumption DEF Rows, Exists
  <1>1. ASSUME UNCHANGED <<tables, sent, reader>>
        PROVE  Rows'
    BY <1>1 DEF tables
  <1>2. ASSUME NEW c \in Creators, NEW o \in Orders, CreateInsert(c, o)
        PROVE  Rows'
    <2> DEFINE row == [key |-> creator[c].key, request |-> creator[c].request,
                       expiresAt |-> now + Lifetime]
    <2>1. row \in OrderInfo
      BY <1>2, ClockAssumption
         DEF CreateInsert, Types, TypeOK, ThreadsHold, OrderInfo
    <2>2. row # NoInfo
      BY <2>1
    <2>3. /\ status' = [status EXCEPT ![o] = "PENDING"]
          /\ info' = [info EXCEPT ![o] = row]
          /\ UNCHANGED <<receipts, sent, reader>>
      BY <1>2 DEF CreateInsert
    <2> HIDE DEF row
    <2>4. status \in [Orders -> Statuses] /\ DOMAIN info = Orders
      BY DEF Types, TypeOK
    <2> QED
      BY <2>2, <2>3, <2>4
  <1>3. ASSUME NEW h \in Handlers, Process(h)
        PROVE  Rows'
    <2>1. handler[h].pc = "locked"
      BY <1>3 DEF Process
    <2> DEFINE ev == sent[handler[h].event]
    <2>2. /\ handler[h].event \in EventIds /\ ev # NoEvent
          /\ ev.order \in Orders
          /\ ev.status \in {"PAID", "FAILED", "REFUNDED"}
      BY <2>1, HeldEvent
    <2>3. /\ status' = [status EXCEPT ![ev.order] = ev.status]
          /\ receipts' = receipts \cup {handler[h].event}
          /\ UNCHANGED <<info, sent, reader>>
      BY <1>3 DEF Process
    <2>4. status \in [Orders -> Statuses] /\ receipts \subseteq EventIds
      BY DEF Types, TypeOK
    <2>5. Exists(ev.order)
      BY <2>2
    <2> QED
      BY <2>2, <2>3, <2>4, <2>5
  <1>4. ASSUME NEW r \in Readers, NEW o \in Orders, ReadOrder(r, o)
        PROVE  Rows'
    BY <1>4 DEF ReadOrder, tables, Types, TypeOK
  <1>5. ASSUME NEW r \in Readers, WriteExpired(r)
        PROVE  Rows'
    <2>1. /\ reader[r].order \in Orders
          /\ Exists(reader[r].order)
      BY <1>5 DEF WriteExpired, Types, ThreadsHold
    <2>2. /\ status' = [status EXCEPT ![reader[r].order] = "EXPIRED"]
          /\ reader' = [reader EXCEPT ![r] = IdleReader]
          /\ UNCHANGED <<info, receipts, sent>>
      BY <1>5 DEF WriteExpired
    <2>3. DOMAIN status = Orders /\ DOMAIN reader = Readers
      BY DEF Types, TypeOK
    <2> QED
      BY <2>1, <2>2, <2>3 DEF IdleReader
  <1>6. ASSUME NEW r \in Readers, ReaderCrash(r)
        PROVE  Rows'
    BY <1>6 DEF ReaderCrash, tables, IdleReader, Types, TypeOK
  <1>7. ASSUME NEW e \in EventIds, NEW ev \in Event, Emit(e, ev)
        PROVE  Rows'
    <2>1. sent' = [sent EXCEPT ![e] = ev] /\ UNCHANGED <<tables, reader>>
      BY <1>7 DEF Emit, threads
    <2>2. ev # NoEvent /\ DOMAIN sent = EventIds /\ receipts \subseteq EventIds
      BY DEF Types, TypeOK
    <2>3. /\ Exists(ev.order)
          /\ \A x \in EventIds : sent[x] # NoEvent /\ sent[x].payment = ev.payment
                => sent[x].order = ev.order
      BY <1>7 DEF Emit
    <2> QED
      BY <2>1, <2>2, <2>3 DEF tables
  <1> QED
    BY <1>1, <1>2, <1>3, <1>4, <1>5, <1>6, <1>7
       DEF Next, CreatorStep, HandlerStep, ReaderStep, ProviderStep, Tick,
           CreateLock, CreateRollback, Deliver, LockEvent, LockOrder, Reject,
           HandlerCrash, vars, threads

-----------------------------------------------------------------------------
(* The idempotency key: two creations never hold the lock of one key, so a *)
(* key that was looked up and not found is still unused at the insert.     *)
KeyLockExcludes ==
    \A c1, c2 \in Creators :
        /\ creator[c1].pc = "insert"
        /\ creator[c2].pc = "insert"
        /\ creator[c1].key = creator[c2].key
        => c1 = c2

KeysUnique ==
    \A o1, o2 \in Orders :
        Exists(o1) /\ Exists(o2) /\ info[o1].key = info[o2].key => o1 = o2

Keyed == KeyLockExcludes /\ KeysUnique /\ CreationNeverCollides
         /\ IdempotentAnswers

LEMMA KeyedInit == Init => Keyed
  BY DEF Init, Keyed, KeyLockExcludes, KeysUnique, CreationNeverCollides,
         IdempotentAnswers, Exists, IdleCreator

LEMMA KeyedStep == Types /\ Rows /\ Keyed /\ [Next]_vars => Keyed'
  <1> SUFFICES ASSUME Types, Rows, Keyed, [Next]_vars
               PROVE  Keyed'
    OBVIOUS
  <1> USE DEF Keyed, KeyLockExcludes, KeysUnique, CreationNeverCollides,
              IdempotentAnswers, Exists
  <1>a. \A a \in answers : a.order \in Orders
    BY DEF Types, TypeOK
  <1>1. ASSUME UNCHANGED <<info, creator, answers>>,
               \A o \in Orders : Exists(o)' <=> Exists(o)
        PROVE  Keyed'
    BY <1>1, <1>a
  <1>2. ASSUME NEW c \in Creators, NEW k \in Keys, NEW r \in Requests,
               CreateLock(c, k, r)
        PROVE  Keyed'
    <2> DEFINE existing == {o \in Orders : Exists(o) /\ info[o].key = k}
    <2>1. UNCHANGED <<status, info>> /\ KeyLockFree(k)
      BY <1>2 DEF CreateLock, tables
    <2>2. CASE existing = {} /\ UNCHANGED answers
               /\ creator' = [creator EXCEPT ![c] =
                      [pc |-> "insert", key |-> k, request |-> r]]
      <3>1. DOMAIN creator = Creators
        BY DEF Types, TypeOK
      <3> QED
        BY <2>1, <2>2, <3>1 DEF KeyLockFree
    <2>3. ASSUME NEW o \in existing, UNCHANGED creator,
                 answers' = IF info[o].request = r
                            THEN answers \cup
                                 {[key |-> k, request |-> r, order |-> o]}
                            ELSE answers
          PROVE  Keyed'
      BY <2>1, <2>3
    <2> QED
      BY <1>2, <2>2, <2>3 DEF CreateLock
  <1>3. ASSUME NEW c \in Creators, NEW o \in Orders, CreateInsert(c, o)
        PROVE  Keyed'
    <2> DEFINE k == creator[c].key
               row == [key |-> k, request |-> creator[c].request,
                       expiresAt |-> now + Lifetime]
               answer == [key |-> k, request |-> creator[c].request, order |-> o]
    <2>1. /\ creator[c].pc = "insert"
          /\ ~Exists(o)
          /\ \A x \in Orders : Exists(x) => info[x].key # k
          /\ status' = [status EXCEPT ![o] = "PENDING"]
          /\ info' = [info EXCEPT ![o] = row]
          /\ answers' = answers \cup {answer}
          /\ creator' = [creator EXCEPT ![c] = IdleCreator]
      BY <1>3 DEF CreateInsert
    <2>2. DOMAIN status = Orders /\ DOMAIN info = Orders
          /\ DOMAIN creator = Creators
      BY DEF Types, TypeOK
    <2>3. row.key = k /\ row.request = creator[c].request
          /\ answer.key = k /\ answer.request = creator[c].request
          /\ answer.order = o
      OBVIOUS
    <2>4. \A x \in Orders : Exists(x)' <=> x = o \/ Exists(x)
      BY <2>1, <2>2
    <2>5. info'[o] = row /\ \A x \in Orders \ {o} : info'[x] = info[x]
      BY <2>1, <2>2
    <2>6. \A x \in Creators : creator'[x].pc = "insert" =>
             x # c /\ creator'[x] = creator[x]
      BY <2>1, <2>2 DEF IdleCreator
    <2> HIDE DEF row, answer
    <2>7. KeysUnique'
      BY <2>1, <2>3, <2>4, <2>5
    <2>8. KeyLockExcludes'
      BY <2>6
    <2>9. CreationNeverCollides'
      BY <2>1, <2>3, <2>4, <2>5, <2>6
    <2>10. IdempotentAnswers'
      BY <1>a, <2>1, <2>3, <2>4, <2>5
    <2> QED
      BY <2>7, <2>8, <2>9, <2>10
  <1>4. ASSUME NEW c \in Creators, CreateRollback(c)
        PROVE  Keyed'
    BY <1>4 DEF CreateRollback, tables, IdleCreator, Types, TypeOK
  <1>5. ASSUME NEW h \in Handlers, Process(h)
        PROVE  Keyed'
    <2>1. handler[h].pc = "locked"
      BY <1>5 DEF Process
    <2> DEFINE ev == sent[handler[h].event]
    <2>2. /\ handler[h].event \in EventIds /\ ev # NoEvent
          /\ ev.order \in Orders
          /\ ev.status \in {"PAID", "FAILED", "REFUNDED"}
      BY <2>1, HeldEvent
    <2>3. Exists(ev.order) /\ DOMAIN status = Orders
      BY <2>2 DEF Rows, Types, TypeOK
    <2>4. /\ status' = [status EXCEPT ![ev.order] = ev.status]
          /\ UNCHANGED <<info, creator, answers>>
      BY <1>5 DEF Process
    <2>5. \A o \in Orders : Exists(o)' <=> Exists(o)
      BY <2>2, <2>3, <2>4
    <2> QED
      BY <1>1, <2>4, <2>5
  <1>6. ASSUME NEW r \in Readers, WriteExpired(r)
        PROVE  Keyed'
    <2>1. Exists(reader[r].order) /\ DOMAIN status = Orders
      BY <1>6 DEF WriteExpired, Rows, Types, TypeOK
    <2>2. /\ status' = [status EXCEPT ![reader[r].order] = "EXPIRED"]
          /\ UNCHANGED <<info, creator, answers>>
      BY <1>6 DEF WriteExpired
    <2>3. \A o \in Orders : Exists(o)' <=> Exists(o)
      BY <2>1, <2>2
    <2> QED
      BY <1>1, <2>2, <2>3
  <1>7. ASSUME UNCHANGED <<status, info, creator, answers>>
        PROVE  Keyed'
    BY <1>7
  <1> QED
    BY <1>2, <1>3, <1>4, <1>5, <1>6, <1>7
       DEF Next, CreatorStep, HandlerStep, ReaderStep, ProviderStep, Tick,
           Deliver, LockEvent, LockOrder, Reject, HandlerCrash, ReadOrder,
           ReaderCrash, Emit, vars, threads, tables

(* Creation is idempotent per key, for any number of concurrent requests.  *)
THEOREM CreationIdempotent == Spec => []IdempotentAnswers
  <1>1. Init => Types /\ Rows /\ Keyed
    BY TypesInit, RowsInit, KeyedInit
  <1>2. Types /\ Rows /\ Keyed /\ [Next]_vars => (Types /\ Rows /\ Keyed)'
    BY TypesStep, RowsStep, KeyedStep
  <1>3. Types /\ Rows /\ Keyed => IdempotentAnswers
    BY DEF Keyed
  <1> QED
    BY <1>1, <1>2, <1>3, PTL DEF Spec

-----------------------------------------------------------------------------
(* The event lock and the row lock.                                        *)
InEvent(h) == handler[h].pc \in {"checked", "locked"}

Locks ==
    /\ \A h1, h2 \in Handlers :
          InEvent(h1) /\ InEvent(h2) /\ handler[h1].event = handler[h2].event
          => h1 = h2
    /\ \A h \in Handlers : InEvent(h) => handler[h].event \notin receipts
    /\ \A h1, h2 \in Handlers :
          /\ handler[h1].pc = "locked"
          /\ handler[h2].pc = "locked"
          /\ sent[handler[h1].event].order = sent[handler[h2].event].order
          => h1 = h2
    /\ \A h \in Handlers :
          handler[h].pc = "locked" => ValidEvent(sent[handler[h].event])
    /\ LockedReadIsCurrent

LEMMA LocksInit == Init => Locks
  BY DEF Init, Locks, InEvent, LockedReadIsCurrent, IdleHandler

(* A handler that ends lets the others keep what they hold.                *)
LEMMA LocksKept ==
  ASSUME Types, Locks, NEW h \in Handlers,
         handler' = [handler EXCEPT ![h] = IdleHandler],
         UNCHANGED <<tables, sent>>
  PROVE  Locks'
  <1>1. \A x \in Handlers : handler'[x].pc # "idle" =>
           x # h /\ handler'[x] = handler[x]
    BY DEF IdleHandler, Types, TypeOK
  <1> QED
    BY <1>1 DEF Locks, InEvent, LockedReadIsCurrent, ValidEvent, Exists, tables

LEMMA LocksStep == Types /\ Rows /\ Locks /\ [Next]_vars => Locks'
  <1> SUFFICES ASSUME Types, Rows, Locks, [Next]_vars
               PROVE  Locks'
    OBVIOUS
  <1> USE DEF Locks, InEvent, LockedReadIsCurrent
  <1>a. /\ DOMAIN handler = Handlers
        /\ DOMAIN status = Orders
        /\ DOMAIN info = Orders
        /\ receipts \subseteq EventIds
    BY DEF Types, TypeOK
  <1>b. \A h \in Handlers : handler[h].pc = "locked" =>
           /\ sent[handler[h].event].order \in Orders
           /\ Exists(sent[handler[h].event].order)
    BY HeldEvent DEF ValidEvent
  <1>1. ASSUME UNCHANGED <<status, info, receipts, sent, handler>>
        PROVE  Locks'
    BY <1>1 DEF ValidEvent, Exists
  <1>2. ASSUME NEW c \in Creators, NEW o \in Orders, CreateInsert(c, o)
        PROVE  Locks'
    <2>1. /\ ~Exists(o)
          /\ UNCHANGED <<receipts, sent, handler>>
          /\ \A x \in Orders \ {o} : status'[x] = status[x] /\ info'[x] = info[x]
      BY <1>2, <1>a DEF CreateInsert
    <2>2. \A h \in Handlers : handler[h].pc = "locked" =>
             LET x == sent[handler[h].event].order
             IN  status'[x] = status[x] /\ info'[x] = info[x]
      BY <1>b, <2>1
    <2> QED
      BY <2>1, <2>2 DEF ValidEvent, Exists
  <1>3. ASSUME NEW h \in Handlers, NEW e \in EventIds, Deliver(h, e)
        PROVE  Locks'
    <2>1. /\ \A x \in Handlers \ {h} : handler'[x] = handler[x]
          /\ handler'[h].pc = "arrived"
          /\ UNCHANGED <<status, info, receipts, sent>>
      BY <1>3, <1>a DEF Deliver, tables
    <2> QED
      BY <2>1 DEF ValidEvent, Exists
  <1>4. ASSUME NEW h \in Handlers, LockEvent(h)
        PROVE  Locks'
    <2>1. CASE handler[h].event \in receipts
      BY <1>4, <2>1, LocksKept DEF LockEvent
    <2>2. CASE handler[h].event \notin receipts
      <3>1. /\ \A x \in Handlers \ {h} : handler'[x] = handler[x]
            /\ handler'[h].pc = "checked"
            /\ handler'[h].event = handler[h].event
            /\ UNCHANGED <<status, info, receipts, sent>>
        BY <1>4, <2>2, <1>a DEF LockEvent, tables, Types, TypeOK
      <3>2. EventLockFree(handler[h].event)
        BY <1>4 DEF LockEvent
      <3> QED
        BY <2>2, <3>1, <3>2 DEF EventLockFree, ValidEvent, Exists
    <2> QED
      BY <2>1, <2>2
  <1>5. ASSUME NEW h \in Handlers, LockOrder(h)
        PROVE  Locks'
    <2> DEFINE ev == sent[handler[h].event]
    <2>1. CASE ~ValidEvent(ev)
      BY <1>5, <2>1, LocksKept DEF LockOrder
    <2>2. CASE ValidEvent(ev)
      <3>1. /\ handler[h].pc = "checked"
            /\ \A x \in Handlers \ {h} : handler'[x] = handler[x]
            /\ handler'[h].pc = "locked"
            /\ handler'[h].event = handler[h].event
            /\ handler'[h].seen = status[ev.order]
            /\ UNCHANGED <<status, info, receipts, sent>>
        BY <1>5, <2>2, <1>a DEF LockOrder, tables
      <3>2. RowLockFree(ev.order)
        BY <1>5 DEF LockOrder
      <3>3. \A x \in Handlers \ {h} : handler'[x].pc = "locked" =>
               sent'[handler'[x].event].order # ev.order
        BY <3>1, <3>2 DEF RowLockFree
      <3>4. \A h1, h2 \in Handlers :
               /\ handler'[h1].pc = "locked"
               /\ handler'[h2].pc = "locked"
               /\ sent'[handler'[h1].event].order = sent'[handler'[h2].event].order
               => h1 = h2
        BY <3>1, <3>3
      <3>5. \A x \in Handlers : handler'[x].pc = "locked" =>
               /\ ValidEvent(sent[handler'[x].event])
               /\ handler'[x].seen = status[sent[handler'[x].event].order]
        BY <2>2, <3>1
      <3>6. \A x \in Handlers : InEvent(x)' =>
               InEvent(x) /\ handler'[x].event = handler[x].event
        BY <3>1
      <3> QED
        BY <3>1, <3>4, <3>5, <3>6 DEF ValidEvent, Exists
    <2> QED
      BY <2>1, <2>2
  <1>6. ASSUME NEW h \in Handlers, Process(h)
        PROVE  Locks'
    <2> DEFINE ev == sent[handler[h].event]
    <2>1. handler[h].pc = "locked"
      BY <1>6 DEF Process
    <2>2. ev.order \in Orders /\ ev.status # "ABSENT"
      BY <2>1, HeldEvent
    <2>3. /\ receipts' = receipts \cup {handler[h].event}
          /\ UNCHANGED <<info, sent>>
          /\ \A x \in Orders \ {ev.order} : status'[x] = status[x]
          /\ \A x \in Handlers : handler'[x].pc # "idle" =>
                 x # h /\ handler'[x] = handler[x]
      BY <1>6, <1>a DEF Process, IdleHandler
    <2>4. \A x \in Handlers \ {h} : InEvent(x) =>
             handler[x].event # handler[h].event
      BY <2>1
    <2>5. \A x \in Handlers \ {h} : handler[x].pc = "locked" =>
             /\ sent[handler[x].event].order \in Orders \ {ev.order}
             /\ status'[sent[handler[x].event].order] =
                   status[sent[handler[x].event].order]
      BY <1>b, <2>1, <2>3
    <2> QED
      BY <2>3, <2>4, <2>5 DEF ValidEvent, Exists
  <1>7. ASSUME NEW h \in Handlers, Reject(h)
        PROVE  Locks'
    BY <1>7, LocksKept DEF Reject
  <1>8. ASSUME NEW h \in Handlers, HandlerCrash(h)
        PROVE  Locks'
    BY <1>8, LocksKept DEF HandlerCrash
  <1>9. ASSUME NEW r \in Readers, WriteExpired(r)
        PROVE  Locks'
    <2>1. /\ RowLockFree(reader[r].order)
          /\ UNCHANGED <<info, receipts, sent, handler>>
          /\ \A x \in Orders \ {reader[r].order} : status'[x] = status[x]
      BY <1>9, <1>a DEF WriteExpired
    <2>2. \A h \in Handlers : handler[h].pc = "locked" =>
             sent[handler[h].event].order \in Orders \ {reader[r].order}
      BY <1>b, <2>1 DEF RowLockFree
    <2> QED
      BY <2>1, <2>2 DEF ValidEvent, Exists
  <1>10. ASSUME NEW e \in EventIds, NEW ev \in Event, Emit(e, ev)
         PROVE  Locks'
    <2>1. /\ sent[e] = NoEvent
          /\ UNCHANGED <<status, info, receipts, handler>>
          /\ \A x \in EventIds \ {e} : sent'[x] = sent[x]
      BY <1>10 DEF Emit, tables, threads, Types, TypeOK
    <2>2. \A h \in Handlers : handler[h].pc # "idle" =>
             sent'[handler[h].event] = sent[handler[h].event]
      BY <2>1, HeldEvent
    <2> QED
      BY <2>1, <2>2 DEF ValidEvent, Exists
  <1> QED
    BY <1>1, <1>2, <1>3, <1>4, <1>5, <1>6, <1>7, <1>8, <1>9, <1>10
       DEF Next, CreatorStep, HandlerStep, ReaderStep, ProviderStep, Tick,
           CreateLock, CreateRollback, ReadOrder, ReaderCrash, vars, threads,
           tables

-----------------------------------------------------------------------------
(* Transactions, coverage, status and receipts agree.                      *)
TxnRows ==
    /\ \A p \in Payments : txn[p].status = "NONE" <=> txn[p].order = NoOrder
    /\ \A p \in Payments : txn[p].order # NoOrder =>
          \E e \in EventIds : /\ sent[e] # NoEvent
                              /\ sent[e].payment = p
                              /\ sent[e].order = txn[p].order

OneTxnPerOrder ==
    \A p, q \in Payments :
        txn[p].order # NoOrder /\ txn[p].order = txn[q].order => p = q

TxnMatchesCoverage ==
    /\ \A p \in Payments :
          /\ txn[p].status = "CAPTURED" => coverage[txn[p].order] = "ACTIVE"
          /\ txn[p].status = "REFUNDED" => coverage[txn[p].order] = "REVOKED"
    /\ \A o \in Orders : coverage[o] # "NONE" =>
          \E p \in Payments : txn[p].order = o

OneActivePerWeek ==
    \A o1, o2 \in Orders :
        coverage[o1] = "ACTIVE" /\ coverage[o2] = "ACTIVE" /\ SameWeek(o1, o2)
        => o1 = o2

Money == /\ TxnRows
         /\ OneTxnPerOrder
         /\ TxnMatchesCoverage
         /\ OneActivePerWeek
         /\ StatusAgreesWithCoverage
         /\ ReceiptsMatchEffects

LEMMA MoneyInit == Init => Money
  BY DEF Init, Money, TxnRows, OneTxnPerOrder, TxnMatchesCoverage,
         OneActivePerWeek, StatusAgreesWithCoverage, ReceiptsMatchEffects

(* What a handler may rely on when it commits.                             *)
LEMMA AtCommit ==
  ASSUME Types, Locks, NEW h \in Handlers, Process(h)
  PROVE  LET e  == handler[h].event
             ev == sent[e]
         IN  /\ e \in EventIds \ receipts
             /\ ev # NoEvent
             /\ ev.order \in Orders
             /\ ev.payment \in Payments
             /\ Exists(ev.order)
             /\ info[ev.order].request.amount = ev.amount
             /\ status' = [status EXCEPT ![ev.order] = ev.status]
             /\ receipts' = receipts \cup {e}
             /\ UNCHANGED <<info, sent>>
             /\ \/ CanCapture(ev, status[ev.order]) /\ Capture(ev)
                \/ /\ CanFail(ev, status[ev.order])
                   /\ UNCHANGED <<txn, coverage, outbox>>
                \/ CanRefund(ev, status[ev.order]) /\ Refund(ev)
  <1>1. handler[h].pc = "locked"
    BY DEF Process
  <1>2. /\ handler[h].event \notin receipts
        /\ ValidEvent(sent[handler[h].event])
        /\ handler[h].seen = status[sent[handler[h].event].order]
    BY <1>1 DEF Locks, InEvent, LockedReadIsCurrent
  <1> QED
    BY <1>1, <1>2, HeldEvent DEF Process, ValidEvent

(* A captured payment belongs to the order its events name.                *)
LEMMA PaymentOfOrder ==
  ASSUME Types, Rows, Money, NEW e \in EventIds, sent[e] # NoEvent,
         sent[e].payment \in Payments, txn[sent[e].payment].status # "NONE"
  PROVE  txn[sent[e].payment].order = sent[e].order
  BY DEF Rows, Money, TxnRows

LEMMA MoneyStep == Types /\ Rows /\ Locks /\ Money /\ [Next]_vars => Money'
  <1> SUFFICES ASSUME Types, Rows, Locks, Money, [Next]_vars
               PROVE  Money'
    OBVIOUS
  <1> USE DEF Money, TxnRows, OneTxnPerOrder, TxnMatchesCoverage,
              OneActivePerWeek, StatusAgreesWithCoverage, ReceiptsMatchEffects
  <1>a. /\ receipts \subseteq EventIds
        /\ status \in [Orders -> Statuses]
        /\ coverage \in [Orders -> {"NONE", "ACTIVE", "REVOKED"}]
        /\ txn \in [Payments -> [order : Orders \cup {NoOrder},
                                 status : {"NONE", "CAPTURED", "REFUNDED"}]]
        /\ DOMAIN info = Orders
        /\ DOMAIN sent = EventIds
    BY DEF Types, TypeOK
  <1>b. \A e \in EventIds : sent[e] # NoEvent =>
           /\ sent[e].order \in Orders
           /\ sent[e].payment \in Payments
           /\ Exists(sent[e].order)
    BY DEF Types, TypeOK, Event, Rows
  <1>c. \A e \in receipts : sent[e] # NoEvent
    BY DEF Rows
  <1>d. \A q \in Payments : /\ txn[q].order \in Orders \cup {NoOrder}
                            /\ txn[q].status \in {"NONE", "CAPTURED", "REFUNDED"}
    BY <1>a
  <1>e. NoOrder \notin Orders
    BY NullsAssumption
  <1>1. ASSUME UNCHANGED <<status, info, txn, coverage, receipts, sent>>
        PROVE  Money'
    BY <1>1 DEF SameWeek
  <1>2. ASSUME NEW c \in Creators, NEW o \in Orders, CreateInsert(c, o)
        PROVE  Money'
    <2>1. /\ ~Exists(o)
          /\ UNCHANGED <<txn, coverage, receipts, sent>>
          /\ status' = [status EXCEPT ![o] = "PENDING"]
          /\ \A x \in Orders \ {o} : info'[x] = info[x]
      BY <1>2, <1>a DEF CreateInsert
    <2>2. coverage[o] = "NONE"
      BY <2>1 DEF Exists
    <2>3. \A e \in receipts : sent[e].order \in Orders \ {o}
      BY <1>a, <1>b, <1>c, <2>1
    <2>4. OneActivePerWeek'
      BY <2>1, <2>2 DEF SameWeek
    <2>5. ReceiptsMatchEffects'
      BY <1>a, <2>1, <2>3
    <2> QED
      BY <1>a, <2>1, <2>2, <2>4, <2>5
  <1>3. ASSUME NEW h \in Handlers, Process(h)
        PROVE  Money'
    <2> DEFINE e  == handler[h].event
               ev == sent[e]
               o  == ev.order
               p  == ev.payment
    <2>1. /\ e \in EventIds \ receipts /\ ev # NoEvent
          /\ o \in Orders /\ p \in Payments
          /\ Exists(o)
          /\ info[o].request.amount = ev.amount
          /\ status' = [status EXCEPT ![o] = ev.status]
          /\ receipts' = receipts \cup {e}
          /\ UNCHANGED <<info, sent>>
      BY <1>3, AtCommit
    <2>2. CASE CanCapture(ev, status[o]) /\ Capture(ev)
      <3>1. /\ ev.status = "PAID"
            /\ status[o] \in {"PENDING", "PAID"}
            /\ txn[p].status = "NONE"
            /\ coverage[o] = "NONE"
            /\ \A x \in Orders : coverage[x] = "ACTIVE" => ~SameWeek(x, o)
            /\ txn' = [txn EXCEPT ![p] = [order |-> o, status |-> "CAPTURED"]]
            /\ coverage' = [coverage EXCEPT ![o] = "ACTIVE"]
        BY <2>2 DEF CanCapture, Capture, Accepts
      <3> HIDE DEF e, ev, o, p
      <3>2. /\ txn[p].order = NoOrder
            /\ \A q \in Payments : txn[q].order # o
        BY <1>d, <1>e, <2>1, <3>1
      <3>3. /\ txn'[p].order = o /\ txn'[p].status = "CAPTURED"
            /\ \A q \in Payments \ {p} : txn'[q] = txn[q]
            /\ coverage'[o] = "ACTIVE"
            /\ \A x \in Orders \ {o} : coverage'[x] = coverage[x]
            /\ status'[o] = "PAID"
            /\ \A x \in Orders \ {o} : status'[x] = status[x]
        BY <1>a, <2>1, <3>1
      <3>4. TxnRows'
        <4>1. sent[e].payment = p /\ sent[e].order = o /\ sent[e] # NoEvent
          BY <2>1 DEF ev, o, p
        <4> QED
          BY <2>1, <3>2, <3>3, <4>1, NullsAssumption
      <3>5. OneTxnPerOrder'
        BY <3>2, <3>3
      <3>6. TxnMatchesCoverage'
        <4>1. \A q \in Payments \ {p} :
                 /\ txn'[q].status = txn[q].status
                 /\ txn'[q].order = txn[q].order
                 /\ txn[q].order # o
          BY <3>2, <3>3
        <4>2. \A q \in Payments :
                 /\ txn'[q].status = "CAPTURED" => coverage'[txn'[q].order] = "ACTIVE"
                 /\ txn'[q].status = "REFUNDED" => coverage'[txn'[q].order] = "REVOKED"
          <5>1. \A q \in Payments : txn[q].status # "NONE" => txn[q].order \in Orders
            BY <1>d
          <5> QED
            BY <3>3, <4>1, <5>1
        <4>3. \A x \in Orders : coverage'[x] # "NONE" =>
                 \E q \in Payments : txn'[q].order = x
          BY <2>1, <3>2, <3>3, <4>1, <1>e
        <4> QED
          BY <4>2, <4>3
      <3>7. OneActivePerWeek'
        BY <2>1, <3>1, <3>3 DEF SameWeek
      <3>8. StatusAgreesWithCoverage'
        BY <3>3
      <3>9. ReceiptsMatchEffects'
        <4>1. ASSUME NEW x \in receipts
              PROVE  LET xv == sent[x]
                     IN  /\ xv.amount = info[xv.order].request.amount
                         /\ xv.status = "PAID" => txn'[xv.payment].order = xv.order
                         /\ xv.status = "REFUNDED" => coverage'[xv.order] = "REVOKED"
                         /\ xv.status = "FAILED" =>
                               /\ coverage'[xv.order] = "NONE"
                               /\ status'[xv.order] \in {"FAILED", "EXPIRED"}
          <5>1. sent[x].order \in Orders /\ sent[x].payment \in Payments
            BY <1>a, <1>b, <1>c
          <5>2. sent[x].status = "PAID" => sent[x].payment # p
            BY <5>1, <3>2, NullsAssumption
          <5>3. sent[x].status \in {"REFUNDED", "FAILED"} => sent[x].order # o
            BY <5>1, <3>1
          <5> QED
            BY <3>3, <5>1, <5>2, <5>3
        <4>2. /\ sent[e].amount = info[o].request.amount
              /\ sent[e].order = o /\ sent[e].payment = p
              /\ sent[e].status = "PAID"
          BY <2>1, <3>1 DEF ev, o, p
        <4> QED
          BY <2>1, <3>3, <4>1, <4>2
      <3> QED
        BY <3>4, <3>5, <3>6, <3>7, <3>8, <3>9
    <2>3. CASE CanFail(ev, status[o]) /\ UNCHANGED <<txn, coverage, outbox>>
      <3>1. /\ ev.status = "FAILED"
            /\ status[o] \in {"CREATED", "PENDING", "FAILED"}
            /\ UNCHANGED <<txn, coverage>>
        BY <2>3 DEF CanFail, Accepts
      <3>2. coverage[o] = "NONE"
        BY <2>1, <3>1
      <3>3. /\ status'[o] = "FAILED"
            /\ \A x \in Orders \ {o} : status'[x] = status[x]
        BY <1>a, <2>1, <3>1
      <3>4. StatusAgreesWithCoverage'
        BY <3>1, <3>2, <3>3
      <3>5. ReceiptsMatchEffects'
        BY <2>1, <3>1, <3>2, <3>3
      <3>6. OneActivePerWeek'
        BY <2>1, <3>1 DEF SameWeek
      <3>7. TxnRows' /\ OneTxnPerOrder' /\ TxnMatchesCoverage'
        BY <2>1, <3>1
      <3> QED
        BY <3>4, <3>5, <3>6, <3>7
    <2>4. CASE CanRefund(ev, status[o]) /\ Refund(ev)
      <3>1. /\ ev.status = "REFUNDED"
            /\ txn[p].status # "NONE"
            /\ coverage[o] # "NONE"
            /\ txn' = [txn EXCEPT ![p] =
                          [order |-> txn[p].order, status |-> "REFUNDED"]]
            /\ coverage' = [coverage EXCEPT ![o] = "REVOKED"]
        BY <2>4 DEF CanRefund, Refund
      <3>2. txn[p].order = o
        BY <2>1, <3>1, PaymentOfOrder
      <3> HIDE DEF e, ev, o, p
      <3>3. /\ txn'[p].order = o /\ txn'[p].status = "REFUNDED"
            /\ \A q \in Payments \ {p} : txn'[q] = txn[q] /\ txn[q].order # o
            /\ coverage'[o] = "REVOKED"
            /\ \A x \in Orders \ {o} : coverage'[x] = coverage[x]
            /\ status'[o] = "REFUNDED"
            /\ \A x \in Orders \ {o} : status'[x] = status[x]
        BY <1>a, <1>e, <2>1, <3>1, <3>2
      <3>4. \A q \in Payments : txn'[q].order = txn[q].order
        BY <3>2, <3>3
      <3>5. TxnRows'
        BY <2>1, <3>1, <3>3, <3>4
      <3>6. OneTxnPerOrder'
        BY <3>4
      <3>7. TxnMatchesCoverage'
        BY <1>a, <3>1, <3>3, <3>4, NullsAssumption
      <3>8. OneActivePerWeek'
        BY <2>1, <3>3 DEF SameWeek
      <3>9. StatusAgreesWithCoverage'
        BY <3>3
      <3>10. ReceiptsMatchEffects'
        <4>1. /\ sent[e].amount = info[o].request.amount
              /\ sent[e].order = o /\ sent[e].payment = p
              /\ sent[e].status = "REFUNDED"
          BY <2>1, <3>1 DEF ev, o, p
        <4>2. \A x \in receipts :
                 sent[x].order \in Orders /\ sent[x].payment \in Payments
          BY <1>a, <1>b, <1>c
        <4>3. \A x \in receipts : sent[x].status = "FAILED" => sent[x].order # o
          BY <3>1
        <4> QED
          BY <2>1, <3>3, <3>4, <4>1, <4>2, <4>3
      <3> QED
        BY <3>5, <3>6, <3>7, <3>8, <3>9, <3>10
    <2> QED
      BY <1>3, <2>2, <2>3, <2>4, AtCommit
  <1>4. ASSUME NEW r \in Readers, WriteExpired(r)
        PROVE  Money'
    <2>1. /\ UNCHANGED <<info, txn, coverage, receipts, sent>>
          /\ status' = [status EXCEPT ![reader[r].order] = "EXPIRED"]
      BY <1>4 DEF WriteExpired
    <2>2. \A o \in Orders : status'[o] \in {status[o], "EXPIRED"}
      BY <1>a, <2>1
    <2>3. \A e \in receipts : sent[e].order \in Orders
      BY <1>a, <1>b, <1>c
    <2>4. StatusAgreesWithCoverage'
      BY <2>1, <2>2
    <2>5. ReceiptsMatchEffects'
      BY <2>1, <2>2, <2>3
    <2> QED
      BY <2>1, <2>4, <2>5 DEF SameWeek
  <1>5. ASSUME NEW e \in EventIds, NEW ev \in Event, Emit(e, ev)
        PROVE  Money'
    <2>1. /\ sent[e] = NoEvent
          /\ UNCHANGED <<status, info, txn, coverage, receipts>>
          /\ \A x \in EventIds \ {e} : sent'[x] = sent[x]
      BY <1>5, <1>a DEF Emit, tables
    <2>2. \A x \in EventIds : sent[x] # NoEvent => sent'[x] = sent[x]
      BY <2>1
    <2>3. ReceiptsMatchEffects'
      BY <1>a, <1>c, <2>1, <2>2
    <2>4. TxnRows'
      BY <2>1, <2>2
    <2> QED
      BY <2>1, <2>3, <2>4 DEF SameWeek
  <1> QED
    BY <1>1, <1>2, <1>3, <1>4, <1>5
       DEF Next, CreatorStep, HandlerStep, ReaderStep, ProviderStep, Tick,
           CreateLock, CreateRollback, Deliver, LockEvent, LockOrder, Reject,
           HandlerCrash, ReadOrder, ReaderCrash, vars, threads, tables

-----------------------------------------------------------------------------
Inv == Types /\ Rows /\ Keyed /\ Locks /\ Money

LEMMA InvInit == Init => Inv
  BY TypesInit, RowsInit, KeyedInit, LocksInit, MoneyInit DEF Inv

LEMMA InvStep == Inv /\ [Next]_vars => Inv'
  BY TypesStep, RowsStep, KeyedStep, LocksStep, MoneyStep DEF Inv

(* The inductive invariant of the service.                                 *)
THEOREM Invariance == Spec => []Inv
  BY InvInit, InvStep, PTL DEF Spec

(* Money and coverage agree in every reachable state.                      *)
LEMMA InvMoney == Inv => MoneyBacksCoverage
  <1> SUFFICES ASSUME Inv, NEW o \in Orders
               PROVE  IF coverage[o] = "NONE"
                      THEN CapturesOf(o) = {}
                      ELSE \E p \in Payments :
                             /\ CapturesOf(o) = {p}
                             /\ txn[p].status = IF coverage[o] = "ACTIVE"
                                                THEN "CAPTURED" ELSE "REFUNDED"
    BY DEF MoneyBacksCoverage
  <1>1. \A p \in Payments : txn[p].order = o =>
           \/ txn[p].status = "CAPTURED" /\ coverage[o] = "ACTIVE"
           \/ txn[p].status = "REFUNDED" /\ coverage[o] = "REVOKED"
    BY NullsAssumption
       DEF Inv, Types, TypeOK, Money, TxnRows, TxnMatchesCoverage
  <1>2. CASE coverage[o] = "NONE"
    BY <1>1, <1>2 DEF CapturesOf
  <1>3. CASE coverage[o] # "NONE"
    <2>1. PICK p \in Payments : txn[p].order = o
      BY <1>3 DEF Inv, Money, TxnMatchesCoverage
    <2>2. CapturesOf(o) = {p}
      BY <2>1, NullsAssumption DEF CapturesOf, Inv, Money, OneTxnPerOrder
    <2> QED
      BY <1>1, <1>3, <2>1, <2>2
  <1> QED
    BY <1>2, <1>3

THEOREM MoneyCorrect == Spec => []MoneyBacksCoverage
  BY Invariance, InvMoney, PTL

(* The status of an order never contradicts its coverage.                  *)
THEOREM StatusCorrect == Spec => []StatusAgreesWithCoverage
  <1>1. Inv => StatusAgreesWithCoverage
    BY DEF Inv, Money
  <1> QED
    BY <1>1, Invariance, PTL

(* A receipt is kept exactly with the effect of its event.                 *)
THEOREM ReceiptsCorrect == Spec => []ReceiptsMatchEffects
  <1>1. Inv => ReceiptsMatchEffects
    BY DEF Inv, Money
  <1> QED
    BY <1>1, Invariance, PTL

(* What a webhook reads under the row lock holds until it commits.         *)
THEOREM LockedReadCorrect == Spec => []LockedReadIsCurrent
  <1>1. Inv => LockedReadIsCurrent
    BY DEF Inv, Locks
  <1> QED
    BY <1>1, Invariance, PTL

(* A creation that found no order for its key finds none when it inserts.  *)
THEOREM CreationNeverFails == Spec => []CreationNeverCollides
  <1>1. Inv => CreationNeverCollides
    BY DEF Inv, Keyed
  <1> QED
    BY <1>1, Invariance, PTL

-----------------------------------------------------------------------------
(* The outbox counts receipts, of which there are finitely many: each      *)
(* commit adds one to the set of its order and status and to no other.     *)
Announced == IsFiniteSet(receipts) /\ OutboxMatchesReceipts

LEMMA AnnouncedInit == Init => Announced
  <1> SUFFICES ASSUME Init
               PROVE  Announced
    OBVIOUS
  <1>1. \A o \in Orders : ReceiptsOf(o, "PAID") = {} /\ ReceiptsOf(o, "REFUNDED") = {}
    BY DEF Init, ReceiptsOf
  <1> QED
    BY <1>1, FS_EmptySet DEF Init, Announced, OutboxMatchesReceipts

LEMMA ReceiptAdded ==
  ASSUME IsFiniteSet(receipts), NEW e \in EventIds \ receipts,
         receipts' = receipts \cup {e}, UNCHANGED sent,
         NEW o \in Orders, NEW st
  PROVE  /\ Cardinality(ReceiptsOf(o, st)) \in Nat
         /\ Cardinality(ReceiptsOf(o, st)') =
               IF sent[e].order = o /\ sent[e].status = st
               THEN Cardinality(ReceiptsOf(o, st)) + 1
               ELSE Cardinality(ReceiptsOf(o, st))
  <1>1. IsFiniteSet(ReceiptsOf(o, st))
    <2>1. ReceiptsOf(o, st) \subseteq receipts
      BY DEF ReceiptsOf
    <2> QED
      BY <2>1, FS_Subset
  <1>2. Cardinality(ReceiptsOf(o, st)) \in Nat
    BY <1>1, FS_CardinalityType
  <1>3. CASE sent[e].order = o /\ sent[e].status = st
    <2>1. ReceiptsOf(o, st)' = ReceiptsOf(o, st) \cup {e} /\ e \notin ReceiptsOf(o, st)
      BY <1>3 DEF ReceiptsOf
    <2>2. Cardinality(ReceiptsOf(o, st) \cup {e}) = Cardinality(ReceiptsOf(o, st)) + 1
      BY <1>1, <2>1, FS_AddElement
    <2>3. Cardinality(ReceiptsOf(o, st)') = Cardinality(ReceiptsOf(o, st)) + 1
      BY <2>1, <2>2
    <2> QED
      BY <1>2, <1>3, <2>3
  <1>4. CASE ~(sent[e].order = o /\ sent[e].status = st)
    <2>1. ReceiptsOf(o, st)' = ReceiptsOf(o, st)
      BY <1>4 DEF ReceiptsOf
    <2> QED
      BY <1>2, <1>4, <2>1
  <1> QED
    BY <1>3, <1>4

LEMMA AnnouncedStep == Inv /\ Announced /\ [Next]_vars => Announced'
  <1> SUFFICES ASSUME Inv, Announced, [Next]_vars
               PROVE  Announced'
    OBVIOUS
  <1>a. /\ DOMAIN coverage = Orders /\ DOMAIN sent = EventIds
        /\ outbox \in [Orders -> [activated : Nat, revoked : Nat]]
        /\ receipts \subseteq EventIds
    BY DEF Inv, Types, TypeOK
  <1>1. ASSUME UNCHANGED <<coverage, outbox, receipts>>,
               \A e \in receipts : sent'[e] = sent[e]
        PROVE  Announced'
    <2>1. \A o \in Orders : /\ ReceiptsOf(o, "PAID")' = ReceiptsOf(o, "PAID")
                            /\ ReceiptsOf(o, "REFUNDED")' = ReceiptsOf(o, "REFUNDED")
      BY <1>1 DEF ReceiptsOf
    <2> QED
      BY <1>1, <2>1 DEF Announced, OutboxMatchesReceipts
  <1>2. ASSUME NEW h \in Handlers, Process(h)
        PROVE  Announced'
    <2>1. PICK e \in EventIds \ receipts :
             LET ev == sent[e]
             IN  /\ ev.order \in Orders
                 /\ receipts' = receipts \cup {e}
                 /\ UNCHANGED <<info, sent>>
                 /\ \/ CanCapture(ev, status[ev.order]) /\ Capture(ev)
                    \/ /\ CanFail(ev, status[ev.order])
                       /\ UNCHANGED <<txn, coverage, outbox>>
                    \/ CanRefund(ev, status[ev.order]) /\ Refund(ev)
      BY <1>2, AtCommit DEF Inv
    <2>2. IsFiniteSet(receipts')
      BY <2>1, FS_AddElement DEF Announced
    <2>3. ASSUME NEW o \in Orders, NEW st \in {"PAID", "REFUNDED"}
          PROVE  /\ Cardinality(ReceiptsOf(o, st)) \in Nat
                 /\ Cardinality(ReceiptsOf(o, st)') =
                       IF sent[e].order = o /\ sent[e].status = st
                       THEN Cardinality(ReceiptsOf(o, st)) + 1
                       ELSE Cardinality(ReceiptsOf(o, st))
      BY <2>1, ReceiptAdded DEF Announced
    <2>4. ASSUME NEW o \in Orders
          PROVE  /\ outbox'[o].activated = Cardinality(ReceiptsOf(o, "PAID")')
                 /\ outbox'[o].activated = IF coverage'[o] = "NONE" THEN 0 ELSE 1
                 /\ outbox'[o].revoked = Cardinality(ReceiptsOf(o, "REFUNDED")')
      <3>1. /\ outbox[o].activated = Cardinality(ReceiptsOf(o, "PAID"))
            /\ outbox[o].activated = IF coverage[o] = "NONE" THEN 0 ELSE 1
            /\ outbox[o].revoked = Cardinality(ReceiptsOf(o, "REFUNDED"))
        BY DEF Announced, OutboxMatchesReceipts
      <3>2. CASE CanCapture(sent[e], status[sent[e].order]) /\ Capture(sent[e])
        BY <1>a, <2>1, <2>3, <3>1, <3>2 DEF CanCapture, Capture
      <3>3. CASE CanFail(sent[e], status[sent[e].order]) /\ UNCHANGED <<coverage, outbox>>
        BY <2>1, <2>3, <3>1, <3>3 DEF CanFail
      <3>4. CASE CanRefund(sent[e], status[sent[e].order]) /\ Refund(sent[e])
        BY <1>a, <2>1, <2>3, <3>1, <3>4 DEF CanRefund, Refund
      <3> QED
        BY <2>1, <3>2, <3>3, <3>4
    <2> QED
      BY <2>2, <2>4 DEF Announced, OutboxMatchesReceipts
  <1>3. ASSUME NEW e \in EventIds, NEW ev \in Event, Emit(e, ev)
        PROVE  Announced'
    <2>1. /\ e \notin receipts
          /\ sent' = [sent EXCEPT ![e] = ev]
          /\ UNCHANGED <<coverage, outbox, receipts>>
      BY <1>3 DEF Emit, tables, Inv, Rows
    <2>2. \A x \in receipts : sent'[x] = sent[x]
      BY <1>a, <2>1
    <2> QED
      BY <1>1, <2>1, <2>2
  <1> QED
    BY <1>1, <1>2, <1>3
       DEF Next, CreatorStep, HandlerStep, ReaderStep, ProviderStep, Tick,
           CreateLock, CreateInsert, CreateRollback, Deliver, LockEvent,
           LockOrder, Reject, HandlerCrash, ReadOrder, WriteExpired,
           ReaderCrash, vars, tables

(* Every receipted payment and refund is announced once, and nothing else. *)
THEOREM AnnouncementsMatch == Spec => []OutboxMatchesReceipts
  <1>1. Announced => OutboxMatchesReceipts
    BY DEF Announced
  <1> QED
    BY <1>1, AnnouncedInit, AnnouncedStep, Invariance, PTL DEF Spec

-----------------------------------------------------------------------------
(* Two Mondays whose weeks share a day are the same Monday.                *)
LEMMA MondaysApart ==
  ASSUME NEW a \in Nat, NEW b \in Nat, NEW day \in Int,
         a % 7 = 0, b % 7 = 0,
         a <= day, day <= a + 6, b <= day, day <= b + 6
  PROVE  a = b
  BY SMT

(* At most one period answers a coverage query for a worker and a day.     *)
LEMMA InvUnambiguous == Inv => CoverageUnambiguous
  <1> SUFFICES ASSUME Inv, NEW day \in Days, NEW o1 \in Orders, NEW o2 \in Orders,
                      NEW w \in {r.worker : r \in Requests},
                      Covers(o1, w, day), Covers(o2, w, day)
               PROVE  o1 = o2
    BY DEF CoverageUnambiguous
  <1>1. \A o \in Orders : coverage[o] = "ACTIVE" => info[o].request \in Requests
    BY DEF Inv, Types, TypeOK, Rows, Money, StatusAgreesWithCoverage, OrderInfo
  <1>2. info[o1].request \in Requests /\ info[o2].request \in Requests
    BY <1>1 DEF Covers
  <1>3. \A r \in Requests : r.week \in Nat /\ r.week % 7 = 0
    BY RequestsAssumption DEF RequestType
  <1>4. day \in Int
    BY <1>3 DEF Days
  <1>5. info[o1].request.week = info[o2].request.week
    BY <1>2, <1>3, <1>4, MondaysApart DEF Covers
  <1> QED
    BY <1>5 DEF Covers, SameWeek, Inv, Money, OneActivePerWeek

THEOREM CoverageCorrect == Spec => []CoverageUnambiguous
  BY Invariance, InvUnambiguous, PTL

-----------------------------------------------------------------------------
(* What a step can do to the money tables: nothing, or, at the commit of a *)
(* webhook, Capture, Refund or nothing, with the receipt of its event.     *)
LEMMA MoneySteps ==
  ASSUME Inv, [Next]_vars
  PROVE  \/ UNCHANGED <<txn, coverage, outbox>>
         \/ \E e \in EventIds \ receipts :
              LET ev == sent[e]
              IN  /\ ev # NoEvent
                  /\ ev.order \in Orders
                  /\ ev.payment \in Payments
                  /\ Exists(ev.order)
                  /\ receipts' = receipts \cup {e}
                  /\ status' = [status EXCEPT ![ev.order] = ev.status]
                  /\ UNCHANGED <<info, sent>>
                  /\ \/ CanCapture(ev, status[ev.order]) /\ Capture(ev)
                     \/ CanRefund(ev, status[ev.order]) /\ Refund(ev)
  <1>1. ASSUME NEW h \in Handlers, Process(h)
        PROVE  \/ UNCHANGED <<txn, coverage, outbox>>
               \/ \E e \in EventIds \ receipts :
                    LET ev == sent[e]
                    IN  /\ ev # NoEvent
                        /\ ev.order \in Orders
                        /\ ev.payment \in Payments
                        /\ Exists(ev.order)
                        /\ receipts' = receipts \cup {e}
                        /\ status' = [status EXCEPT ![ev.order] = ev.status]
                        /\ UNCHANGED <<info, sent>>
                        /\ \/ CanCapture(ev, status[ev.order]) /\ Capture(ev)
                           \/ CanRefund(ev, status[ev.order]) /\ Refund(ev)
    BY <1>1, AtCommit DEF Inv
  <1> QED
    BY <1>1
       DEF Next, CreatorStep, HandlerStep, ReaderStep, ProviderStep, Tick,
           CreateLock, CreateInsert, CreateRollback, Deliver, LockEvent,
           LockOrder, Reject, HandlerCrash, ReadOrder, WriteExpired,
           ReaderCrash, Emit, vars, tables

(* Money, coverage and announcements move only with a new receipt, and     *)
(* only for the order of its event.                                        *)
THEOREM OnlyReceipted == Spec => OnlyReceiptedEventsMoveMoney
  <1>1. ASSUME Inv, [Next]_vars,
               <<txn, coverage, outbox>>' # <<txn, coverage, outbox>>
        PROVE  \E e \in EventIds \ receipts :
                 /\ receipts' = receipts \cup {e}
                 /\ \A o \in Orders \ {sent[e].order} :
                      /\ coverage'[o] = coverage[o]
                      /\ outbox'[o] = outbox[o]
                 /\ \A p \in Payments : txn'[p] # txn[p] =>
                      txn'[p].order = sent[e].order
    <2>1. PICK e \in EventIds \ receipts :
             LET ev == sent[e]
             IN  /\ ev # NoEvent
                 /\ ev.order \in Orders
                 /\ ev.payment \in Payments
                 /\ receipts' = receipts \cup {e}
                 /\ \/ CanCapture(ev, status[ev.order]) /\ Capture(ev)
                    \/ CanRefund(ev, status[ev.order]) /\ Refund(ev)
      BY <1>1, MoneySteps
    <2>2. /\ DOMAIN coverage = Orders /\ DOMAIN outbox = Orders
          /\ DOMAIN txn = Payments
      BY <1>1 DEF Inv, Types, TypeOK
    <2>3. CASE Capture(sent[e])
      BY <2>1, <2>2, <2>3 DEF Capture
    <2>4. CASE CanRefund(sent[e], status[sent[e].order]) /\ Refund(sent[e])
      <3>1. txn[sent[e].payment].order = sent[e].order
        BY <1>1, <2>1, <2>4, PaymentOfOrder DEF CanRefund, Inv
      <3> QED
        BY <2>1, <2>2, <2>4, <3>1 DEF Refund
    <2> QED
      BY <2>1, <2>3, <2>4
  <1>2. Inv /\ [Next]_vars =>
        [ <<txn, coverage, outbox>>' # <<txn, coverage, outbox>> =>
            \E e \in EventIds \ receipts :
                /\ receipts' = receipts \cup {e}
                /\ \A o \in Orders \ {sent[e].order} :
                     /\ coverage'[o] = coverage[o]
                     /\ outbox'[o] = outbox[o]
                /\ \A p \in Payments : txn'[p] # txn[p] =>
                     txn'[p].order = sent[e].order ]_vars
    BY <1>1
  <1> QED
    BY <1>2, Invariance, PTL DEF Spec, OnlyReceiptedEventsMoveMoney

(* Revoked coverage stays revoked, and coverage never vanishes.            *)
THEOREM RevocationFinal == Spec => RevocationIsFinal
  <1>1. ASSUME Inv, [Next]_vars, NEW o \in Orders
        PROVE  /\ coverage[o] = "REVOKED" => coverage'[o] = "REVOKED"
               /\ coverage[o] = "ACTIVE" => coverage'[o] # "NONE"
    <2>1. DOMAIN coverage = Orders
      BY <1>1 DEF Inv, Types, TypeOK
    <2> QED
      BY <1>1, <2>1, MoneySteps DEF Capture, CanCapture, Refund
  <1>2. Inv /\ [Next]_vars =>
        [ \A o \in Orders :
            /\ coverage[o] = "REVOKED" => coverage'[o] = "REVOKED"
            /\ coverage[o] = "ACTIVE" => coverage'[o] # "NONE" ]_vars
    BY <1>1
  <1> QED
    BY <1>2, Invariance, PTL DEF Spec, RevocationIsFinal

-----------------------------------------------------------------------------
(* Every status a webhook or a creation writes is one the design's table   *)
(* allows after the status that was there: the row lock keeps what the     *)
(* mark method looked at true until the commit.                            *)
OnTheTable(o) == <<status[o], status'[o]>> \in AllowedTransitions
WrittenByPoll(o) ==
    /\ status'[o] = "EXPIRED"
    /\ \E r \in Readers : reader[r].pc = "expire" /\ reader[r].order = o

LEMMA StatusSteps ==
  ASSUME Inv, [Next]_vars, NEW o \in Orders, status'[o] # status[o]
  PROVE  OnTheTable(o) \/ WrittenByPoll(o)
  <1>t. status \in [Orders -> Statuses]
    BY DEF Inv, Types, TypeOK
  <1>1. ASSUME NEW c \in Creators, NEW x \in Orders, CreateInsert(c, x)
        PROVE  OnTheTable(o)
    <2>1. status' = [status EXCEPT ![x] = "PENDING"] /\ status[x] = "ABSENT"
      BY <1>1 DEF CreateInsert, Exists
    <2> QED
      BY <2>1, <1>t DEF OnTheTable, AllowedTransitions
  <1>2. ASSUME NEW h \in Handlers, Process(h)
        PROVE  OnTheTable(o)
    <2> DEFINE ev == sent[handler[h].event]
    <2>1. handler[h].pc = "locked"
      BY <1>2 DEF Process
    <2>2. ev.order \in Orders
      BY <2>1, HeldEvent DEF Inv
    <2>3. handler[h].seen = status[ev.order]
      BY <2>1 DEF Inv, Locks, LockedReadIsCurrent
    <2>4. status' = [status EXCEPT ![ev.order] = ev.status]
      BY <1>2 DEF Process
    <2>5. o = ev.order /\ status'[o] = ev.status
      BY <2>2, <2>4, <1>t
    <2>6. \/ ev.status = "PAID" /\ status[o] \in {"PENDING", "PAID"}
          \/ ev.status = "FAILED" /\ status[o] \in {"CREATED", "PENDING", "FAILED"}
          \/ ev.status = "REFUNDED" /\ status[o] \in {"PAID", "REFUNDED"}
      BY <1>2, <2>3, <2>5 DEF Process, CanCapture, CanFail, CanRefund, Accepts
    <2> QED
      BY <2>5, <2>6 DEF OnTheTable, AllowedTransitions
  <1>3. ASSUME NEW r \in Readers, WriteExpired(r)
        PROVE  WrittenByPoll(o)
    BY <1>3, <1>t DEF WriteExpired, WrittenByPoll
  <1> QED
    BY <1>1, <1>2, <1>3
       DEF Next, CreatorStep, HandlerStep, ReaderStep, ProviderStep, Tick,
           CreateLock, CreateRollback, Deliver, LockEvent, LockOrder, Reject,
           HandlerCrash, ReadOrder, ReaderCrash, Emit, vars, tables

(* Whatever is created, delivered, repeated or cut off, an order's status  *)
(* leaves the design's table only where a status poll writes EXPIRED over  *)
(* what it read before: finding 1 is the one way out.                      *)
THEOREM OnlyPollsLeaveTheTable ==
    Spec => [][\A o \in Orders :
                 status'[o] # status[o] => OnTheTable(o) \/ WrittenByPoll(o)]_vars
<1>1. Inv /\ [Next]_vars =>
        [\A o \in Orders :
           status'[o] # status[o] => OnTheTable(o) \/ WrittenByPoll(o)]_vars
  BY StatusSteps
<1> QED
  BY <1>1, Invariance, PTL DEF Spec

(* With no status poll under way the table holds of every step.            *)
THEOREM TransitionsFollowTheTable ==
    ASSUME Readers = {}
    PROVE  Spec => OrderTransitions
<1>1. Inv /\ [Next]_vars =>
        [\A o \in Orders : status'[o] # status[o] =>
           <<status[o], status'[o]>> \in AllowedTransitions]_vars
  BY StatusSteps DEF OnTheTable, WrittenByPoll
<1> QED
  BY <1>1, Invariance, PTL DEF Spec, OrderTransitions

-----------------------------------------------------------------------------
(* The slots of the ledger, which depend on status and info alone.         *)
LEMMA SlotsKept ==
  ASSUME UNCHANGED info, \A o \in Orders : Exists(o)' <=> Exists(o)
  PROVE  [o \in Orders |-> Slot(o)]' = [o \in Orders |-> Slot(o)]
  BY DEF Slot

LEMMA LedgerInit == Init => Ledger!Init
  BY DEF Init, Ledger!Init, Slot, Exists

LEMMA LedgerStep == Inv /\ [Next]_vars => [Ledger!Next]_Ledger!vars
  <1> SUFFICES ASSUME Inv, [Next]_vars
               PROVE  [Ledger!Next]_Ledger!vars
    OBVIOUS
  <1>a. /\ status \in [Orders -> Statuses]
        /\ DOMAIN info = Orders
        /\ DOMAIN coverage = Orders
        /\ DOMAIN outbox = Orders
    BY DEF Inv, Types, TypeOK
  <1>1. ASSUME UNCHANGED <<coverage, outbox, info>>,
               \A o \in Orders : Exists(o)' <=> Exists(o)
        PROVE  UNCHANGED Ledger!vars
    BY <1>1, SlotsKept DEF Ledger!vars
  <1>2. ASSUME NEW c \in Creators, NEW o \in Orders, CreateInsert(c, o)
        PROVE  Ledger!Next
    <2> DEFINE r == creator[c].request
               s == <<r.worker, r.week>>
    <2>1. /\ r \in Requests
          /\ ~Exists(o)
          /\ status' = [status EXCEPT ![o] = "PENDING"]
          /\ info' = [info EXCEPT ![o] =
                [key |-> creator[c].key, request |-> r,
                 expiresAt |-> now + Lifetime]]
          /\ UNCHANGED <<coverage, outbox>>
      BY <1>2 DEF CreateInsert, Inv, Types, ThreadsHold
    <2>2. \A x \in Orders : Slot(x)' = IF x = o THEN s ELSE Slot(x)
      BY <1>a, <2>1 DEF Slot, Exists
    <2>3. [x \in Orders |-> Slot(x)]' =
             [[x \in Orders |-> Slot(x)] EXCEPT ![o] = s]
      BY <2>2
    <2>4. [x \in Orders |-> Slot(x)][o] = <<>>
      BY <2>1 DEF Slot
    <2>5. Ledger!Place(o, s)
      BY <2>1, <2>3, <2>4 DEF Ledger!Place
    <2>6. s \in {<<q.worker, q.week>> : q \in Requests}
      BY <2>1
    <2> QED
      BY <2>5, <2>6 DEF Ledger!Next
  <1>3. ASSUME NEW h \in Handlers, Process(h)
        PROVE  [Ledger!Next]_Ledger!vars
    <2> DEFINE ev == sent[handler[h].event]
    <2>1. /\ ev.order \in Orders
          /\ Exists(ev.order)
          /\ ev.status \in {"PAID", "FAILED", "REFUNDED"}
          /\ status' = [status EXCEPT ![ev.order] = ev.status]
          /\ UNCHANGED info
      BY <1>3, AtCommit, HeldEvent DEF Inv, Process
    <2>2. \A o \in Orders : Exists(o)' <=> Exists(o)
      BY <1>a, <2>1 DEF Exists
    <2>3. [o \in Orders |-> Slot(o)]' = [o \in Orders |-> Slot(o)]
      BY <2>1, <2>2, SlotsKept
    <2>4. CASE UNCHANGED <<txn, coverage, outbox>>
      BY <1>1, <2>1, <2>2, <2>4
    <2>5. CASE CanCapture(ev, status[ev.order]) /\ Capture(ev)
      <3>1. /\ coverage[ev.order] = "NONE"
            /\ \A o \in Orders : coverage[o] = "ACTIVE" => ~SameWeek(o, ev.order)
            /\ coverage' = [coverage EXCEPT ![ev.order] = "ACTIVE"]
            /\ outbox' = [outbox EXCEPT ![ev.order] =
                  [activated |-> outbox[ev.order].activated + 1,
                   revoked   |-> outbox[ev.order].revoked]]
        BY <2>5 DEF CanCapture, Capture
      <3>2. \A o \in Orders : coverage[o] = "ACTIVE" => Exists(o)
        BY DEF Inv, Money, StatusAgreesWithCoverage, Exists
      <3>3. \A o \in Orders : coverage[o] = "ACTIVE" => Slot(o) # Slot(ev.order)
        BY <2>1, <3>1, <3>2 DEF Slot, SameWeek
      <3>4. Slot(ev.order) # <<>>
        BY <2>1 DEF Slot
      <3> HIDE DEF ev
      <3>5. Ledger!Activate(ev.order)
        BY <2>1, <2>3, <3>1, <3>3, <3>4 DEF Ledger!Activate
      <3> QED
        BY <2>1, <3>5 DEF Ledger!Next
    <2>6. CASE CanRefund(ev, status[ev.order]) /\ Refund(ev)
      <3>1. Ledger!Revoke(ev.order)
        BY <2>3, <2>6 DEF CanRefund, Refund, Ledger!Revoke
      <3> QED
        BY <2>1, <3>1 DEF Ledger!Next
    <2> QED
      BY <1>3, <2>4, <2>5, <2>6, AtCommit DEF Inv
  <1>4. ASSUME NEW r \in Readers, WriteExpired(r)
        PROVE  UNCHANGED Ledger!vars
    <2>1. /\ Exists(reader[r].order)
          /\ status' = [status EXCEPT ![reader[r].order] = "EXPIRED"]
          /\ UNCHANGED <<coverage, outbox, info>>
      BY <1>4 DEF WriteExpired, Inv, Rows
    <2>2. \A o \in Orders : Exists(o)' <=> Exists(o)
      BY <1>a, <2>1 DEF Exists
    <2> QED
      BY <1>1, <2>1, <2>2
  <1>5. ASSUME UNCHANGED <<status, info, coverage, outbox>>
        PROVE  UNCHANGED Ledger!vars
    BY <1>1, <1>5 DEF Exists
  <1> QED
    BY <1>2, <1>3, <1>4, <1>5
       DEF Next, CreatorStep, HandlerStep, ReaderStep, ProviderStep, Tick,
           CreateLock, CreateRollback, Deliver, LockEvent, LockOrder, Reject,
           HandlerCrash, ReadOrder, ReaderCrash, Emit, vars, tables

(* The service, with all its threads and locks, implements the ledger.     *)
THEOREM LedgerImplemented == Spec => ImplementsLedger
  BY LedgerInit, LedgerStep, Invariance, PTL
     DEF Spec, ImplementsLedger, Ledger!Spec
=============================================================================
