---------------------------- MODULE WorkerProofs ----------------------------
(***************************************************************************)
(* A worker's policy, one-time passwords and payout account, for any number *)
(* of requests at once, any plans, order keys, weeks, codes and accounts.  *)
(***************************************************************************)
EXTENDS Policy, Otp, PayoutAccounts, FiniteSetTheorems, TLAPS

(***************************************************************************)
(* The plan queue, the weeks that are paid for and what the policy shows   *)
(***************************************************************************)
(* A request that is under way belongs to a worker that exists, and what   *)
(* it has read is a row; one that is to apply a queued plan read it due.   *)
RequestsKept ==
    /\ PolicyTypeOK
    /\ \A r \in PolRequests : request[r].pc \notin {"new", "done"} => worker # NoRow
    /\ \A r \in PolRequests : request[r].pc \in {"apply", "serve", "schedule", "pending"} =>
         request[r].row # NoRow
    /\ \A r \in PolRequests : request[r].pc = "apply" =>
         request[r].row.pending # NoPlan /\ request[r].row.at <= clock
    /\ \A r \in PolRequests : request[r].pc = "schedule" => request[r].at \in Nat
    /\ asked # NoRow => worker # NoRow

-----------------------------------------------------------------------------
(***************************************************************************)
(* Weeks                                                                   *)
(***************************************************************************)
LEMMA WeekBounds ==
    ASSUME NEW t \in Nat
    PROVE  WeekOf(t) \in Nat /\ 3 * WeekOf(t) <= t /\ t <= 3 * WeekOf(t) + 2
  BY DEF WeekOf

LEMMA WeekIsUnique ==
    ASSUME NEW t \in Nat, NEW n \in Nat, 3 * n <= t, t <= 3 * n + 2
    PROVE  WeekOf(t) = n
  BY DEF WeekOf

LEMMA InstantBounds ==
    ASSUME NEW t \in Instants
    PROVE  t \in Nat /\ WeekOf(t) \in 0..LastWeek
  <1>1. t \in Nat /\ t <= 3 * LastWeek + 2
    BY PolicyAssumption DEF Instants
  <1>2. WeekOf(t) \in Nat /\ 3 * WeekOf(t) <= t
    BY <1>1, WeekBounds
  <1> QED
    BY <1>1, <1>2, PolicyAssumption

(* The week a payment counts for is one whose cycle has not begun.         *)
LEMMA NextWeekAhead ==
    ASSUME NEW t \in Instants
    PROVE  /\ NextWeekStart(t) \in Nat
           /\ WeekOf(NextWeekStart(t)) \in Weeks
           /\ t <= 3 * WeekOf(NextWeekStart(t))
  <1> DEFINE n == WeekOf(t)
  <1>1. t \in Nat /\ n \in 0..LastWeek /\ 3 * n <= t /\ t <= 3 * n + 2
    BY InstantBounds, WeekBounds
  <1>2. LastWeek \in Nat
    BY PolicyAssumption
  <1>3. NextWeekStart(t) = IF t < 3 * n + 1 THEN 3 * n + 1 ELSE 3 * n + 1 + 3
    BY DEF NextWeekStart, CycleStart
  <1> HIDE DEF n
  <1>4. CASE t < 3 * n + 1
    <2>1. NextWeekStart(t) = 3 * n + 1 /\ 3 * n + 1 \in Nat /\ n \in Nat
      BY <1>1, <1>3, <1>4
    <2>2. WeekOf(3 * n + 1) = n
      BY <2>1, WeekIsUnique
    <2> QED
      BY <1>1, <1>2, <1>4, <2>1, <2>2 DEF Weeks
  <1>5. CASE ~ (t < 3 * n + 1)
    <2>1. NextWeekStart(t) = 3 * (n + 1) + 1 /\ 3 * (n + 1) + 1 \in Nat /\ n + 1 \in Nat
      BY <1>1, <1>3, <1>5
    <2>2. WeekOf(3 * (n + 1) + 1) = n + 1
      BY <2>1, WeekIsUnique
    <2> QED
      BY <1>1, <1>2, <1>5, <2>1, <2>2 DEF Weeks
  <1> QED
    BY <1>4, <1>5

LEMMA CoercedAhead ==
    ASSUME NEW t \in Instants, NEW w \in Weeks
    PROVE  CoerceWeekStart(w, t) \in Weeks /\ t <= 3 * CoerceWeekStart(w, t)
  <1> DEFINE n == WeekOf(NextWeekStart(t))
  <1>1. n \in Weeks /\ t <= 3 * n /\ t \in Nat
    BY NextWeekAhead, InstantBounds
  <1>2. CoerceWeekStart(w, t) = IF w < n THEN n ELSE w
    BY DEF CoerceWeekStart
  <1> HIDE DEF n
  <1>3. LastWeek \in Nat
    BY PolicyAssumption
  <1> QED
    BY <1>1, <1>2, <1>3 DEF Weeks

LEMMA PlanOfEntry ==
    ASSUME NEW row \in Entry, NEW w
    PROVE  PlanForWeek(row, w) \in Plans
  BY DEF PlanForWeek, Entry

LEMMA EntryFields ==
    ASSUME NEW row \in Entry, NEW p \in Plans, NEW t \in Nat
    PROVE  /\ [row EXCEPT !.pending = p, !.at = t] \in Entry
           /\ [row EXCEPT !.pending = p, !.at = t].pending = p
           /\ [row EXCEPT !.pending = p, !.at = t].at = t
           /\ [row EXCEPT !.plan = p] \in Entry
           /\ row.plan \in Plans
  BY DEF Entry

-----------------------------------------------------------------------------
LEMMA RequestsInit == PolicyInit => RequestsKept
  <1> SUFFICES ASSUME PolicyInit PROVE RequestsKept
    OBVIOUS
  <1> USE PolicyAssumption DEF PolicyInit
  <1>1. clock \in Instants
    BY DEF Instants
  <1>2. /\ premiums \in [Weeks -> {"none", "paid", "missed", "failed"}]
        /\ covered \subseteq Weeks
    <2> PICK s \in PastStreaks :
          IF mode = "client"
          THEN /\ premiums = [w \in Weeks |->
                     IF w \in FirstWeek - s .. FirstWeek - 1 THEN "paid" ELSE "none"]
               /\ covered = {}
          ELSE /\ premiums = [w \in Weeks |-> "none"]
               /\ covered = FirstWeek - s .. FirstWeek - 1
      OBVIOUS
    <2>1. s \in Nat /\ s <= FirstWeek
      OBVIOUS
    <2> QED
      BY <2>1 DEF Weeks
  <1>3. request \in [PolRequests -> Request] /\ \A r \in PolRequests : request[r].pc = "new"
    BY DEF Request
  <1> QED
    BY <1>1, <1>2, <1>3 DEF RequestsKept, PolicyTypeOK

(* What every step of a request does to the others, and to itself.         *)
LEMMA RequestStep ==
    ASSUME request \in [PolRequests -> Request],
           NEW r \in PolRequests, NEW pc \in {"apply", "load", "serve", "schedule", "pending", "done"},
           NEW row \in Entry \cup {NoRow}, NEW at \in Nat, Goto(r, pc, row, at)
    PROVE  /\ request' \in [PolRequests -> Request]
           /\ request'[r] = [pc |-> pc, row |-> row, at |-> at]
           /\ \A q \in PolRequests \ {r} : request'[q] = request[q]
  <1>1. [pc |-> pc, row |-> row, at |-> at] \in Request
    BY DEF Request
  <1> QED
    BY <1>1 DEF Goto

LEMMA RequestsStep == RequestsKept /\ [PolicyNext]_polVars => RequestsKept'
  <1> SUFFICES ASSUME RequestsKept, [PolicyNext]_polVars PROVE RequestsKept'
    OBVIOUS
  <1> USE PolicyAssumption, NoRowAssumption DEF RequestsKept, PolicyTypeOK
  <1>t. clock \in Instants /\ clock \in Nat
    BY InstantBounds
  <1>r. \A r \in PolRequests : /\ request[r].row \in Entry \cup {NoRow}
                                /\ request[r].at \in Nat
    BY DEF Request
  <1>n. /\ NextWeekStart(clock) \in Nat
        /\ WeekOf(NextWeekStart(clock)) \in Weeks
    BY <1>t, NextWeekAhead
  <1>1. CASE PolicyTick
    <2>1. clock' = clock + 1 /\ clock' \in Instants
          /\ UNCHANGED <<mode, worker, premiums, covered, orders, request, asked>>
      BY <1>1 DEF PolicyTick
    <2>2. \A r \in PolRequests : request[r].pc = "apply" => request[r].row.at \in Nat
      BY <1>r DEF Entry
    <2> QED
      BY <2>1, <2>2, <1>t
  <1>2. ASSUME NEW r \in PolRequests, ReadDue(r) PROVE RequestsKept'
    <2>1. PICK pc \in {"apply", "load"} :
            /\ Goto(r, pc, worker, 0)
            /\ pc = "apply" => worker.pending # NoPlan /\ worker.at <= clock
      BY <1>2 DEF ReadDue
    <2>2. worker # NoRow /\ UNCHANGED <<clock, mode, worker, premiums, covered, orders, asked>>
      BY <1>2 DEF ReadDue
    <2>3. /\ request' \in [PolRequests -> Request]
          /\ request'[r] = [pc |-> pc, row |-> worker, at |-> 0]
          /\ \A q \in PolRequests \ {r} : request'[q] = request[q]
      BY <2>1, RequestStep
    <2> QED
      BY <2>1, <2>2, <2>3
  <1>3. ASSUME NEW r \in PolRequests, ApplyDue(r) PROVE RequestsKept'
    <2>1. /\ request[r].pc = "apply" /\ request[r].row \in Entry
          /\ Goto(r, "load", request[r].row, 0)
          /\ worker' = [plan |-> request[r].row.pending, pending |-> NoPlan, at |-> 0]
          /\ asked' \in {asked, NoRow}
          /\ UNCHANGED <<clock, mode, premiums, covered, orders>>
      BY <1>3, <1>r DEF ApplyDue, At
    <2>2. worker' \in Entry
      BY <2>1 DEF Entry
    <2>3. /\ request' \in [PolRequests -> Request]
          /\ request'[r] = [pc |-> "load", row |-> request[r].row, at |-> 0]
          /\ \A q \in PolRequests \ {r} : request'[q] = request[q]
      BY <2>1, RequestStep
    <2> QED
      BY <2>1, <2>2, <2>3
  <1>4. ASSUME NEW r \in PolRequests, LoadWorker(r) PROVE RequestsKept'
    <2>1. /\ request[r].pc = "load" /\ Goto(r, "serve", worker, 0) /\ worker # NoRow
          /\ UNCHANGED <<clock, mode, worker, premiums, covered, orders, asked>>
      BY <1>4 DEF LoadWorker, At
    <2>3. /\ request' \in [PolRequests -> Request]
          /\ request'[r] = [pc |-> "serve", row |-> worker, at |-> 0]
          /\ \A q \in PolRequests \ {r} : request'[q] = request[q]
      BY <2>1, RequestStep
    <2> QED
      BY <2>1, <2>3
  <1>f. ASSUME NEW r \in PolRequests, Finish(r)
        PROVE  /\ request' \in [PolRequests -> Request]
               /\ request'[r] = [pc |-> "done", row |-> NoRow, at |-> 0]
               /\ \A q \in PolRequests \ {r} : request'[q] = request[q]
    <2>1. Goto(r, "done", NoRow, 0)
      BY <1>f DEF Finish
    <2> QED
      BY <2>1, RequestStep
  <1>q. ASSUME NEW p \in Plans, NEW t \in Nat, worker # NoRow, Queue(p, t)
        PROVE  worker' \in Entry
    <2>1. worker \in Entry
      BY <1>q
    <2> QED
      BY <1>q, <2>1, EntryFields DEF Queue
  <1>5. ASSUME NEW r \in PolRequests, GetPolicy(r) PROVE RequestsKept'
    BY <1>5, <1>f DEF GetPolicy
  <1>6. ASSUME NEW r \in PolRequests, NEW p \in Plans, UpdatePlan(r, p) PROVE RequestsKept'
    <2>1. /\ worker # NoRow /\ Queue(p, NextWeekStart(clock)) /\ Finish(r)
          /\ asked' = [plan |-> p, at |-> NextWeekStart(clock)]
          /\ UNCHANGED <<clock, mode, premiums, covered, orders>>
      BY <1>6 DEF UpdatePlan, At
    <2>2. worker' \in Entry
      BY <2>1, <1>q, <1>n
    <2>3. asked' \in Change
      BY <2>1, <1>n DEF Change
    <2> QED
      BY <2>1, <2>2, <2>3, <1>f
  <1>7. ASSUME NEW r \in PolRequests, NEW w \in Weeks, NEW st \in {"paid", "missed", "failed"},
               RecordPayment(r, w, st)
        PROVE RequestsKept'
    <2> DEFINE week == CoerceWeekStart(w, clock)
    <2>1. week \in Weeks /\ 3 * week + 1 \in Nat
      BY <1>t, CoercedAhead DEF Weeks
    <2>2. /\ request[r].pc = "serve" /\ premiums' = [premiums EXCEPT ![week] = st]
          /\ Finish(r) \/ Goto(r, "schedule", request[r].row, 3 * week + 1)
          /\ UNCHANGED <<clock, mode, worker, covered, orders, asked>>
      BY <1>7 DEF RecordPayment, At
    <2> HIDE DEF week
    <2>3. premiums' \in [Weeks -> {"none", "paid", "missed", "failed"}]
      BY <2>1, <2>2
    <2>4. CASE Finish(r)
      BY <2>2, <2>3, <2>4, <1>f
    <2>5. CASE Goto(r, "schedule", request[r].row, 3 * week + 1)
      <3>1. /\ request' \in [PolRequests -> Request]
            /\ request'[r] = [pc |-> "schedule", row |-> request[r].row, at |-> 3 * week + 1]
            /\ \A q \in PolRequests \ {r} : request'[q] = request[q]
        BY <2>1, <2>5, <1>r, RequestStep
      <3> QED
        BY <2>1, <2>2, <2>3, <3>1
    <2> QED
      BY <2>2, <2>4, <2>5
  <1>8. ASSUME NEW r \in PolRequests, SchedulePaid(r) PROVE RequestsKept'
    <2>1. /\ worker # NoRow /\ request[r].row \in Entry /\ request[r].at \in Nat
          /\ Queue(request[r].row.plan, request[r].at) /\ Finish(r) /\ asked' = NoRow
          /\ UNCHANGED <<clock, mode, premiums, covered, orders>>
      BY <1>8, <1>r DEF SchedulePaid, At
    <2>2. request[r].row.plan \in Plans
      BY <2>1 DEF Entry
    <2>3. worker' \in Entry
      BY <2>1, <2>2, <1>q
    <2> QED
      BY <2>1, <2>3, <1>f
  <1>9. ASSUME NEW r \in PolRequests, NEW k \in OrderKeys, CreateOrder(r, k) PROVE RequestsKept'
    <2> DEFINE week == WeekOf(NextWeekStart(clock))
               order == [key |-> k, week |-> week, plan |-> PlanForWeek(request[r].row, week)]
    <2>1. /\ request[r].row \in Entry
          /\ orders' \in {orders, orders \cup {order}} /\ Finish(r)
          /\ UNCHANGED <<clock, mode, worker, premiums, covered, asked>>
      BY <1>9, <1>r DEF CreateOrder, At
    <2>2. PlanForWeek(request[r].row, week) \in Plans
      BY <2>1, PlanOfEntry
    <2>3. order \in [key : OrderKeys, plan : Plans, week : Weeks]
      BY <2>2, <1>n
    <2> HIDE DEF order
    <2> QED
      BY <2>1, <2>3, <1>f
  <1>10. ASSUME NEW r \in PolRequests, NEW p \in Plans, UpdateProfile(r, p) PROVE RequestsKept'
    <2>1. /\ worker' = [plan |-> p, pending |-> p, at |-> NextWeekStart(clock)]
          /\ asked' = NoRow /\ Finish(r)
          /\ UNCHANGED <<clock, mode, premiums, covered, orders>>
      BY <1>10 DEF UpdateProfile
    <2>2. worker' \in Entry
      BY <2>1, <1>n DEF Entry
    <2> QED
      BY <2>1, <2>2, <1>f
  <1>11. ASSUME NEW r \in PolRequests, NEW p \in Plans, Register(r, p) PROVE RequestsKept'
    <2>1. /\ worker' = IF worker = NoRow THEN [plan |-> p, pending |-> NoPlan, at |-> 0]
                       ELSE [worker EXCEPT !.plan = p]
          /\ asked' = NoRow /\ Goto(r, "pending", worker', 0)
          /\ UNCHANGED <<clock, mode, premiums, covered, orders>>
      BY <1>11 DEF Register
    <2>2. worker' \in Entry
      <3>1. CASE worker = NoRow
        BY <2>1, <3>1 DEF Entry
      <3>2. CASE worker # NoRow
        BY <2>1, <3>2 DEF Entry
      <3> QED
        BY <3>1, <3>2
    <2>3. PICK row \in Entry : row = worker'
      BY <2>2
    <2>4. /\ request' \in [PolRequests -> Request]
          /\ request'[r] = [pc |-> "pending", row |-> row, at |-> 0]
          /\ \A q \in PolRequests \ {r} : request'[q] = request[q]
      BY <2>1, <2>3, RequestStep
    <2> QED
      BY <2>1, <2>2, <2>3, <2>4
  <1>12. ASSUME NEW r \in PolRequests, QueueRegistered(r) PROVE RequestsKept'
    <2>1. /\ worker # NoRow /\ request[r].row \in Entry
          /\ Queue(request[r].row.plan, NextWeekStart(clock)) /\ Finish(r) /\ asked' = NoRow
          /\ UNCHANGED <<clock, mode, premiums, covered, orders>>
      BY <1>12, <1>r DEF QueueRegistered, At
    <2>2. request[r].row.plan \in Plans
      BY <2>1 DEF Entry
    <2>3. worker' \in Entry
      BY <2>1, <2>2, <1>q, <1>n
    <2> QED
      BY <2>1, <2>3, <1>f
  <1>13. ASSUME NEW r \in PolRequests, DropRequest(r) PROVE RequestsKept'
    BY <1>13, <1>f DEF DropRequest
  <1>14. ASSUME NEW o \in orders, CoverWeek(o) PROVE RequestsKept'
    BY <1>14 DEF CoverWeek
  <1>15. ASSUME NEW w \in covered, RevokeWeek(w) PROVE RequestsKept'
    BY <1>15 DEF RevokeWeek
  <1>16. CASE UNCHANGED polVars
    BY <1>16 DEF polVars
  <1> QED
    BY <1>1, <1>2, <1>3, <1>4, <1>5, <1>6, <1>7, <1>8, <1>9, <1>10, <1>11, <1>12, <1>13,
       <1>14, <1>15, <1>16 DEF PolicyNext

THEOREM PolicyIsTyped == PolicySpec => []RequestsKept
  BY RequestsInit, RequestsStep, PTL DEF PolicySpec

-----------------------------------------------------------------------------
(***************************************************************************)
(* The plan queue                                                          *)
(***************************************************************************)
(* Only the request that applies what it read over the row as it read it   *)
(* keeps the history variable, and then what it applies is the change      *)
(* itself, which was due.                                                  *)
LEMMA QueueStep ==
    RequestsKept /\ QueuedPlanKept /\ [PolicyNext]_polVars => QueuedPlanKept'
  <1> SUFFICES ASSUME RequestsKept, QueuedPlanKept, [PolicyNext]_polVars PROVE QueuedPlanKept'
    OBVIOUS
  <1> USE DEF QueuedPlanKept
  <1>t. clock \in Nat
    BY InstantBounds DEF RequestsKept, PolicyTypeOK
  <1>1. CASE UNCHANGED <<worker, asked, clock>>
    BY <1>1
  <1>2. CASE asked' = NoRow
    BY <1>2
  <1>3. CASE PolicyTick
    <2>1. clock' = clock + 1 /\ UNCHANGED <<worker, asked>>
      BY <1>3 DEF PolicyTick
    <2>2. asked # NoRow => asked.at \in Nat
      BY DEF RequestsKept, PolicyTypeOK, Change
    <2> QED
      BY <2>1, <2>2, <1>t
  <1>4. ASSUME NEW r \in PolRequests, ApplyDue(r), asked' # NoRow PROVE QueuedPlanKept'
    <2>1. /\ request[r].pc = "apply" /\ worker = request[r].row /\ asked' = asked
          /\ worker' = [plan |-> worker.pending, pending |-> NoPlan, at |-> 0]
          /\ clock' = clock
      BY <1>4 DEF ApplyDue, At
    <2>2. worker.pending # NoPlan /\ worker.at <= clock
      BY <2>1 DEF RequestsKept
    <2>3. worker.pending = asked.plan /\ worker.at = asked.at
      BY <2>1, <2>2, <1>4
    <2> QED
      BY <2>1, <2>2, <2>3
  <1>5. ASSUME NEW r \in PolRequests, NEW p \in Plans, UpdatePlan(r, p) PROVE QueuedPlanKept'
    <2>1. /\ request[r].pc = "serve" /\ Queue(p, NextWeekStart(clock))
          /\ asked' = [plan |-> p, at |-> NextWeekStart(clock)]
      BY <1>5 DEF UpdatePlan, At
    <2>2. worker \in Entry
      BY <2>1 DEF RequestsKept, PolicyTypeOK
    <2>3. NextWeekStart(clock) \in Nat
      BY NextWeekAhead DEF RequestsKept, PolicyTypeOK
    <2>4. worker' = [worker EXCEPT !.pending = p, !.at = NextWeekStart(clock)]
      BY <2>1 DEF Queue
    <2>5. PICK t \in Nat : t = NextWeekStart(clock)
      BY <2>3
    <2>6. worker'.pending = p /\ worker'.at = t
      BY <2>2, <2>4, <2>5 DEF Entry
    <2> QED
      BY <2>1, <2>5, <2>6
  <1>6. \/ PolicyTick \/ UNCHANGED <<worker, asked, clock>> \/ asked' = NoRow
        \/ \E r \in PolRequests : ApplyDue(r) \/ \E p \in Plans : UpdatePlan(r, p)
    <2>1. CASE UNCHANGED polVars
      BY <2>1 DEF polVars
    <2>2. ASSUME NEW r \in PolRequests, ReadDue(r) \/ LoadWorker(r) \/ GetPolicy(r) \/ DropRequest(r)
          PROVE UNCHANGED <<worker, asked, clock>>
      BY <2>2 DEF ReadDue, LoadWorker, GetPolicy, DropRequest
    <2>3. ASSUME NEW r \in PolRequests, NEW w, NEW st, RecordPayment(r, w, st)
          PROVE UNCHANGED <<worker, asked, clock>>
      BY <2>3 DEF RecordPayment
    <2>4. ASSUME NEW r \in PolRequests, NEW k \in OrderKeys, CreateOrder(r, k)
          PROVE UNCHANGED <<worker, asked, clock>>
      BY <2>4 DEF CreateOrder
    <2>5. ASSUME NEW r \in PolRequests, NEW p \in Plans, UpdateProfile(r, p) \/ Register(r, p)
          PROVE asked' = NoRow
      BY <2>5 DEF UpdateProfile, Register
    <2>6. ASSUME NEW r \in PolRequests, SchedulePaid(r) \/ QueueRegistered(r)
          PROVE asked' = NoRow
      BY <2>6 DEF SchedulePaid, QueueRegistered
    <2>7. ASSUME NEW o \in orders, CoverWeek(o) PROVE UNCHANGED <<worker, asked, clock>>
      BY <2>7 DEF CoverWeek
    <2>8. ASSUME NEW w \in covered, RevokeWeek(w) PROVE UNCHANGED <<worker, asked, clock>>
      BY <2>8 DEF RevokeWeek
    <2> QED
      BY <2>1, <2>2, <2>3, <2>4, <2>5, <2>6, <2>7, <2>8 DEF PolicyNext
  <1> QED
    BY <1>1, <1>2, <1>3, <1>4, <1>5, <1>6

(* The plan queued for next week by PUT /plan stays queued until its week  *)
(* and is the worker's plan from then on, unless another request asks for  *)
(* another plan or writes over it what it read before.                     *)
THEOREM QueuedPlansArrive == PolicySpec => []QueuedPlanKept
<1>1. PolicyInit => QueuedPlanKept
  BY DEF PolicyInit, QueuedPlanKept
<1> QED
  BY <1>1, RequestsInit, RequestsStep, QueueStep, PTL DEF PolicySpec

-----------------------------------------------------------------------------
(***************************************************************************)
(* The weeks that are paid for                                             *)
(***************************************************************************)
BoughtAhead ==
    /\ \A w \in Weeks : premiums'[w] = "paid" /\ premiums[w] # "paid" => clock <= 3 * w
    /\ \A o \in orders' \ orders : clock <= 3 * o.week

LEMMA PaymentsAhead == RequestsKept /\ [PolicyNext]_polVars => BoughtAhead
  <1> SUFFICES ASSUME RequestsKept, [PolicyNext]_polVars PROVE BoughtAhead
    OBVIOUS
  <1> USE DEF BoughtAhead
  <1>t. /\ clock \in Instants
        /\ premiums \in [Weeks -> {"none", "paid", "missed", "failed"}]
    BY DEF RequestsKept, PolicyTypeOK
  <1>1. CASE UNCHANGED <<premiums, orders>>
    BY <1>1
  <1>2. ASSUME NEW r \in PolRequests, NEW w \in Weeks, NEW st, RecordPayment(r, w, st)
        PROVE BoughtAhead
    <2>1. PICK week \in Weeks : week = CoerceWeekStart(w, clock) /\ clock <= 3 * week
      BY <1>t, CoercedAhead
    <2>2. premiums' = [premiums EXCEPT ![week] = st] /\ orders' = orders
      BY <1>2, <2>1 DEF RecordPayment
    <2>3. \A v \in Weeks \ {week} : premiums'[v] = premiums[v]
      BY <2>2, <1>t
    <2> QED
      BY <2>1, <2>2, <2>3
  <1>3. ASSUME NEW r \in PolRequests, NEW k \in OrderKeys, CreateOrder(r, k) PROVE BoughtAhead
    <2>1. /\ premiums' = premiums
          /\ \A o \in orders' \ orders : o.week = WeekOf(NextWeekStart(clock))
      BY <1>3 DEF CreateOrder
    <2> QED
      BY <2>1, <1>t, NextWeekAhead
  <1>4. \/ UNCHANGED <<premiums, orders>>
        \/ \E r \in PolRequests :
             \/ \E w \in Weeks, st \in {"paid", "missed", "failed"} : RecordPayment(r, w, st)
             \/ \E k \in OrderKeys : CreateOrder(r, k)
    BY DEF PolicyNext, polVars, PolicyTick, ReadDue, ApplyDue, LoadWorker, GetPolicy, UpdatePlan,
           SchedulePaid, UpdateProfile, Register, QueueRegistered, DropRequest, CoverWeek, RevokeWeek
  <1> QED
    BY <1>1, <1>2, <1>3, <1>4

(* No week becomes paid, and no order is made for one, once its cycle has  *)
(* begun.                                                                  *)
THEOREM WeeksAreBoughtAhead == PolicySpec => CoverageBoughtAhead
<1>1. RequestsKept /\ [PolicyNext]_polVars => BoughtAhead
  BY PaymentsAhead
<1> QED
  BY <1>1, RequestsInit, RequestsStep, PTL DEF PolicySpec, CoverageBoughtAhead, BoughtAhead

-----------------------------------------------------------------------------
(***************************************************************************)
(* What is shown                                                           *)
(***************************************************************************)
(* A discount takes a run of four weeks or more.                           *)
LEMMA DiscountTakesFour ==
    ASSUME NEW streak \in Nat, LoyaltyPercent(streak) > 0
    PROVE  streak >= 4
  <1> SUFFICES ASSUME streak <= 3 PROVE FALSE
    OBVIOUS
  <1>1. CycleWeek(streak) \in 0..3
    <2>1. CASE streak = 0
      BY <2>1 DEF CycleWeek
    <2>2. CASE streak # 0
      <3>1. (streak - 1) % 9 = streak - 1
        BY <2>2
      <3> QED
        BY <2>2, <3>1 DEF CycleWeek
    <2> QED
      BY <2>1, <2>2
  <1>2. ~ (CycleWeek(streak) >= 6) /\ CycleWeek(streak) \notin {4, 5}
    BY <1>1
  <1> QED
    BY <1>2 DEF LoyaltyPercent

(* The weeks that are counted follow one another up to the current one: a  *)
(* week that is not paid ends the run.                                     *)
RunTo(paid, n) == {v \in paid : v <= n /\ v..n \subseteq paid}

LEMMA RunIsFinite ==
    ASSUME NEW paid \in SUBSET Nat, NEW n \in Nat
    PROVE  IsFiniteSet(RunTo(paid, n)) /\ Cardinality(RunTo(paid, n)) \in Nat
  <1>1. RunTo(paid, n) \subseteq 0..n
    <2> SUFFICES ASSUME NEW v \in RunTo(paid, n) PROVE v \in 0..n
      OBVIOUS
    <2>1. v \in Nat /\ v <= n
      BY DEF RunTo
    <2> QED
      BY <2>1
  <1>2. IsFiniteSet(0..n)
    BY FS_Interval
  <1> QED
    BY <1>1, <1>2, FS_Subset, FS_CardinalityType

LEMMA RunEnds ==
    ASSUME NEW paid \in SUBSET Nat, NEW n \in Nat, NEW k \in 0..3, n - k \notin paid
    PROVE  Cardinality(RunTo(paid, n)) <= k
  <1>1. PICK low \in Int : low = n - k + 1
    OBVIOUS
  <1>2. RunTo(paid, n) \subseteq low..n
    <2> SUFFICES ASSUME NEW v \in RunTo(paid, n), ~ (v \in low..n) PROVE FALSE
      OBVIOUS
    <2>1. v \in Nat /\ v <= n /\ v..n \subseteq paid
      BY DEF RunTo
    <2>2. v <= n - k
      BY <1>1, <2>1
    <2>3. n - k \in v..n
      BY <2>1, <2>2
    <2> QED
      BY <2>1, <2>3
  <1>3. IsFiniteSet(low..n) /\ Cardinality(low..n) = IF low > n THEN 0 ELSE n - low + 1
    BY FS_Interval
  <1>4. Cardinality(low..n) = k
    BY <1>1, <1>3
  <1> QED
    BY <1>2, <1>3, <1>4, FS_Subset

LEMMA RunIsPaid ==
    ASSUME NEW paid \in SUBSET Nat, NEW k \in 0..3, WeekOf(clock) \in Nat,
           CleanStreak(paid) >= 4
    PROVE  WeekOf(clock) - k \in paid
  <1>1. PICK n \in Nat : n = WeekOf(clock)
    OBVIOUS
  <1>2. CleanStreak(paid) = Cardinality(RunTo(paid, n))
    BY <1>1 DEF CleanStreak, RunTo
  <1>3. Cardinality(RunTo(paid, n)) \in Nat /\ Cardinality(RunTo(paid, n)) >= 4
    BY <1>2, RunIsFinite
  <1> SUFFICES ASSUME n - k \notin paid PROVE FALSE
    BY <1>1
  <1>4. Cardinality(RunTo(paid, n)) <= k
    BY RunEnds
  <1> QED
    BY <1>3, <1>4

LEMMA StreakIsNat ==
    ASSUME NEW paid \in SUBSET Nat, WeekOf(clock) \in Nat
    PROVE  CleanStreak(paid) \in Nat
  <1>1. PICK n \in Nat : n = WeekOf(clock)
    OBVIOUS
  <1>2. CleanStreak(paid) = Cardinality(RunTo(paid, n))
    BY <1>1 DEF CleanStreak, RunTo
  <1> QED
    BY <1>2, RunIsFinite

LEMMA ShownFollows == RequestsKept => ShownIsReal
  <1> SUFFICES ASSUME RequestsKept, worker # NoRow
               PROVE  /\ PolicyStatus(worker, PaidWeeks) = "active" => ActiveCoverage
                      /\ LoyaltyPercent(CleanStreak(PaidWeeks)) > 0 =>
                           \A k \in 0..3 : premiums[WeekOf(clock) - k] = "paid"
    BY DEF ShownIsReal
  <1>t. /\ WeekOf(clock) \in Nat /\ mode \in {"client", "billing"}
        /\ PaidWeeks \subseteq Weeks
    BY InstantBounds, PolicyAssumption DEF RequestsKept, PolicyTypeOK, PaidWeeks
  <1>n. PaidWeeks \in SUBSET Nat
    BY <1>t DEF Weeks
  <1>1. ASSUME PolicyStatus(worker, PaidWeeks) = "active" PROVE ActiveCoverage
    <2>1. WeekOf(clock) \in PaidWeeks
      BY <1>1 DEF PolicyStatus
    <2> QED
      BY <2>1, <1>t DEF PaidWeeks, ActiveCoverage
  <1>2. ASSUME LoyaltyPercent(CleanStreak(PaidWeeks)) > 0, NEW k \in 0..3
        PROVE premiums[WeekOf(clock) - k] = "paid"
    <2>1. CleanStreak(PaidWeeks) >= 4
      BY <1>2, <1>n, <1>t, StreakIsNat, DiscountTakesFour
    <2>2. WeekOf(clock) - k \in PaidWeeks /\ WeekOf(clock) - 1 \in PaidWeeks
      BY <2>1, <1>n, <1>t, RunIsPaid
    <2>3. mode = "client"
      <3> SUFFICES ASSUME mode = "billing" PROVE FALSE
        BY <1>t
      <3>1. WeekOf(clock) - 1 \in {WeekOf(clock), WeekOf(clock) + 1}
        BY <2>2 DEF PaidWeeks
      <3> QED
        BY <3>1, <1>t
    <2> QED
      BY <2>2, <2>3 DEF PaidWeeks
  <1> QED
    BY <1>1, <1>2

(* No policy reads active in a week whose claims the gate would refuse,    *)
(* and no discount is shown without four paid weeks up to now.             *)
THEOREM WhatIsShownIsReal == PolicySpec => []ShownIsReal
  BY PolicyIsTyped, ShownFollows, PTL

-----------------------------------------------------------------------------
(***************************************************************************)
(* One-time passwords.  The invariant is proved in layers, each preserved by *)
(* a step given the layers before it:                                      *)
(*   Codes     a code belongs to one request to send, and before it is     *)
(*             stored no other part of the state mentions it;              *)
(*   Attempts  the row's count and the comparisons agree up to the         *)
(*             verifications that have not counted theirs yet;             *)
(*   Sessions  which verifications accept, and which codes are spent;      *)
(*   Newest    what still becomes of the code delivered last.              *)
(***************************************************************************)
Sending == {"save", "sms", "delete"}

CodesKept ==
    /\ OtpTypeOK
    /\ \A s \in Senders : sender[s].pc \in Sending => sender[s].code \in generated
    /\ \A v \in Verifiers : verifier[v].pc # "idle" => verifier[v].code \in generated
    /\ otp.code \in generated \cup {NoCode}
    /\ delivered.code \in generated \cup {NoCode}
    /\ spent \subseteq generated
    /\ \A c \in Codes \ generated : tries[c] = 0
    /\ \A s, t \in Senders :
         s # t /\ sender[s].pc \in Sending /\ sender[t].pc \in Sending
            => sender[s].code # sender[t].code
    /\ \A s \in Senders : sender[s].pc = "save" =>
         /\ tries[sender[s].code] = 0
         /\ sender[s].code \notin spent
         /\ otp.code # sender[s].code
         /\ \A v \in Verifiers : verifier[v].pc # "idle" =>
              verifier[v].code # sender[s].code
    /\ \A s \in Senders : sender[s].pc \in Sending => delivered.code # sender[s].code

(* The verifications that have compared a code and not yet counted it.     *)
Counting(c) == {v \in Verifiers : verifier[v] = [pc |-> "increment", code |-> c]}

AttemptsKept ==
    /\ GuessesBounded
    /\ otp.code # NoCode =>
         /\ tries[otp.code] <= otp.attempts + Cardinality(Counting(otp.code))
         /\ otp.code \notin spoiled =>
              otp.attempts + Cardinality(Counting(otp.code)) <= tries[otp.code]

SessionsKept ==
    /\ otp.code \notin spent
    /\ \A u, v \in Verifiers :
         /\ u # v /\ verifier[u].pc = "accept" /\ verifier[v].pc = "accept"
         /\ verifier[u].code = verifier[v].code
         => verifier[u].code \in doubled
    /\ CodeSpentOnce

NewestKept ==
    /\ delivered.code = otp.code => otp.code = NoCode \/ delivered.at = otp.at
    /\ \A v \in Verifiers :
         verifier[v].pc = "delete" /\ verifier[v].code = otp.code /\ otp.code \notin spoiled
            => Expired(otp) \/ tries[otp.code] >= MaxAttempts
    /\ DeliveredIsStored

-----------------------------------------------------------------------------
LEMMA CodesInit == OtpInit => CodesKept
  BY OtpAssumption DEF OtpInit, CodesKept, OtpTypeOK, Sender, Verifier, EmptyRow, Nothing, Sending

LEMMA CodesStep == CodesKept /\ [OtpNext]_otpVars => CodesKept'
  <1> SUFFICES ASSUME CodesKept, [OtpNext]_otpVars PROVE CodesKept'
    OBVIOUS
  <1> USE OtpAssumption DEF CodesKept, OtpTypeOK, Sender, Verifier, EmptyRow, Nothing, Sending
  <1>1. CASE OtpTick
    BY <1>1 DEF OtpTick
  <1>2. ASSUME NEW s \in Senders, NEW c \in Codes, SendCheck(s, c) PROVE CodesKept'
    BY <1>2 DEF SendCheck, SenderAt
  <1>3. ASSUME NEW s \in Senders, SaveOtp(s) PROVE CodesKept'
    BY <1>3 DEF SaveOtp, SenderAt
  <1>4. ASSUME NEW s \in Senders, SmsAccepted(s) PROVE CodesKept'
    BY <1>4 DEF SmsAccepted, SenderAt
  <1>5. ASSUME NEW s \in Senders, SmsFailed(s) PROVE CodesKept'
    BY <1>5 DEF SmsFailed, SenderAt
  <1>6. ASSUME NEW s \in Senders, DeleteUnsent(s) PROVE CodesKept'
    BY <1>6 DEF DeleteUnsent, SenderAt, Spoil
  <1>7. ASSUME NEW v \in Verifiers, NEW g \in generated \cup {WrongCode}, VerifyCheck(v, g)
        PROVE CodesKept'
    <2>1. /\ UNCHANGED <<otpNow, otp, sender, generated, spent, delivered, spoiled>>
          /\ otp.code \in Codes /\ otp.code \in generated
          /\ doubled' \subseteq Codes
      BY <1>7 DEF VerifyCheck
    <2>2. \E pc \in {"delete", "increment", "accept"} :
            verifier' = [verifier EXCEPT ![v] = [pc |-> pc, code |-> otp.code]]
      BY <1>7 DEF VerifyCheck, VerifierAt
    <2>3. tries' = tries \/ tries' = [tries EXCEPT ![otp.code] = @ + 1]
      BY <1>7 DEF VerifyCheck
    <2>4. /\ tries' \in [Codes -> Nat]
          /\ \A c \in Codes : c # otp.code => tries'[c] = tries[c]
      BY <2>1, <2>3
    <2>5. /\ verifier' \in [Verifiers -> Verifier]
          /\ \A u \in Verifiers : verifier'[u] = verifier[u] \/ verifier'[u].code = otp.code
      BY <2>1, <2>2
    <2> QED
      BY <2>1, <2>4, <2>5
  <1>8. ASSUME NEW v \in Verifiers, Increment(v) PROVE CodesKept'
    BY <1>8 DEF Increment, VerifierAt, Spoil
  <1>9. ASSUME NEW v \in Verifiers, DeleteRefused(v) PROVE CodesKept'
    BY <1>9 DEF DeleteRefused, VerifierAt, Spoil
  <1>10. ASSUME NEW v \in Verifiers, Accept(v) PROVE CodesKept'
    BY <1>10 DEF Accept, VerifierAt, Spoil
  <1>11. CASE UNCHANGED otpVars
    BY <1>11 DEF otpVars
  <1> QED
    BY <1>1, <1>2, <1>3, <1>4, <1>5, <1>6, <1>7, <1>8, <1>9, <1>10, <1>11 DEF OtpNext

-----------------------------------------------------------------------------
LEMMA CountingIsFinite ==
    ASSUME NEW c
    PROVE  IsFiniteSet(Counting(c)) /\ Cardinality(Counting(c)) \in Nat
  BY OtpAssumption, FS_Subset, FS_CardinalityType DEF Counting

(* One more comparison waits to be counted, and it is not the last one.    *)
LEMMA CountingGrows ==
    ASSUME NEW c, NEW v \in Verifiers, CodesKept, verifier[v].pc = "idle",
           verifier' = [verifier EXCEPT ![v] = [pc |-> "increment", code |-> c]]
    PROVE  /\ Cardinality(Counting(c)') = Cardinality(Counting(c)) + 1
           /\ Cardinality(Counting(c)) < Cardinality(Verifiers)
  <1>1. v \notin Counting(c)
    BY DEF Counting
  <1>2. Counting(c)' = Counting(c) \cup {v}
    BY DEF Counting, CodesKept, OtpTypeOK
  <1>3. Counting(c) \subseteq Verifiers /\ Counting(c) # Verifiers
    BY <1>1 DEF Counting
  <1> QED
    BY <1>1, <1>2, <1>3, CountingIsFinite, FS_AddElement, FS_Subset, FS_CardinalityType,
       OtpAssumption

LEMMA CountingShrinks ==
    ASSUME NEW c, NEW v \in Counting(c), CodesKept,
           verifier' = [verifier EXCEPT ![v] = [pc |-> "idle", code |-> NoCode]]
    PROVE  Cardinality(Counting(c)') = Cardinality(Counting(c)) - 1
  <1>1. Counting(c)' = Counting(c) \ {v}
    BY DEF Counting, CodesKept, OtpTypeOK
  <1> QED
    BY <1>1, CountingIsFinite, FS_RemoveElement

LEMMA CountingStays ==
    ASSUME NEW c, NEW v \in Verifiers, NEW w, CodesKept, v \notin Counting(c),
           w # [pc |-> "increment", code |-> c],
           verifier' = [verifier EXCEPT ![v] = w]
    PROVE  Counting(c)' = Counting(c)
  BY DEF Counting, CodesKept, OtpTypeOK

LEMMA AttemptsInit == OtpInit => AttemptsKept
  <1> SUFFICES ASSUME OtpInit PROVE AttemptsKept
    OBVIOUS
  <1>1. Cardinality(Verifiers) \in Nat
    BY OtpAssumption, FS_CardinalityType
  <1> QED
    BY <1>1, OtpAssumption DEF OtpInit, AttemptsKept, GuessesBounded, EmptyRow

LEMMA AttemptsStep == CodesKept /\ AttemptsKept /\ [OtpNext]_otpVars => AttemptsKept'
  <1> SUFFICES ASSUME CodesKept, AttemptsKept, [OtpNext]_otpVars PROVE AttemptsKept'
    OBVIOUS
  <1> USE OtpAssumption DEF AttemptsKept, GuessesBounded
  <1>c. PICK c : c = otp.code
    OBVIOUS
  <1>t. /\ tries \in [Codes -> Nat] /\ otp.attempts \in Nat
        /\ c \in Codes \cup {NoCode}
        /\ verifier \in [Verifiers -> Verifier]
        /\ Cardinality(Counting(c)) \in Nat /\ Cardinality(Verifiers) \in Nat
    BY <1>c, CountingIsFinite, FS_CardinalityType DEF CodesKept, OtpTypeOK
  <1>0. ASSUME UNCHANGED <<otp, tries, spoiled>>, Counting(c)' = Counting(c) PROVE AttemptsKept'
    BY <1>0, <1>c DEF Counting
  <1>1. CASE OtpTick
    BY <1>1, <1>0 DEF OtpTick, Counting
  <1>2. ASSUME NEW s \in Senders, NEW d \in Codes, SendCheck(s, d) PROVE AttemptsKept'
    BY <1>2, <1>0 DEF SendCheck, Counting
  <1>3. ASSUME NEW s \in Senders, SaveOtp(s) PROVE AttemptsKept'
    <2>1. otp'.code = sender[s].code /\ otp'.attempts = 0 /\ tries' = tries
          /\ verifier' = verifier
      BY <1>3 DEF SaveOtp
    <2>2. tries[sender[s].code] = 0
      BY <1>3 DEF SaveOtp, CodesKept
    <2>3. Counting(otp.code)' = {}
      BY <1>3, <2>1 DEF SaveOtp, CodesKept, Counting
    <2> QED
      BY <2>1, <2>2, <2>3, FS_EmptySet
  <1>4. ASSUME NEW s \in Senders, SmsAccepted(s) PROVE AttemptsKept'
    BY <1>4, <1>0 DEF SmsAccepted, Counting
  <1>5. ASSUME NEW s \in Senders, SmsFailed(s) PROVE AttemptsKept'
    BY <1>5, <1>0 DEF SmsFailed, Counting
  <1>6. ASSUME NEW s \in Senders, DeleteUnsent(s) PROVE AttemptsKept'
    BY <1>6 DEF DeleteUnsent, EmptyRow
  <1>7. ASSUME NEW v \in Verifiers, NEW g \in generated \cup {WrongCode}, VerifyCheck(v, g)
        PROVE AttemptsKept'
    <2>1. UNCHANGED <<otp, spoiled>> /\ verifier[v].pc = "idle" /\ c \in Codes
      BY <1>7, <1>c, <1>t DEF VerifyCheck
    <2>2. CASE verifier' = [verifier EXCEPT ![v] = [pc |-> "increment", code |-> c]]
      <3>1. /\ tries' = [tries EXCEPT ![c] = @ + 1]
            /\ otp.attempts < MaxAttempts
        BY <1>7, <1>c, <1>t, <2>2, <2>1 DEF VerifyCheck, VerifierAt
      <3>2. /\ Cardinality(Counting(c)') = Cardinality(Counting(c)) + 1
            /\ Cardinality(Counting(c)) < Cardinality(Verifiers)
        BY <2>1, <2>2, CountingGrows
      <3>3. Cardinality(Counting(otp.code)') = Cardinality(Counting(c)) + 1
        BY <3>2, <2>1, <1>c DEF Counting
      <3>4. /\ tries'[c] = tries[c] + 1
            /\ \A d \in Codes : d # c => tries'[d] = tries[d]
            /\ tries[c] <= otp.attempts + Cardinality(Counting(c))
        BY <3>1, <2>1, <1>t, <1>c
      <3>5. GuessesBounded'
        BY <3>1, <3>2, <3>4, <2>1, <1>t
      <3>6. /\ otp'.code = c /\ otp'.attempts = otp.attempts /\ spoiled' = spoiled
            /\ Counting(otp.code)' = Counting(c)'
        BY <2>1, <1>c DEF Counting
      <3> QED
        BY <3>2, <3>4, <3>5, <3>6, <2>1, <1>c, <1>t
    <2>3. CASE \E pc \in {"delete", "accept"} :
                 verifier' = [verifier EXCEPT ![v] = [pc |-> pc, code |-> c]]
      <3>1. PICK pc \in {"delete", "accept"} :
                 verifier' = [verifier EXCEPT ![v] = [pc |-> pc, code |-> c]]
        BY <2>3
      <3>2. UNCHANGED tries
        BY <1>7, <1>c, <1>t, <2>1, <3>1 DEF VerifyCheck, VerifierAt
      <3>3. v \notin Counting(c)
        BY <2>1 DEF Counting
      <3>4. Counting(c)' = Counting(c)
        BY <3>1, <3>3, CountingStays
      <3> QED
        BY <3>2, <3>4, <2>1, <1>0
    <2> QED
      BY <1>7, <1>c, <2>2, <2>3 DEF VerifyCheck, VerifierAt
  <1>8. ASSUME NEW v \in Verifiers, Increment(v) PROVE AttemptsKept'
    <2>1. /\ verifier[v].pc = "increment" /\ UNCHANGED tries
          /\ verifier' = [verifier EXCEPT ![v] = [pc |-> "idle", code |-> NoCode]]
          /\ otp' = IF c = NoCode THEN otp ELSE [otp EXCEPT !.attempts = @ + 1]
          /\ Spoil(verifier[v].code)
      BY <1>8, <1>c DEF Increment, VerifierAt
    <2>2. CASE c = NoCode
      BY <2>1, <2>2, <1>c
    <2>3. CASE c # NoCode /\ verifier[v].code = c
      <3>1. v \in Counting(c)
        BY <2>1, <2>3, <1>t DEF Counting, Verifier
      <3>2. Cardinality(Counting(c)') = Cardinality(Counting(c)) - 1
        BY <3>1, <2>1, CountingShrinks
      <3>3. otp'.code = c /\ otp'.attempts = otp.attempts + 1
        BY <2>1, <2>3, <1>c DEF CodesKept, OtpTypeOK
      <3>4. Counting(otp.code)' = Counting(c)'
        BY <3>3 DEF Counting
      <3>5. spoiled' = spoiled
        BY <2>1, <2>3, <1>c DEF Spoil
      <3> QED
        BY <3>2, <3>3, <3>4, <3>5, <2>1, <2>3, <1>c, <1>t
    <2>4. CASE c # NoCode /\ verifier[v].code # c
      <3>1. v \notin Counting(c)
        BY <2>4 DEF Counting
      <3>2. Counting(c)' = Counting(c)
        BY <3>1, <2>1, CountingStays
      <3>3. otp'.code = c /\ otp'.attempts = otp.attempts + 1 /\ c \in spoiled'
        BY <2>1, <2>4, <1>c DEF Spoil, CodesKept, OtpTypeOK
      <3>4. Counting(otp.code)' = Counting(c)'
        BY <3>3 DEF Counting
      <3> QED
        BY <3>2, <3>3, <3>4, <2>1, <2>4, <1>c, <1>t
    <2> QED
      BY <2>2, <2>3, <2>4
  <1>9. ASSUME NEW v \in Verifiers, DeleteRefused(v) PROVE AttemptsKept'
    BY <1>9 DEF DeleteRefused, EmptyRow
  <1>10. ASSUME NEW v \in Verifiers, Accept(v) PROVE AttemptsKept'
    BY <1>10 DEF Accept, EmptyRow
  <1>11. CASE UNCHANGED otpVars
    BY <1>11, <1>0 DEF otpVars, Counting
  <1> QED
    BY <1>1, <1>2, <1>3, <1>4, <1>5, <1>6, <1>7, <1>8, <1>9, <1>10, <1>11 DEF OtpNext

-----------------------------------------------------------------------------
LEMMA SessionsInit == OtpInit => SessionsKept
  BY OtpAssumption DEF OtpInit, SessionsKept, CodeSpentOnce, EmptyRow

LEMMA SessionsStep == CodesKept /\ SessionsKept /\ [OtpNext]_otpVars => SessionsKept'
  <1> SUFFICES ASSUME CodesKept, SessionsKept, [OtpNext]_otpVars PROVE SessionsKept'
    OBVIOUS
  <1> USE OtpAssumption DEF SessionsKept, CodeSpentOnce
  <1>t. /\ verifier \in [Verifiers -> Verifier] /\ NoCode \notin spent
        /\ otp.code \in Codes \cup {NoCode}
    BY DEF CodesKept, OtpTypeOK
  <1>0. ASSUME UNCHANGED <<otp, verifier, spent, doubled>> PROVE SessionsKept'
    BY <1>0
  <1>1. CASE OtpTick
    BY <1>1, <1>0 DEF OtpTick
  <1>2. ASSUME NEW s \in Senders, NEW c \in Codes, SendCheck(s, c) PROVE SessionsKept'
    BY <1>2, <1>0 DEF SendCheck
  <1>3. ASSUME NEW s \in Senders, SaveOtp(s) PROVE SessionsKept'
    BY <1>3, <1>t DEF SaveOtp, CodesKept
  <1>4. ASSUME NEW s \in Senders, SmsAccepted(s) PROVE SessionsKept'
    BY <1>4, <1>0 DEF SmsAccepted
  <1>5. ASSUME NEW s \in Senders, SmsFailed(s) PROVE SessionsKept'
    BY <1>5, <1>0 DEF SmsFailed
  <1>6. ASSUME NEW s \in Senders, DeleteUnsent(s) PROVE SessionsKept'
    BY <1>6, <1>t DEF DeleteUnsent, EmptyRow
  <1>7. ASSUME NEW v \in Verifiers, NEW g \in generated \cup {WrongCode}, VerifyCheck(v, g)
        PROVE SessionsKept'
    <2>1. /\ UNCHANGED <<otp, spent>> /\ doubled \subseteq doubled'
          /\ verifier[v].pc = "idle"
      BY <1>7 DEF VerifyCheck
    <2>2. CASE \E pc \in {"delete", "increment"} :
                 verifier' = [verifier EXCEPT ![v] = [pc |-> pc, code |-> otp.code]]
      BY <2>1, <2>2, <1>t
    <2>3. CASE verifier' = [verifier EXCEPT ![v] = [pc |-> "accept", code |-> otp.code]]
      <3>1. (\E u \in Verifiers : verifier[u] = [pc |-> "accept", code |-> otp.code])
              => otp.code \in doubled'
        BY <1>7, <1>t, <2>1, <2>3 DEF VerifyCheck, VerifierAt
      <3>2. \A u \in Verifiers : verifier[u].pc = "accept" /\ verifier[u].code = otp.code
              => otp.code \in doubled'
        BY <3>1, <1>t DEF Verifier
      <3> QED
        BY <2>1, <2>3, <3>2, <1>t
    <2> QED
      BY <1>7, <2>2, <2>3 DEF VerifyCheck, VerifierAt
  <1>8. ASSUME NEW v \in Verifiers, Increment(v) PROVE SessionsKept'
    BY <1>8, <1>t DEF Increment, VerifierAt
  <1>9. ASSUME NEW v \in Verifiers, DeleteRefused(v) PROVE SessionsKept'
    BY <1>9, <1>t DEF DeleteRefused, VerifierAt, EmptyRow
  <1>10. ASSUME NEW v \in Verifiers, Accept(v) PROVE SessionsKept'
    <2>1. verifier[v].code # NoCode
      BY <1>10 DEF Accept, CodesKept, OtpTypeOK
    <2> QED
      BY <1>10, <2>1, <1>t DEF Accept, VerifierAt, EmptyRow
  <1>11. CASE UNCHANGED otpVars
    BY <1>11, <1>0 DEF otpVars
  <1> QED
    BY <1>1, <1>2, <1>3, <1>4, <1>5, <1>6, <1>7, <1>8, <1>9, <1>10, <1>11 DEF OtpNext

-----------------------------------------------------------------------------
LEMMA NewestInit == OtpInit => NewestKept
  BY OtpAssumption DEF OtpInit, NewestKept, DeliveredIsStored, EmptyRow, Nothing

(* What the row's attempts mean once no stale write has touched it.        *)
LEMMA TriedTooOften ==
    ASSUME CodesKept, AttemptsKept, otp.code # NoCode, otp.code \notin spoiled,
           otp.attempts >= MaxAttempts
    PROVE  tries[otp.code] >= MaxAttempts
  <1>1. /\ Cardinality(Counting(otp.code)) \in Nat /\ otp.attempts \in Nat
        /\ tries[otp.code] \in Nat
    BY CountingIsFinite DEF CodesKept, OtpTypeOK
  <1> QED
    BY <1>1, OtpAssumption DEF AttemptsKept

LEMMA NewestStep ==
    CodesKept /\ AttemptsKept /\ NewestKept /\ [OtpNext]_otpVars => NewestKept'
  <1> SUFFICES ASSUME CodesKept, AttemptsKept, NewestKept, [OtpNext]_otpVars
               PROVE NewestKept'
    OBVIOUS
  <1> USE OtpAssumption DEF NewestKept, DeliveredIsStored, Expired
  <1>t. /\ verifier \in [Verifiers -> Verifier] /\ tries \in [Codes -> Nat]
        /\ otp.code \in Codes \cup {NoCode} /\ otpNow \in Nat /\ otp.at \in Nat
        /\ delivered.code \in Codes \cup {NoCode} /\ delivered.at \in Nat
    BY DEF CodesKept, OtpTypeOK
  <1>0. ASSUME UNCHANGED <<otpNow, otp, tries, spent, delivered, spoiled>>,
               \A v \in Verifiers : verifier'[v] = verifier[v] \/ verifier'[v].pc # "delete"
        PROVE NewestKept'
    BY <1>0
  <1>1. CASE OtpTick
    BY <1>1, <1>t DEF OtpTick
  <1>2. ASSUME NEW s \in Senders, NEW c \in Codes, SendCheck(s, c) PROVE NewestKept'
    BY <1>2, <1>0 DEF SendCheck
  <1>3. ASSUME NEW s \in Senders, SaveOtp(s) PROVE NewestKept'
    <2>1. /\ delivered' = Nothing /\ UNCHANGED verifier
          /\ otp'.code = sender[s].code /\ sender[s].code \in Codes
      BY <1>3 DEF SaveOtp, CodesKept, OtpTypeOK, Sending
    <2>2. \A v \in Verifiers : verifier[v].pc = "delete" => verifier[v].code # otp'.code
      BY <1>3, <2>1 DEF SaveOtp, CodesKept
    <2> QED
      BY <2>1, <2>2 DEF Nothing
  <1>4. ASSUME NEW s \in Senders, SmsAccepted(s) PROVE NewestKept'
    BY <1>4, <1>t DEF SmsAccepted
  <1>5. ASSUME NEW s \in Senders, SmsFailed(s) PROVE NewestKept'
    BY <1>5, <1>0 DEF SmsFailed
  <1>6. ASSUME NEW s \in Senders, DeleteUnsent(s) PROVE NewestKept'
    <2>1. /\ otp' = EmptyRow /\ Spoil(sender[s].code) /\ delivered.code # sender[s].code
          /\ UNCHANGED <<otpNow, verifier, tries, spent, delivered>>
      BY <1>6 DEF DeleteUnsent, CodesKept, Sending
    <2>2. otp'.code = NoCode /\ (delivered.code = otp.code /\ otp.code # NoCode
                                    => otp.code \in spoiled')
      BY <2>1 DEF EmptyRow, Spoil
    <2>3. spoiled \subseteq spoiled'
      BY <2>1 DEF Spoil
    <2>4. \A v \in Verifiers : verifier[v].pc # "idle" => verifier[v].code # NoCode
      BY DEF CodesKept, OtpTypeOK
    <2> QED
      BY <2>1, <2>2, <2>3, <2>4, <1>t
  <1>7. ASSUME NEW v \in Verifiers, NEW g \in generated \cup {WrongCode}, VerifyCheck(v, g)
        PROVE NewestKept'
    <2>1. /\ UNCHANGED <<otpNow, otp, spent, delivered, spoiled>> /\ otp.code \in Codes
      BY <1>7, <1>t DEF VerifyCheck
    <2>2. CASE verifier' = [verifier EXCEPT ![v] = [pc |-> "delete", code |-> otp.code]]
      <3>1. UNCHANGED tries /\ (otp.attempts >= MaxAttempts \/ Expired(otp))
        BY <1>7, <1>t, <2>1, <2>2 DEF VerifyCheck, VerifierAt
      <3>2. otp.code \notin spoiled => Expired(otp) \/ tries[otp.code] >= MaxAttempts
        BY <3>1, <2>1, TriedTooOften
      <3> QED
        BY <2>1, <2>2, <3>1, <3>2, <1>t
    <2>3. CASE \E pc \in {"increment", "accept"} :
                 verifier' = [verifier EXCEPT ![v] = [pc |-> pc, code |-> otp.code]]
      <3>1. tries' = tries \/ tries' = [tries EXCEPT ![otp.code] = @ + 1]
        BY <1>7 DEF VerifyCheck
      <3>2. \A c \in Codes : tries'[c] >= tries[c] /\ tries'[c] \in Nat
        BY <3>1, <2>1, <1>t
      <3>3. \A u \in Verifiers : verifier'[u] = verifier[u] \/ verifier'[u].pc # "delete"
        BY <2>3, <1>t
      <3> QED
        BY <2>1, <3>2, <3>3, <1>t
    <2> QED
      BY <1>7, <2>2, <2>3 DEF VerifyCheck, VerifierAt
  <1>8. ASSUME NEW v \in Verifiers, Increment(v) PROVE NewestKept'
    <2>1. /\ otp'.code = otp.code /\ otp'.at = otp.at /\ spoiled \subseteq spoiled'
          /\ UNCHANGED <<otpNow, tries, spent, delivered>>
          /\ verifier' = [verifier EXCEPT ![v] = [pc |-> "idle", code |-> NoCode]]
      BY <1>8 DEF Increment, VerifierAt, Spoil, CodesKept, OtpTypeOK
    <2> QED
      BY <2>1, <1>t
  <1>9. ASSUME NEW v \in Verifiers, DeleteRefused(v) PROVE NewestKept'
    <2>1. /\ otp' = EmptyRow /\ Spoil(verifier[v].code) /\ verifier[v].pc = "delete"
          /\ UNCHANGED <<otpNow, tries, spent, delivered>>
          /\ verifier' = [verifier EXCEPT ![v] = [pc |-> "idle", code |-> NoCode]]
      BY <1>9 DEF DeleteRefused, VerifierAt
    <2>2. otp'.code = NoCode /\ spoiled \subseteq spoiled'
          /\ (verifier[v].code # otp.code /\ otp.code # NoCode => otp.code \in spoiled')
      BY <2>1 DEF EmptyRow, Spoil
    <2>3. \A u \in Verifiers : verifier[u].pc # "idle" => verifier[u].code # NoCode
      BY DEF CodesKept, OtpTypeOK
    <2>4. DeliveredIsStored'
      BY <2>1, <2>2, <2>3, <1>t
    <2> QED
      BY <2>1, <2>2, <2>3, <2>4, <1>t
  <1>10. ASSUME NEW v \in Verifiers, Accept(v) PROVE NewestKept'
    <2>1. /\ otp' = EmptyRow /\ Spoil(verifier[v].code) /\ spent' = spent \cup {verifier[v].code}
          /\ UNCHANGED <<otpNow, tries, delivered>>
          /\ verifier' = [verifier EXCEPT ![v] = [pc |-> "idle", code |-> NoCode]]
      BY <1>10 DEF Accept, VerifierAt
    <2>2. otp'.code = NoCode /\ spoiled \subseteq spoiled'
          /\ (verifier[v].code # otp.code /\ otp.code # NoCode => otp.code \in spoiled')
      BY <2>1 DEF EmptyRow, Spoil
    <2>3. \A u \in Verifiers : verifier[u].pc # "idle" => verifier[u].code # NoCode
      BY DEF CodesKept, OtpTypeOK
    <2> QED
      BY <2>1, <2>2, <2>3, <1>t
  <1>11. CASE UNCHANGED otpVars
    BY <1>11, <1>0 DEF otpVars
  <1> QED
    BY <1>1, <1>2, <1>3, <1>4, <1>5, <1>6, <1>7, <1>8, <1>9, <1>10, <1>11 DEF OtpNext

-----------------------------------------------------------------------------
OtpInv == CodesKept /\ AttemptsKept /\ SessionsKept /\ NewestKept

LEMMA OtpInvHolds == OtpSpec => []OtpInv
  <1>1. OtpInit => OtpInv
    BY CodesInit, AttemptsInit, SessionsInit, NewestInit DEF OtpInv
  <1>2. OtpInv /\ [OtpNext]_otpVars => OtpInv'
    BY CodesStep, AttemptsStep, SessionsStep, NewestStep DEF OtpInv
  <1> QED
    BY <1>1, <1>2, PTL DEF OtpSpec

(* Every stored code is compared with a bounded number of wrong guesses:   *)
(* otp_max_attempts, and fewer more than there are requests at once.       *)
THEOREM CodesAreGuessedBoundedly == OtpSpec => []GuessesBounded
  BY OtpInvHolds, PTL DEF OtpInv, AttemptsKept

(* A code opens one session, unless two verifications read it before       *)
(* either deleted it.                                                      *)
THEOREM CodesAreSpentOnce == OtpSpec => []CodeSpentOnce
  BY OtpInvHolds, PTL DEF OtpInv, SessionsKept

(* The code delivered last stays stored until it is spent, expires or has  *)
(* been tried too often, unless a request that read another row spoils it. *)
THEOREM DeliveredCodesWork == OtpSpec => []DeliveredIsStored
  BY OtpInvHolds, PTL DEF OtpInv, NewestKept

-----------------------------------------------------------------------------
(***************************************************************************)
(* Where a payout may be sent                                              *)
(***************************************************************************)
(* A verification under way holds an account its slot's verifications have *)
(* read, and the flag of a slot is set only for such an account, the       *)
(* default one, or one a verification has marked without having read it.   *)
AccountsInv ==
    /\ AccountsTypeOK
    /\ \A s \in Slots : accounts[s].upi \in WellFormed \cup {NoUpi}
    /\ \A v \in AccountVerifiers :
         check[v] # NoCheck => check[v].upi \in confirmed[check[v].slot]
    /\ \A s \in Slots : accounts[s].verified =>
         accounts[s].upi \in confirmed[s] \cup {DefaultUpi} \/ s \in swapped

LEMMA AccountsInvHolds == AccountsSpec => []AccountsInv
<1> USE PayoutAccountsAssumption
<1>1. AccountsInit => AccountsInv
  BY DEF AccountsInit, AccountsInv, AccountsTypeOK, Account, Slots
<1>2. ASSUME AccountsInv, [AccountsNext]_accountVars PROVE AccountsInv'
  <2> USE <1>2 DEF AccountsInv, AccountsTypeOK, Account, Slots
  <2>1. CASE UpsertWorker
    BY <2>1 DEF UpsertWorker
  <2>2. ASSUME NEW s \in Slots, NEW u \in UpiIds, UpdateAccount(s, u) PROVE AccountsInv'
    BY <2>2 DEF UpdateAccount
  <2>3. ASSUME NEW v \in AccountVerifiers, NEW s \in Slots, ReadAccount(v, s)
        PROVE AccountsInv'
    BY <2>3 DEF ReadAccount
  <2>4. ASSUME NEW v \in AccountVerifiers, MarkVerified(v) PROVE AccountsInv'
    BY <2>4 DEF MarkVerified
  <2>5. ASSUME NEW v \in AccountVerifiers, DropCheck(v) PROVE AccountsInv'
    BY <2>5 DEF DropCheck
  <2>6. CASE UNCHANGED accountVars
    BY <2>6 DEF accountVars
  <2> QED
    BY <2>1, <2>2, <2>3, <2>4, <2>5, <2>6 DEF AccountsNext
<1> QED
  BY <1>1, <1>2, PTL DEF AccountsSpec

(* A payout is sent only to a well formed account, the one of registration *)
(* or one that a verification of its slot has read, or else to one that    *)
(* replaced it between that verification's read and its write.             *)
THEOREM PayoutsGoToConfirmedAccounts == AccountsSpec => []PaidToConfirmed
<1>1. AccountsInv => PaidToConfirmed
  BY PayoutAccountsAssumption DEF AccountsInv, PaidToConfirmed, PreferredSlot, Usable, Slots
<1> QED
  BY <1>1, AccountsInvHolds, PTL
=============================================================================
