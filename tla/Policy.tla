------------------------------- MODULE Policy -------------------------------
(***************************************************************************)
(* A worker's profile, plan queue and premium payments: workers.py,        *)
(* policy.py, coverage.py and the worker and premium rows of db.py.  Every *)
(* statement is keyed by the phone, so one worker stands for all.  A       *)
(* request is a coroutine; it gives way at each await, so each database    *)
(* statement and each call of the billing service is a step.               *)
(*                                                                         *)
(* Time is cut where the code's comparisons change: a week n has the       *)
(* instants 3n, Monday's first minute, in which the date is already the    *)
(* week's but its cycle has not begun; 3n + 1, the rest of Monday; and     *)
(* 3n + 2, the other days.  A date is known by its week.                   *)
(***************************************************************************)
EXTENDS Integers, FiniteSets

CONSTANTS
    Plans,         \* Basic, Standard, Premium
    PolRequests,   \* requests, each used once
    OrderKeys,     \* values of clientRequestId
    FirstWeek, LastWeek,   \* bounds of the modelled weeks
    PastStreaks,   \* lengths of the run of paid weeks before FirstWeek
    Modes,         \* billing_service_enabled: "billing", else "client"
    NoPlan, NoRow

ASSUME PolicyAssumption ==
    /\ FirstWeek \in Nat /\ LastWeek \in Nat /\ FirstWeek <= LastWeek
    /\ PastStreaks \subseteq 0..FirstWeek
    /\ Modes \subseteq {"client", "billing"}
    /\ NoPlan \notin Plans

VARIABLES
    clock,      \* the current instant
    mode,
    worker,     \* the workers row: its plan, the queued plan and its instant
    premiums,   \* premium_payments: the status of each week
    covered,    \* weeks the billing service answers active for
    orders,     \* payment orders the billing service holds
    request,    \* each request's progress and what it has read
    asked       \* history: the change PUT /plan queued last, see below

polVars == <<clock, mode, worker, premiums, covered, orders, request, asked>>

Weeks == 0..LastWeek + 1
Instants == 3 * FirstWeek .. 3 * LastWeek + 2
Entry == [plan : Plans, pending : Plans \cup {NoPlan}, at : Nat]
Change == [plan : Plans, at : Nat]
Request == [pc : {"new", "apply", "load", "serve", "schedule", "pending", "done"},
            row : Entry \cup {NoRow}, at : Nat]

ASSUME NoRowAssumption == NoRow \notin Entry \cup Change

PolicyTypeOK ==
    /\ clock \in Instants
    /\ mode \in Modes
    /\ worker \in Entry \cup {NoRow}
    /\ premiums \in [Weeks -> {"none", "paid", "missed", "failed"}]
    /\ covered \subseteq Weeks
    /\ orders \subseteq [key : OrderKeys, plan : Plans, week : Weeks]
    /\ request \in [PolRequests -> Request]
    /\ asked \in Change \cup {NoRow}

PolicyInit ==
    /\ clock = 3 * FirstWeek
    /\ mode \in Modes
    /\ worker = NoRow
    /\ \E s \in PastStreaks :
         IF mode = "client"
         THEN /\ premiums = [w \in Weeks |->
                    IF w \in FirstWeek - s .. FirstWeek - 1 THEN "paid" ELSE "none"]
              /\ covered = {}
         ELSE /\ premiums = [w \in Weeks |-> "none"]
              /\ covered = FirstWeek - s .. FirstWeek - 1
    /\ orders = {}
    /\ request = [r \in PolRequests |-> [pc |-> "new", row |-> NoRow, at |-> 0]]
    /\ asked = NoRow

PolicyTick ==
    /\ clock + 1 \in Instants
    /\ clock' = clock + 1
    /\ UNCHANGED <<mode, worker, premiums, covered, orders, request, asked>>

-----------------------------------------------------------------------------
(***************************************************************************)
(* Weeks and cycles                                                        *)
(***************************************************************************)
WeekOf(t) == t \div 3
CycleStart(t) == 3 * WeekOf(t) + 1
NextWeekStart(t) == IF t < CycleStart(t) THEN CycleStart(t) ELSE CycleStart(t) + 3

(* Mutant of CoerceWeekStart: a past week is taken as it was sent.         *)
CoerceWeekStart_AsSent(w, t) == w

(* A missing week is sent as week 0.                                       *)
CoerceWeekStart(w, t) ==
    IF w < WeekOf(NextWeekStart(t)) THEN WeekOf(NextWeekStart(t)) ELSE w

(* Mutant of PlanForWeek: whether a plan is queued at all is not asked.    *)
PlanForWeek_Unqueued(row, w) == IF WeekOf(row.at) <= w THEN row.pending ELSE row.plan

PlanForWeek(row, w) ==
    IF row.pending # NoPlan /\ WeekOf(row.at) <= w THEN row.pending ELSE row.plan

(***************************************************************************)
(* What is paid, and what the app and the claims gate make of it           *)
(***************************************************************************)
PaidWeeks ==
    IF mode = "client" THEN {w \in Weeks : premiums[w] = "paid"}
    ELSE covered \cap {WeekOf(clock), WeekOf(clock) + 1}

(* The run of paid weeks that ends with the current one.  The bounds of    *)
(* 104 weeks here and 52 rows in the query lie beyond the modelled weeks.  *)
CleanStreak(paid) ==
    Cardinality({v \in paid : v <= WeekOf(clock) /\ v..WeekOf(clock) \subseteq paid})

CycleWeek(streak) == IF streak <= 0 THEN 0 ELSE ((streak - 1) % 9) + 1
LoyaltyPercent(streak) ==
    CASE CycleWeek(streak) >= 6 -> 10
      [] CycleWeek(streak) \in {4, 5} -> 5
      [] OTHER -> 0

(* Mutant of PolicyStatus: a scheduled cycle that is paid reads active.    *)
PolicyStatus_Scheduled(row, paid) ==
    IF \E w \in paid : w >= WeekOf(clock) THEN "active" ELSE "inactive"

(* _policy_cycle_context and the status _build_policy derives from it.     *)
PolicyStatus(row, paid) ==
    IF \/ row.pending # NoPlan /\ row.at > clock
       \/ \E w \in paid : w > WeekOf(clock)
    THEN "scheduled"
    ELSE IF WeekOf(clock) \in paid THEN "active" ELSE "inactive"

ActiveCoverage ==
    IF mode = "billing" THEN WeekOf(clock) \in covered
    ELSE premiums[WeekOf(clock)] = "paid"

-----------------------------------------------------------------------------
At(r, pc) == request[r].pc = pc
Goto(r, pc, row, at) ==
    request' = [request EXCEPT ![r] = [pc |-> pc, row |-> row, at |-> at]]
Finish(r) == Goto(r, "done", NoRow, 0)
Queue(plan, at) == worker' = [worker EXCEPT !.pending = plan, !.at = at]

(***************************************************************************)
(* get_current_worker: a queued plan that is due is applied, then the row  *)
(* is read again.  Both writes are by phone alone.                         *)
(***************************************************************************)
(* Mutant of ReadDue: the instant of the queued plan is not compared.      *)
ReadDue_AnyTime(r) ==
    /\ At(r, "new")
    /\ worker # NoRow
    /\ Goto(r, IF worker.pending # NoPlan THEN "apply" ELSE "load", worker, 0)
    /\ UNCHANGED <<clock, mode, worker, premiums, covered, orders, asked>>

ReadDue(r) ==
    /\ At(r, "new")
    /\ worker # NoRow
    /\ Goto(r, IF worker.pending # NoPlan /\ worker.at <= clock
               THEN "apply" ELSE "load", worker, 0)
    /\ UNCHANGED <<clock, mode, worker, premiums, covered, orders, asked>>

(* A request that applies what it read earlier over a row that has changed *)
(* since loses the change: asked forgets it.                               *)
ApplyDue(r) ==
    /\ At(r, "apply")
    /\ worker' = [plan |-> request[r].row.pending, pending |-> NoPlan, at |-> 0]
    /\ asked' = IF worker = request[r].row THEN asked ELSE NoRow
    /\ Goto(r, "load", request[r].row, 0)
    /\ UNCHANGED <<clock, mode, premiums, covered, orders>>

LoadWorker(r) ==
    /\ At(r, "load")
    /\ Goto(r, "serve", worker, 0)
    /\ UNCHANGED <<clock, mode, worker, premiums, covered, orders, asked>>

(***************************************************************************)
(* The handlers.  What they answer changes nothing: GET /me only reads.    *)
(***************************************************************************)
GetPolicy(r) ==
    /\ At(r, "serve")
    /\ Finish(r)
    /\ UNCHANGED <<clock, mode, worker, premiums, covered, orders, asked>>

(* The plan the request read as current is answered without a write.       *)
UpdatePlan(r, p) ==
    /\ At(r, "serve")
    /\ p # request[r].row.plan
    /\ Queue(p, NextWeekStart(clock))
    /\ asked' = [plan |-> p, at |-> NextWeekStart(clock)]
    /\ Finish(r)
    /\ UNCHANGED <<clock, mode, premiums, covered, orders>>

RecordPayment(r, w, st) ==
    /\ At(r, "serve")
    /\ mode = "client"
    /\ LET week == CoerceWeekStart(w, clock) IN
         /\ premiums' = [premiums EXCEPT ![week] = st]
         /\ IF st = "paid"
            THEN Goto(r, "schedule", request[r].row, 3 * week + 1)
            ELSE Finish(r)
    /\ UNCHANGED <<clock, mode, worker, covered, orders, asked>>

(* The plan the request read, not the queued one, is queued for the week.  *)
SchedulePaid(r) ==
    /\ At(r, "schedule")
    /\ Queue(request[r].row.plan, request[r].at)
    /\ asked' = NoRow
    /\ Finish(r)
    /\ UNCHANGED <<clock, mode, premiums, covered, orders>>

(* create_payment_order and the billing service's promise about its keys:  *)
(* the same request again is answered with its order, another one refused. *)
CreateOrder(r, k) ==
    /\ At(r, "serve")
    /\ mode = "billing"
    /\ LET week == WeekOf(NextWeekStart(clock))
       IN  orders' = IF \E o \in orders : o.key = k THEN orders
                     ELSE orders \cup {[key |-> k, week |-> week,
                              plan |-> PlanForWeek(request[r].row, week)]}
    /\ Finish(r)
    /\ UNCHANGED <<clock, mode, worker, premiums, covered, asked>>

(* PUT /workers/me: the plan changes at once and is queued as well.        *)
UpdateProfile(r, p) ==
    /\ At(r, "serve")
    /\ worker' = [plan |-> p, pending |-> p, at |-> NextWeekStart(clock)]
    /\ asked' = NoRow
    /\ Finish(r)
    /\ UNCHANGED <<clock, mode, premiums, covered, orders>>

(* register: upsert_worker keeps a queue it finds (COALESCE), then         *)
(* set_pending_worker_plan replaces it.                                    *)
Register(r, p) ==
    /\ At(r, "new")
    /\ worker' = IF worker = NoRow THEN [plan |-> p, pending |-> NoPlan, at |-> 0]
                 ELSE [worker EXCEPT !.plan = p]
    /\ asked' = NoRow
    /\ Goto(r, "pending", worker', 0)
    /\ UNCHANGED <<clock, mode, premiums, covered, orders>>

QueueRegistered(r) ==
    /\ At(r, "pending")
    /\ Queue(request[r].row.plan, NextWeekStart(clock))
    /\ asked' = NoRow
    /\ Finish(r)
    /\ UNCHANGED <<clock, mode, premiums, covered, orders>>

(* An exception or the end of the process.                                 *)
DropRequest(r) ==
    /\ request[r].pc \in {"apply", "load", "schedule", "pending"}
    /\ Finish(r)
    /\ UNCHANGED <<clock, mode, worker, premiums, covered, orders, asked>>

(* The billing service covers a paid order's week, and may revoke it.      *)
CoverWeek(o) ==
    /\ mode = "billing"
    /\ covered' = covered \cup {o.week}
    /\ UNCHANGED <<clock, mode, worker, premiums, orders, request, asked>>
RevokeWeek(w) ==
    /\ mode = "billing"
    /\ covered' = covered \ {w}
    /\ UNCHANGED <<clock, mode, worker, premiums, orders, request, asked>>

PolicyNext ==
    \/ PolicyTick
    \/ \E r \in PolRequests :
         \/ ReadDue(r) \/ ApplyDue(r) \/ LoadWorker(r)
         \/ GetPolicy(r)
         \/ \E p \in Plans : UpdatePlan(r, p) \/ UpdateProfile(r, p) \/ Register(r, p)
         \/ \E w \in {0, WeekOf(clock) - 1, WeekOf(clock), WeekOf(clock) + 1},
               st \in {"paid", "missed", "failed"} :
              w \in Weeks /\ RecordPayment(r, w, st)
         \/ SchedulePaid(r)
         \/ \E k \in OrderKeys : CreateOrder(r, k)
         \/ QueueRegistered(r)
         \/ DropRequest(r)
    \/ \E o \in orders : CoverWeek(o)
    \/ \E w \in covered : RevokeWeek(w)

PolicySpec == PolicyInit /\ [][PolicyNext]_polVars

-----------------------------------------------------------------------------
(***************************************************************************)
(* Properties                                                              *)
(***************************************************************************)
(* The change PUT /plan answered "queued for next week" to stays queued    *)
(* until its week and is the worker's plan from then on, whatever requests *)
(* interleave, as long as no payment, profile update or registration asks  *)
(* for another plan and no request applies an older reading over it.       *)
QueuedPlanKept == asked # NoRow =>
    \/ worker.pending = asked.plan /\ worker.at = asked.at
    \/ worker.pending = NoPlan /\ worker.plan = asked.plan /\ clock >= asked.at

(* "A successful payment always schedules coverage for the upcoming paid   *)
(* cycle, never for the already-running week": no week becomes paid, and   *)
(* no order is made for one, once its cycle has begun.                     *)
CoverageBoughtAhead == [][
    /\ \A w \in Weeks : premiums'[w] = "paid" /\ premiums[w] # "paid"
                            => clock <= 3 * w
    /\ \A o \in orders' \ orders : clock <= 3 * o.week]_polVars

(* What policy.py shows agrees with what the claims gate of coverage.py    *)
(* decides: no policy reads active in a week whose claims the gate would   *)
(* refuse, and no discount is shown without four paid weeks up to now.     *)
ShownIsReal == worker # NoRow =>
    /\ PolicyStatus(worker, PaidWeeks) = "active" => ActiveCoverage
    /\ LoyaltyPercent(CleanStreak(PaidWeeks)) > 0 =>
         \A k \in 0..3 : premiums[WeekOf(clock) - k] = "paid"
=============================================================================
