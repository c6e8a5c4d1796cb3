------------------------------- MODULE Claims -------------------------------
(***************************************************************************)
(* Claims and their payouts in the FastAPI backend (backend/app): claims   *)
(* raised by the trigger monitor, by a forced trigger or by a worker, the  *)
(* admin's review, the worker's escalation, and initiate_claim_payout.     *)
(*                                                                         *)
(* The backend uses no transactions: core/db.py runs every statement on a  *)
(* pooled connection that commits it at once, so handlers interleave       *)
(* between any two statements and a crash keeps the statements before it.  *)
(* A step below is one statement, with what the handler does with its      *)
(* result before the next one.                                             *)
(***************************************************************************)
EXTENDS Integers, FiniteSets

CONSTANTS
    Workers, Types,                  \* phones; claim types
    ClaimIds, TransferIds, EscalationIds,
    Monitors,    \* the scheduled refresh_live_trigger_state
    Forcers,     \* calls of force_trigger_for_zone
    Admins,      \* calls of POST /admin/claims/{id}/review
    Submitters,  \* calls of POST /claims/submit
    Escalators,  \* calls of POST /claims/{id}/escalate
    MaxDays,     \* maxDaysPerWeek of each worker's plan
    TicksPerDay, Window,   \* the clock; 360 minutes in its ticks
    Start, MaxTime,        \* bounds: the first and the last tick
    CanCrash,              \* bound: whether threads may die
    NoClaim, NoTransfer, NoEscalation, NoRow, NoScan, NoReview, NoWorker

Autos  == Monitors \cup Forcers
Payers == Autos \cup Admins

Row  == [worker : Workers, type : Types, at : Nat,
         source : {"auto", "forced", "manual"}]
Scan == [worker : Workers, type : Types, hold : BOOLEAN]
Review == [escalation : EscalationIds \cup {NoEscalation},
           verdict : {"resolved", "rejected"}]
Escalation == [claim : ClaimIds,
               status : {"pending_review", "resolved", "rejected"}]
Statuses == {"none", "in_review", "settled", "rejected", "escalated"}
PayerState == [pc : {"idle", "reload", "check", "pay", "link", "block"},
               claim : ClaimIds \cup {NoClaim},
               transfer : TransferIds \cup {NoTransfer}]
EscalatorState == [pc : {"idle", "flag", "insert"},
                   claim : ClaimIds \cup {NoClaim}]

ASSUME ClockAssumption ==
    /\ TicksPerDay \in Nat \ {0}
    /\ Window \in Nat /\ Start \in Nat /\ MaxTime \in Nat
    /\ Start <= MaxTime

ASSUME PlanAssumption == MaxDays \in [Workers -> Nat \ {0}]

(* APScheduler runs one instance of a job at a time, in one process.       *)
ASSUME SchedulerAssumption == \A m, n \in Monitors : m = n

ASSUME ThreadAssumption ==
    /\ Autos \cap Admins = {} /\ Monitors \cap Forcers = {}
    /\ CanCrash \in BOOLEAN

ASSUME NullsAssumption ==
    /\ NoClaim \notin ClaimIds
    /\ NoTransfer \notin TransferIds
    /\ NoEscalation \notin EscalationIds \cup Escalation
    /\ NoRow \notin Row /\ NoWorker \notin Workers
    /\ NoScan \notin Scan
    /\ NoReview \notin Review

VARIABLES
    now,
    row,          \* the columns of a claim that never change
    status,       \* claims.status
    linked,       \* claims.payout_transfer_id
    transfer,     \* payout_transfers.claim_id
    escalation,   \* claim_escalations
    scan,         \* auto threads: the claim about to be inserted
    payer,        \* threads in initiate_claim_payout
    review,       \* admins: the rest of review_claim
    submitter, escalator,
    overlapped, abandoned, demoted   \* history of claims, see below

tables  == <<row, status, linked, transfer, escalation>>
threads == <<scan, payer, review, submitter, escalator>>
history == <<overlapped, abandoned, demoted>>
vars    == <<now, tables, threads, history>>

IdlePayer == [pc |-> "idle", claim |-> NoClaim, transfer |-> NoTransfer]
IdleEscalator == [pc |-> "idle", claim |-> NoClaim]

TypeOK ==
    /\ now \in Start..MaxTime
    /\ row \in [ClaimIds -> Row \cup {NoRow}]
    /\ status \in [ClaimIds -> Statuses]
    /\ linked \in [ClaimIds -> TransferIds \cup {NoTransfer}]
    /\ transfer \in [TransferIds -> ClaimIds \cup {NoClaim}]
    /\ escalation \in [EscalationIds -> Escalation \cup {NoEscalation}]
    /\ scan \in [Autos -> Scan \cup {NoScan}]
    /\ payer \in [Payers -> PayerState]
    /\ review \in [Admins -> Review \cup {NoReview}]
    /\ submitter \in [Submitters -> Workers \cup {NoWorker}]
    /\ escalator \in [Escalators -> EscalatorState]
    /\ overlapped \subseteq ClaimIds
    /\ abandoned \subseteq ClaimIds
    /\ demoted \subseteq ClaimIds

Init ==
    /\ now = Start
    /\ row = [c \in ClaimIds |-> NoRow]
    /\ status = [c \in ClaimIds |-> "none"]
    /\ linked = [c \in ClaimIds |-> NoTransfer]
    /\ transfer = [t \in TransferIds |-> NoClaim]
    /\ escalation = [e \in EscalationIds |-> NoEscalation]
    /\ scan = [p \in Autos |-> NoScan]
    /\ payer = [p \in Payers |-> IdlePayer]
    /\ review = [p \in Admins |-> NoReview]
    /\ submitter = [s \in Submitters |-> NoWorker]
    /\ escalator = [x \in Escalators |-> IdleEscalator]
    /\ overlapped = {} /\ abandoned = {} /\ demoted = {}

Tick ==
    /\ now < MaxTime
    /\ now' = now + 1
    /\ UNCHANGED <<tables, threads, history>>

-----------------------------------------------------------------------------
(***************************************************************************)
(* Days, weeks and the queries on claims.  Day 0 is a Monday.              *)
(***************************************************************************)
Day(t) == t \div TicksPerDay
WeekStart(t) == (Day(t) \div 7) * 7 * TicksPerDay

Exists(c) == row[c] # NoRow

(* Mutant of CoveredDays: only claims of the monitor are counted, as       *)
(* count_settled_auto_claim_days_for_phone_since does.                     *)
CoveredDays_Auto(w, since) ==
    {Day(row[c].at) : c \in {d \in ClaimIds :
        /\ Exists(d)
        /\ row[d].worker = w
        /\ row[d].source = "auto"
        /\ status[d] = "settled"
        /\ row[d].at >= since}}

(* count_settled_claim_days_for_phone_since: there is no upper end.        *)
CoveredDays(w, since) ==
    {Day(row[c].at) : c \in {d \in ClaimIds :
        /\ Exists(d)
        /\ row[d].worker = w
        /\ status[d] = "settled"
        /\ row[d].at >= since}}

CapReached(w, t) == Cardinality(CoveredDays(w, WeekStart(t))) >= MaxDays[w]

(* Mutant of RecentAuto: a claim held for review does not count.           *)
RecentAuto_Settled(w, k) == \E c \in ClaimIds :
    /\ Exists(c)
    /\ row[c].worker = w
    /\ row[c].type = k
    /\ row[c].source = "auto"
    /\ status[c] = "settled"
    /\ now - row[c].at <= Window

(* has_recent_auto_claim: forced and manual claims are not looked at.      *)
RecentAuto(w, k) == \E c \in ClaimIds :
    /\ Exists(c)
    /\ row[c].worker = w
    /\ row[c].type = k
    /\ row[c].source = "auto"
    /\ now - row[c].at <= Window

(***************************************************************************)
(* History: overlapped claims had two payouts at work at once, or one that *)
(* died between its two statements; abandoned claims had a thread die at   *)
(* them; demoted claims were moved by a review, an escalation or a blocked *)
(* payout while or after they were paid.                                   *)
(***************************************************************************)
Paid(c) == \E t \in TransferIds : transfer[t] = c
Paying(c) == \E p \in Payers :
    payer[p].pc \in {"reload", "check", "pay", "link"} /\ payer[p].claim = c

Demote(c, st) ==
    /\ status' = [status EXCEPT ![c] = st]
    /\ demoted' = IF Paid(c) \/ Paying(c) THEN demoted \cup {c} ELSE demoted

PayerAt(p, pc, c, t) ==
    payer' = [payer EXCEPT ![p] = [pc |-> pc, claim |-> c, transfer |-> t]]
EscalatorAt(x, pc, c) ==
    escalator' = [escalator EXCEPT ![x] = [pc |-> pc, claim |-> c]]

-----------------------------------------------------------------------------
(***************************************************************************)
(* New claims.  The coverage gate is a call of the billing service that    *)
(* only refuses; a refused request changes nothing and is not a step.      *)
(***************************************************************************)
NewRow(c, w, k, src, st) ==
    /\ row[c] = NoRow
    /\ row' = [row EXCEPT ![c] =
           [worker |-> w, type |-> k, at |-> now, source |-> src]]
    /\ status' = [status EXCEPT ![c] = st]

SubmitCheck(s, w) ==
    /\ submitter[s] = NoWorker
    /\ ~ CapReached(w, now)
    /\ submitter' = [submitter EXCEPT ![s] = w]
    /\ UNCHANGED <<now, tables, scan, payer, review, escalator, history>>

SubmitInsert(s, c, k) ==
    /\ submitter[s] # NoWorker
    /\ NewRow(c, submitter[s], k, "manual", "in_review")
    /\ submitter' = [submitter EXCEPT ![s] = NoWorker]
    /\ UNCHANGED <<now, linked, transfer, escalation, scan, payer, review,
                   escalator, history>>

(* One worker of a zone in a cycle of the monitor: the claim is held when  *)
(* the cap is reached, and also for its anomaly score, a velocity spike or *)
(* a new account (h).                                                      *)
ScanWorker(p, w, k, h) ==
    /\ scan[p] = NoScan /\ payer[p].pc = "idle"
    /\ ~ RecentAuto(w, k)
    /\ scan' = [scan EXCEPT ![p] =
           [worker |-> w, type |-> k, hold |-> h \/ CapReached(w, now)]]
    /\ UNCHANGED <<now, tables, payer, review, submitter, escalator, history>>

(* force_trigger_for_zone does not look at the cap before the insert.      *)
ForceWorker(p, w, k, h) ==
    /\ scan[p] = NoScan /\ payer[p].pc = "idle"
    /\ ~ RecentAuto(w, k)
    /\ scan' = [scan EXCEPT ![p] = [worker |-> w, type |-> k, hold |-> h]]
    /\ UNCHANGED <<now, tables, payer, review, submitter, escalator, history>>

InsertClaim(p, c) ==
    /\ scan[p] # NoScan
    /\ NewRow(c, scan[p].worker, scan[p].type,
              IF p \in Monitors THEN "auto" ELSE "forced",
              IF scan[p].hold THEN "in_review" ELSE "settled")
    /\ IF scan[p].hold THEN UNCHANGED payer
                       ELSE PayerAt(p, "check", c, NoTransfer)
    /\ scan' = [scan EXCEPT ![p] = NoScan]
    /\ UNCHANGED <<now, linked, transfer, escalation, review, submitter,
                   escalator, history>>

-----------------------------------------------------------------------------
(***************************************************************************)
(* initiate_claim_payout.  Its claim argument is a row read before: the    *)
(* one just inserted, or the one update_claim_status read back.            *)
(***************************************************************************)
(* Mutant of Reload: the claim's transfer is not looked at.                *)
Reload_Unchecked(p) ==
    /\ payer[p].pc = "reload"
    /\ PayerAt(p, "check", payer[p].claim, NoTransfer)
    /\ UNCHANGED <<now, tables, scan, review, submitter, escalator, history>>

Reload(p) ==
    /\ payer[p].pc = "reload"
    /\ IF linked[payer[p].claim] # NoTransfer
       THEN PayerAt(p, "idle", NoClaim, NoTransfer)
       ELSE PayerAt(p, "check", payer[p].claim, NoTransfer)
    /\ UNCHANGED <<now, tables, scan, review, submitter, escalator, history>>

(* The claim itself is settled already, so its own day is counted.         *)
CapRefuses(c) == CapReached(row[c].worker, row[c].at)

CheckPass(p) ==
    /\ payer[p].pc = "check"
    /\ ~ CapRefuses(payer[p].claim)
    /\ PayerAt(p, "pay", payer[p].claim, NoTransfer)
    /\ UNCHANGED <<now, tables, scan, review, submitter, escalator, history>>

(* No verified UPI id, or no coverage on the claim's day.                  *)
RefuseAccount(p) ==
    /\ payer[p].pc = "check"
    /\ PayerAt(p, "block", payer[p].claim, NoTransfer)
    /\ UNCHANGED <<now, tables, scan, review, submitter, escalator, history>>

RefuseByCap(p) ==
    /\ payer[p].pc = "check"
    /\ CapRefuses(payer[p].claim)
    /\ PayerAt(p, "block", payer[p].claim, NoTransfer)
    /\ UNCHANGED <<now, tables, scan, review, submitter, escalator, history>>

(* create_payout_transfer: its status is "settled" at once, no provider is *)
(* called.                                                                 *)
Pay(p, t) ==
    /\ payer[p].pc = "pay"
    /\ transfer[t] = NoClaim
    /\ transfer' = [transfer EXCEPT ![t] = payer[p].claim]
    /\ PayerAt(p, "link", payer[p].claim, t)
    /\ UNCHANGED <<now, row, status, linked, escalation, scan, review,
                   submitter, escalator, history>>

Link(p) ==
    /\ payer[p].pc = "link"
    /\ linked' = [linked EXCEPT ![payer[p].claim] = payer[p].transfer]
    /\ PayerAt(p, "idle", NoClaim, NoTransfer)
    /\ UNCHANGED <<now, row, status, transfer, escalation, scan, review,
                   submitter, escalator, history>>

(* Mutant of Block: a refused payout leaves the claim settled.             *)
Block_Ignored(p) ==
    /\ payer[p].pc = "block"
    /\ PayerAt(p, "idle", NoClaim, NoTransfer)
    /\ UNCHANGED <<now, tables, scan, review, submitter, escalator, history>>

(* The caller's except ValueError.                                         *)
Block(p) ==
    /\ payer[p].pc = "block"
    /\ Demote(payer[p].claim, "in_review")
    /\ PayerAt(p, "idle", NoClaim, NoTransfer)
    /\ UNCHANGED <<now, row, linked, transfer, escalation, scan, review,
                   submitter, escalator, overlapped, abandoned>>

-----------------------------------------------------------------------------
(***************************************************************************)
(* review_claim: any status may be reviewed, any number of times.  The     *)
(* request may name an escalation of the claim, which is closed at the     *)
(* end; its row in the admin log changes nothing here.                     *)
(***************************************************************************)
EscalationsOf(c) == {e \in EscalationIds :
    escalation[e] # NoEscalation /\ escalation[e].claim = c}

MayReview(p, c, e) ==
    /\ payer[p].pc = "idle" /\ review[p] = NoReview
    /\ Exists(c)
    /\ e \in {NoEscalation} \cup EscalationsOf(c)

Approve(p, c, e) ==
    /\ MayReview(p, c, e)
    /\ status' = [status EXCEPT ![c] = "settled"]
    /\ PayerAt(p, "reload", c, NoTransfer)
    /\ review' = [review EXCEPT ![p] =
           [escalation |-> e, verdict |-> "resolved"]]
    /\ overlapped' = IF Paying(c) THEN overlapped \cup {c} ELSE overlapped
    /\ UNCHANGED <<now, row, linked, transfer, escalation, scan, submitter,
                   escalator, abandoned, demoted>>

Reject(p, c, e) ==
    /\ MayReview(p, c, e)
    /\ Demote(c, "rejected")
    /\ review' = [review EXCEPT ![p] =
           [escalation |-> e, verdict |-> "rejected"]]
    /\ UNCHANGED <<now, row, linked, transfer, escalation, scan, payer,
                   submitter, escalator, overlapped, abandoned>>

(* Mutant of Hold: the status of the request is stored as it came.         *)
Hold_AsSent(p, c) ==
    /\ MayReview(p, c, NoEscalation)
    /\ Demote(c, "pending")
    /\ UNCHANGED <<now, row, linked, transfer, escalation, threads,
                   overlapped, abandoned>>

Hold(p, c) ==
    /\ MayReview(p, c, NoEscalation)
    /\ Demote(c, "in_review")
    /\ UNCHANGED <<now, row, linked, transfer, escalation, threads,
                   overlapped, abandoned>>

(* Mutant of Close: the update is keyed by the claim, not by the id of the *)
(* escalation.                                                             *)
Close_ByClaim(p) ==
    /\ payer[p].pc = "idle" /\ review[p] # NoReview
    /\ LET e == review[p].escalation IN
       IF e = NoEscalation THEN UNCHANGED escalation
       ELSE escalation' = [f \in EscalationIds |->
              IF f \in EscalationsOf(escalation[e].claim)
              THEN [claim |-> escalation[e].claim, status |-> review[p].verdict]
              ELSE escalation[f]]
    /\ review' = [review EXCEPT ![p] = NoReview]
    /\ UNCHANGED <<now, row, status, linked, transfer, scan, payer, submitter,
                   escalator, history>>

Close(p) ==
    /\ payer[p].pc = "idle" /\ review[p] # NoReview
    /\ LET e == review[p].escalation IN
       IF e = NoEscalation THEN UNCHANGED escalation
       ELSE escalation' = [escalation EXCEPT ![e] =
              [claim |-> escalation[e].claim, status |-> review[p].verdict]]
    /\ review' = [review EXCEPT ![p] = NoReview]
    /\ UNCHANGED <<now, row, status, linked, transfer, scan, payer, submitter,
                   escalator, history>>

-----------------------------------------------------------------------------
(***************************************************************************)
(* escalate_claim, called by the claim's worker.                           *)
(***************************************************************************)
OpenFor(c) == \E e \in EscalationsOf(c) : escalation[e].status = "pending_review"

(* With an open escalation the request is answered with it: no step.       *)
EscalateCheck(x, c) ==
    /\ escalator[x].pc = "idle"
    /\ Exists(c)
    /\ ~ OpenFor(c)
    /\ EscalatorAt(x, "flag", c)
    /\ UNCHANGED <<now, tables, scan, payer, review, submitter, history>>

EscalateFlag(x) ==
    /\ escalator[x].pc = "flag"
    /\ Demote(escalator[x].claim, "escalated")
    /\ EscalatorAt(x, "insert", escalator[x].claim)
    /\ UNCHANGED <<now, row, linked, transfer, escalation, scan, payer,
                   review, submitter, overlapped, abandoned>>

EscalateInsert(x, e) ==
    /\ escalator[x].pc = "insert"
    /\ escalation[e] = NoEscalation
    /\ escalation' = [escalation EXCEPT ![e] =
           [claim |-> escalator[x].claim, status |-> "pending_review"]]
    /\ EscalatorAt(x, "idle", NoClaim)
    /\ UNCHANGED <<now, row, status, linked, transfer, scan, payer, review,
                   submitter, history>>

-----------------------------------------------------------------------------
(***************************************************************************)
(* A thread dies: the process stops, or a statement raises anything but    *)
(* the ValueError its caller expects.                                      *)
(***************************************************************************)
CrashPayer(p) ==
    /\ CanCrash
    /\ payer[p].pc # "idle"
    /\ PayerAt(p, "idle", NoClaim, NoTransfer)
    /\ review' = [q \in Admins |-> IF q = p THEN NoReview ELSE review[q]]
    /\ abandoned' = abandoned \cup {payer[p].claim}
    /\ overlapped' = IF payer[p].pc = "link"
                     THEN overlapped \cup {payer[p].claim} ELSE overlapped
    /\ UNCHANGED <<now, tables, scan, submitter, escalator, demoted>>

CrashScan(p) ==
    /\ CanCrash
    /\ scan[p] # NoScan
    /\ scan' = [scan EXCEPT ![p] = NoScan]
    /\ UNCHANGED <<now, tables, payer, review, submitter, escalator, history>>

CrashReview(p) ==
    /\ CanCrash
    /\ payer[p].pc = "idle" /\ review[p] # NoReview
    /\ review' = [review EXCEPT ![p] = NoReview]
    /\ UNCHANGED <<now, tables, scan, payer, submitter, escalator, history>>

CrashEscalator(x) ==
    /\ CanCrash
    /\ escalator[x].pc # "idle"
    /\ EscalatorAt(x, "idle", NoClaim)
    /\ abandoned' = abandoned \cup {escalator[x].claim}
    /\ UNCHANGED <<now, tables, scan, payer, review, submitter, overlapped,
                   demoted>>

-----------------------------------------------------------------------------
MonitorStep(p) ==
    \/ \E w \in Workers, k \in Types, h \in BOOLEAN : ScanWorker(p, w, k, h)
    \/ \E c \in ClaimIds : InsertClaim(p, c)
    \/ CrashScan(p)
ForcerStep(p) ==
    \/ \E w \in Workers, k \in Types, h \in BOOLEAN : ForceWorker(p, w, k, h)
    \/ \E c \in ClaimIds : InsertClaim(p, c)
    \/ CrashScan(p)
PayoutStep(p) ==
    \/ Reload(p) \/ CheckPass(p) \/ RefuseAccount(p) \/ RefuseByCap(p)
    \/ \E t \in TransferIds : Pay(p, t)
    \/ Link(p) \/ Block(p)
AdminStep(p) ==
    \/ \E c \in ClaimIds, e \in EscalationIds \cup {NoEscalation} :
         Approve(p, c, e) \/ Reject(p, c, e)
    \/ \E c \in ClaimIds : Hold(p, c)
    \/ Close(p)
    \/ CrashReview(p)
SubmitterStep(s) ==
    \/ \E w \in Workers : SubmitCheck(s, w)
    \/ \E c \in ClaimIds, k \in Types : SubmitInsert(s, c, k)
EscalatorStep(x) ==
    \/ \E c \in ClaimIds : EscalateCheck(x, c)
    \/ EscalateFlag(x)
    \/ \E e \in EscalationIds : EscalateInsert(x, e)
    \/ CrashEscalator(x)

Next ==
    \/ Tick
    \/ \E p \in Monitors : MonitorStep(p)
    \/ \E p \in Forcers : ForcerStep(p)
    \/ \E p \in Payers : PayoutStep(p) \/ CrashPayer(p)
    \/ \E p \in Admins : AdminStep(p)
    \/ \E s \in Submitters : SubmitterStep(s)
    \/ \E x \in Escalators : EscalatorStep(x)

Spec == Init /\ [][Next]_vars

(* A coroutine of the event loop whose await has returned is resumed, and  *)
(* database calls and the billing client's requests (2 seconds) return.    *)
FairSpec == Spec /\ \A p \in Payers : WF_vars(PayoutStep(p))

-----------------------------------------------------------------------------
(***************************************************************************)
(* Safety                                                                  *)
(***************************************************************************)
(* A claim is paid at most once, however often and by however many admins  *)
(* it is approved, unless two payouts of it were at work together or one   *)
(* died between creating the transfer and linking it to the claim: the     *)
(* two windows initiate_claim_payout leaves open.                          *)
PaidOnce == \A c \in ClaimIds \ overlapped : \A t, u \in TransferIds :
    transfer[t] = c /\ transfer[u] = c => t = u

(* A claim that reads "settled" has a linked transfer or a payout that is  *)
(* still at work on it: both callers of initiate_claim_payout settle first *)
(* and take it back when the payout is refused.                            *)
SettledIsBacked == \A c \in ClaimIds \ abandoned :
    status[c] = "settled" =>
      \/ linked[c] # NoTransfer
      \/ \E p \in Payers : payer[p].pc # "idle" /\ payer[p].claim = c

PaidDays(w, wk) ==
    {Day(row[c].at) : c \in {d \in ClaimIds :
        Exists(d) /\ Paid(d) /\ row[d].worker = w /\ WeekStart(row[d].at) = wk}}
UndemotedPaidDays(w, wk) ==
    {Day(row[c].at) : c \in {d \in ClaimIds \ demoted :
        Exists(d) /\ Paid(d) /\ row[d].worker = w /\ WeekStart(row[d].at) = wk}}
Weeks == {WeekStart(t) : t \in Start..MaxTime}

(* No interleaving of the monitor, forced triggers and admins pays a       *)
(* worker on more days of a week than the plan allows, counting the claims *)
(* that stayed settled from their payout on: the cap is counted after the  *)
(* claim is settled, so two concurrent payouts each see the other's day.   *)
CapKept == \A w \in Workers, wk \in Weeks :
    Cardinality(UndemotedPaidDays(w, wk)) <= MaxDays[w]

(* Claims the monitor raises for a worker and a type are more than the     *)
(* dedup window apart, even when the first was held, rejected or escalated *)
(* and when cycles die between has_recent_auto_claim and the insert.       *)
AutoClaimsSpaced == \A c, d \in ClaimIds :
    /\ c # d
    /\ Exists(c) /\ Exists(d)
    /\ row[c].source = "auto" /\ row[d].source = "auto"
    /\ row[c].worker = row[d].worker /\ row[c].type = row[d].type
    => \/ row[c].at - row[d].at > Window
       \/ row[d].at - row[c].at > Window

(* A claim that reads "escalated" has an open escalation in the admins'    *)
(* queue, or one about to be inserted: no review of an earlier escalation  *)
(* that ends late may close the new one.                                   *)
EscalatedIsQueued == \A c \in ClaimIds \ abandoned :
    status[c] = "escalated" =>
      \/ OpenFor(c)
      \/ \E x \in Escalators :
           escalator[x].pc = "insert" /\ escalator[x].claim = c

-----------------------------------------------------------------------------
(***************************************************************************)
(* The book these claims keep.                                             *)
(***************************************************************************)
Owner == [c \in ClaimIds |-> IF Exists(c) THEN row[c].worker ELSE NoWorker]
ClaimDay == [c \in ClaimIds |-> IF Exists(c) THEN Day(row[c].at) ELSE 0]
Settled == {c \in ClaimIds : Exists(c) /\ status[c] = "settled"}
Underway == {c \in ClaimIds : Paying(c)}

Settlement == INSTANCE SettlementLedger WITH
    Entries   <- ClaimIds,
    Days      <- {Day(t) : t \in Start..MaxTime},
    Transfers <- TransferIds,
    NoEntry   <- NoClaim,
    owner     <- Owner,
    day       <- ClaimDay,
    settled   <- Settled,
    underway  <- Underway,
    payout    <- transfer,
    excused   <- overlapped,
    waived    <- demoted

(* The backend, with its single statements, overlapping payouts, reviews,  *)
(* escalations and crashes, keeps that book: what was filed never changes, *)
(* a transfer is never withdrawn, a payout follows the settling and is     *)
(* within the plan, and only a demotion takes a paid claim's standing.     *)
ImplementsSettlement == Settlement!Spec

-----------------------------------------------------------------------------
(***************************************************************************)
(* Liveness                                                                *)
(***************************************************************************)
(* A settled claim is linked to a transfer or loses the status again: no   *)
(* claim stays settled and unpaid, unless a thread died at work on it.     *)
SettledIsPaid == \A c \in ClaimIds :
    status[c] = "settled" ~>
        linked[c] # NoTransfer \/ status[c] # "settled" \/ c \in abandoned

(***************************************************************************)
(* What PROJECT_INFO.md promises of "Max days/week"                        *)
(***************************************************************************)
(* A payout is refused by the cap only in a week that has as many other    *)
(* covered days as the plan allows.                                        *)
OtherDays(c) ==
    CoveredDays(row[c].worker, WeekStart(row[c].at)) \ {Day(row[c].at)}
CapAllowsItsDays ==
    [][\A p \in Payers : RefuseByCap(p) =>
         Cardinality(OtherDays(payer[p].claim))
           >= MaxDays[row[payer[p].claim].worker]]_vars

(* A worker is paid on at most that many days of a week.                   *)
CapRespected == \A w \in Workers, wk \in Weeks :
    Cardinality(PaidDays(w, wk)) <= MaxDays[w]
=============================================================================
