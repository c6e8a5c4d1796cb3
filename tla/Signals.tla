------------------------------ MODULE Signals ------------------------------
(***************************************************************************)
(* A worker's location signals: the upload in workers.py, the two tables   *)
(* of db.py, and what gps_validation.py, tower_validation.py and           *)
(* motion_validation.py make of the row.  Every statement is keyed by the  *)
(* phone, so one worker stands for all.  Each database statement of an     *)
(* upload is a step: they share no transaction.  A request that carries a  *)
(* position also starts update_worker_gps, a task of the event loop that   *)
(* uploads the position again, alone, and that nothing waits for.          *)
(*                                                                         *)
(* Time counts quarters of an hour: the window of a jump is one quarter,   *)
(* and a signal is fresh for two.  Places are metres along a line; what    *)
(* is measured in floating point is an integer here, in the unit its       *)
(* definition names, and quotients are cut.                                *)
(***************************************************************************)
EXTENDS Integers, FiniteSets, FiniteSetsExt

CONSTANTS
    Uploads,      \* calls of POST /workers/location-signal, each used once
    Places,       \* metres from the zone's centre
    Lags,         \* quarters between the capture of a signal and its arrival
    Telemetry,    \* tower and motion metadata, see below
    PastTrails,   \* the pings already stored
    TrailLength,  \* 24: how many pings the variance is computed from
    Retention,    \* quarters before a ping is purged
    SignalStart, SignalEnd,   \* bounds of the modelled time
    NoPlace, NoTower, NoMotion, NoSignal

ASSUME SignalsAssumption ==
    /\ Places \subseteq Int /\ NoPlace \notin Places
    /\ Lags \subseteq Nat
    /\ [tower |-> NoTower, motion |-> NoMotion] \in Telemetry
    /\ TrailLength \in Nat \ {0} /\ Retention \in Nat \ {0}
    /\ SignalStart \in Nat /\ SignalEnd \in Nat /\ SignalStart <= SignalEnd

VARIABLES
    moment,   \* the current quarter
    pings,    \* worker_location_signal_events
    signal,   \* the worker's row of worker_location_signals, or NoSignal
    upload,   \* each call's progress, its ping and what it has computed
    saved,    \* history: the pings written to the row so far
    before    \* history: for each call, the pings saved when it began

signalVars == <<moment, pings, signal, upload, saved, before>>

(* A ping: its rank is the order of received_at, at is captured_at or else *)
(* received_at.                                                            *)
Ping == [rank : Nat, place : Places \cup {NoPlace}, at : Int, received : Nat]
Trail == [meters : Nat, jumps : Nat, pairs : Nat, score : 0..100]

ASSUME PastAssumption ==
    /\ IsFiniteSet(Uploads)
    /\ \A trail \in PastTrails : IsFiniteSet(trail) /\ trail \subseteq Ping

(* Metadata of the towers and of the motion, when the request has any.     *)
Tower == [cells : SUBSET [km : Nat, dbm : Int], hint : {"zone", "other", "none"}]
Motion == [window : Nat, samples : Nat, moving : Nat, stationary : Nat,
           distance : Nat, speed : Nat, top : Nat]

ASSUME TelemetryAssumption == \A t \in Telemetry :
    /\ t.tower # NoTower => t.tower \in Tower /\ IsFiniteSet(t.tower.cells)
    /\ t.motion # NoMotion => t.motion \in Motion

(* The calls of upsert_worker_location_signal.                             *)
Calls == [request : Uploads, task : BOOLEAN]
First(u) == [request |-> u, task |-> FALSE]
Task(c) == [c EXCEPT !.task = TRUE]
NoTrail == [meters |-> 0, jumps |-> 0, pairs |-> 0, score |-> 50]

SignalsTypeOK ==
    /\ moment \in SignalStart..SignalEnd
    /\ pings \subseteq Ping
    /\ signal = NoSignal \/ /\ signal.ping \in Ping
                            /\ signal.telemetry \in Telemetry
                            /\ signal.trail \in Trail /\ signal.seen \subseteq Ping
    /\ \A c \in Calls :
         /\ upload[c].pc \in {"new", "insert", "select", "upsert", "purge", "done"}
         /\ upload[c].ping \in Ping /\ upload[c].telemetry \in Telemetry
         /\ upload[c].trail \in Trail
    /\ saved \subseteq Nat
    /\ before \in [Calls -> SUBSET Nat]

-----------------------------------------------------------------------------
(***************************************************************************)
(* _calculate_gps_variance                                                 *)
(***************************************************************************)
Abs(x) == IF x < 0 THEN -x ELSE x
Recent(stored) == {p \in stored :
    Cardinality({q \in stored : q.rank > p.rank}) < TrailLength}

(* The sort is by time alone and stable over a list, newest rank first.    *)
Earlier(p, q) == p.at < q.at \/ (p.at = q.at /\ p.rank > q.rank)
Steps(points) == {pq \in points \X points :
    /\ Earlier(pq[1], pq[2])
    /\ ~ \E r \in points : Earlier(pq[1], r) /\ Earlier(r, pq[2])}

(* Mutant of Jump: the minutes between the pings are taken for hours.      *)
Jump_Hours(p, q) == Abs(q.place - p.place) > 5000 /\ 4 * (q.at - p.at) < 1

Jump(p, q) == Abs(q.place - p.place) > 5000 /\ q.at - p.at <= 1

Variance(seen) ==
    LET points == {p \in seen : p.place # NoPlace}
        n == Cardinality(points)
        total == SumFunction([p \in points |-> p.place])
        off == SumFunction([p \in points |-> Abs(n * p.place - total)])
        jumps == Cardinality({pq \in Steps(points) : Jump(pq[1], pq[2])})
        spread == IF off > 6000 * n * n THEN 20
                  ELSE IF off > 3000 * n * n THEN 45
                  ELSE IF off > 1200 * n * n THEN 65 ELSE 85
        cap == IF 2 * jumps >= n - 1 THEN 15 ELSE IF jumps > 0 THEN 40 ELSE 100
    IN  IF n < 3 THEN NoTrail
        ELSE [meters |-> off \div (n * n), jumps |-> jumps, pairs |-> n - 1,
              score |-> IF spread < cap THEN spread ELSE cap]

-----------------------------------------------------------------------------
(***************************************************************************)
(* Uploads                                                                 *)
(***************************************************************************)
Row(ping, telemetry, seen) ==
    [ping |-> ping, telemetry |-> telemetry, trail |-> Variance(seen), seen |-> seen]
Silent == [tower |-> NoTower, motion |-> NoMotion]
NoPing == [rank |-> 0, place |-> NoPlace, at |-> 0, received |-> 0]

SignalsInit ==
    /\ moment = SignalStart
    /\ pings \in PastTrails
    /\ signal = IF pings = {} THEN NoSignal
                ELSE Row(CHOOSE p \in pings : \A q \in pings : q.rank <= p.rank,
                         Silent, Recent(pings))
    /\ upload = [c \in Calls |-> [pc |-> "new", ping |-> NoPing, telemetry |-> Silent,
                                  trail |-> NoTrail, seen |-> {}]]
    /\ saved = {p.rank : p \in pings}
    /\ before = [c \in Calls |-> {}]

SignalsTick ==
    /\ moment < SignalEnd
    /\ moment' = moment + 1
    /\ UNCHANGED <<pings, signal, upload, saved, before>>

Uploading(c, pc) == upload[c].pc = pc
Proceed(c, pc) == upload' = [upload EXCEPT ![c].pc = pc]
LastRank == Max({0} \cup {p.rank : p \in pings} \cup {upload[c].ping.rank : c \in Calls})

(* received_at is taken before the connection is.                          *)
NewPing(place, at) == [rank |-> LastRank + 1, place |-> place, at |-> at, received |-> moment]
Started(call, ping, telemetry) ==
    [call EXCEPT !.pc = "insert", !.ping = ping, !.telemetry = telemetry]

BeginUpload(u, place, lag, telemetry) ==
    LET c == First(u) IN
    /\ Uploading(c, "new")
    /\ upload' = [upload EXCEPT ![c] = Started(@, NewPing(place, moment - lag), telemetry)]
    /\ before' = [before EXCEPT ![c] = saved]
    /\ UNCHANGED <<moment, pings, signal, saved>>

InsertPing(c) ==
    /\ Uploading(c, "insert")
    /\ pings' = pings \cup {upload[c].ping}
    /\ Proceed(c, "select")
    /\ UNCHANGED <<moment, signal, saved, before>>

SelectTrail(c) ==
    /\ Uploading(c, "select")
    /\ upload' = [upload EXCEPT ![c].pc = "upsert", ![c].trail = Variance(Recent(pings)),
                                ![c].seen = Recent(pings)]
    /\ UNCHANGED <<moment, pings, signal, saved, before>>

(* The task purges nothing: its upload ends with the row.                  *)
WriteSignal(c, row) ==
    /\ Uploading(c, "upsert")
    /\ signal' = row
    /\ saved' = saved \cup {upload[c].ping.rank}
    /\ Proceed(c, IF c.task THEN "done" ELSE "purge")
    /\ UNCHANGED <<moment, pings, before>>
RowOf(c) == [ping |-> upload[c].ping, telemetry |-> upload[c].telemetry,
             trail |-> upload[c].trail, seen |-> upload[c].seen]

(* Mutant of UpsertSignal: ON CONFLICT (phone) DO NOTHING.                 *)
UpsertSignal_Nothing(c) == WriteSignal(c, IF signal = NoSignal THEN RowOf(c) ELSE signal)

(* Every column is overwritten, with the metadata the call did not carry.  *)
UpsertSignal(c) == WriteSignal(c, RowOf(c))

(* The row itself is never purged.  The task is started last, with the     *)
(* request's position and the time it starts at; what the request answers, *)
(* the checks below, changes nothing.                                      *)
PurgeStale(c) ==
    LET sent == upload[c].ping.place IN
    /\ Uploading(c, "purge")
    /\ pings' = {p \in pings : p.received >= moment - Retention}
    /\ upload' = [upload EXCEPT
         ![c].pc = "done",
         ![Task(c)] = IF sent = NoPlace THEN @ ELSE Started(@, NewPing(sent, moment), Silent)]
    /\ before' = [before EXCEPT ![Task(c)] = IF sent = NoPlace THEN @ ELSE saved]
    /\ UNCHANGED <<moment, signal, saved>>

(* An exception or the end of the process.                                 *)
DropUpload(c) ==
    /\ upload[c].pc \in {"insert", "select", "upsert", "purge"}
    /\ Proceed(c, "done")
    /\ UNCHANGED <<moment, pings, signal, saved, before>>

SignalsNext ==
    \/ SignalsTick
    \/ \E u \in Uploads, p \in Places \cup {NoPlace}, l \in Lags, t \in Telemetry :
         BeginUpload(u, p, l, t)
    \/ \E c \in Calls :
         \/ InsertPing(c) \/ SelectTrail(c) \/ UpsertSignal(c)
         \/ PurgeStale(c) \/ DropUpload(c)

-----------------------------------------------------------------------------
(***************************************************************************)
(* The checks: a status, a confidence in hundredths, and whether it counts *)
(* when a claim is scored.  dated tells that the answer carries the row's  *)
(* received_at as the database returned it, a datetime: tower_validation   *)
(* writes it out as text, the two others do not.                           *)
(***************************************************************************)
Check(status, confidence, row, counts) ==
    [status |-> status, confidence |-> confidence, counts |-> counts,
     dated |-> row # NoSignal]
Clamp(x, low, high) == IF x < low THEN low ELSE IF x > high THEN high ELSE x

Age(row) == moment - row.ping.at
Stale(row) == Age(row) > 2

(* The cells carry coordinates: kilometres from the zone, and strength.    *)
Strongest(cells) == CHOOSE c \in cells : \A d \in cells : d.dbm <= c.dbm
DistanceConfidence(km) ==
    IF km <= 3 THEN 90 ELSE IF km >= 12 THEN 10 ELSE 90 - (80 * (km - 3)) \div 9

(* Mutant of TowerCheck: the age of the signal is not looked at.           *)
TowerCheck_AnyAge(row) ==
    IF row = NoSignal \/ row.telemetry.tower = NoTower THEN Check("missing", 50, row, FALSE)
    ELSE Check("match", 90, row, TRUE)

TowerCheck(row) ==
    IF row = NoSignal THEN Check("missing", 50, row, FALSE)
    ELSE LET tower == row.telemetry.tower IN
         CASE tower = NoTower -> Check("missing", 50, row, FALSE)
           [] tower # NoTower /\ Stale(row) -> Check("stale", 50, row, FALSE)
           [] OTHER ->
                IF tower.cells # {}
                THEN LET c == DistanceConfidence(Strongest(tower.cells).km)
                     IN  Check(IF c >= 50 THEN "match" ELSE "mismatch", c, row, TRUE)
                ELSE CASE tower.hint = "zone" -> Check("match_hint", 72, row, TRUE)
                       [] tower.hint = "other" -> Check("mismatch_hint", 20, row, TRUE)
                       [] tower.hint = "none" -> Check("insufficient", 50, row, FALSE)

(* Seconds, metres, and metres per second; ratios in thousandths.          *)
MovingRatio(m) ==
    (1000 * m.moving) \div Max({1, m.moving + m.stationary, m.window})
GenuineConfidence(m) ==
    LET ratio == Clamp(((MovingRatio(m) - 50) * 1000) \div 550, 0, 1000)
        distance == Clamp(((m.distance - 25) * 1000) \div 150, 0, 1000)
        speed == Clamp((m.speed * 10000) \div 132, 0, 1000)
    IN  Clamp((4500 + 3 * ratio + (3 * distance) \div 2 + speed) \div 100, 0, 100)

MotionCheck(row) ==
    IF row = NoSignal THEN Check("missing", 50, row, FALSE)
    ELSE LET m == row.telemetry.motion IN
         CASE m = NoMotion -> Check("missing", 50, row, FALSE)
           [] m # NoMotion /\ Stale(row) -> Check("stale", 50, row, FALSE)
           [] OTHER ->
                IF m.window < 60 \/ m.samples < 12 THEN Check("insufficient", 50, row, FALSE)
                ELSE IF m.top > 33 THEN Check("mismatch", 18, row, TRUE)
                ELSE IF m.distance < 25 /\ MovingRatio(m) < 50 THEN Check("static", 35, row, TRUE)
                ELSE LET c == GenuineConfidence(m)
                     IN  Check(IF c >= 55 THEN "match" ELSE "mismatch", c, row, TRUE)

(* The GPS summary is used whatever its age.                               *)
GpsCheck(row) ==
    IF row = NoSignal THEN Check("missing", 50, row, FALSE)
    ELSE Check(CASE row.trail.score >= 75 -> "stable"
                 [] row.trail.score \in 45..74 -> "mixed"
                 [] OTHER -> "erratic", row.trail.score, row, TRUE)
=============================================================================
