------------------------------ MODULE Triggers ------------------------------
(***************************************************************************)
(* How the monitor decides that a zone has an alert: _determine_trigger    *)
(* over the readings of weather, air and traffic it has stored, the live   *)
(* state it keeps in memory, forced triggers and GET /triggers/active.     *)
(* What an alert does to claims is in Claims.                              *)
(*                                                                         *)
(* A tick is the interval between two scheduled polls.  A reading is known *)
(* by its tick, by whether it lies beyond the threshold of its kind, and   *)
(* by its place among the polls, which a tick or a restart moves on: a     *)
(* poll stores at most one reading of a kind.                              *)
(***************************************************************************)
EXTENDS Integers, FiniteSets, Sequences, SequencesExt

CONSTANTS
    Kinds,          \* the sustained kinds in the order they are asked: <<"aqi", ...>>
    WindowPolls,    \* window_hours of each kind, counted in polls
    Slack,          \* trigger_window_sample_slack
    OpenAt,         \* the ticks whose hour of the day lets the kind alert
    Risks,          \* the static risks the fallback sees; none when it is off
    ForcedTypes,    \* the alert types that are forced
    MaxTick, MaxRestarts,   \* bounds of time and of restarts
    NoState

ASSUME TriggersAssumption ==
    /\ Kinds \in Seq({"aqi", "traffic", "heat"})
    /\ WindowPolls \in [ToSet(Kinds) -> Nat]
    /\ Slack \in Nat
    /\ OpenAt \in [ToSet(Kinds) -> SUBSET Nat]
    /\ Risks \subseteq {"rain", "aqi", "traffic"}
    /\ ForcedTypes \subseteq {"rain", "zonelock", "aqi", "traffic", "heat"}
    /\ MaxTick \in Nat /\ MaxRestarts \in Nat

VARIABLES
    tick,
    polled,     \* whether this tick's poll is over
    readings,   \* trigger_signal_readings of each kind, as far back as windows go
    live,       \* _live_trigger_state of the zone, or NoState
    restarts    \* times the process was started again

triggerVars == <<tick, polled, readings, live, restarts>>

Reading == [poll : Nat, at : Nat, beyond : BOOLEAN]
ThisPoll == tick + restarts
Alert(type, source) == [type |-> type, source |-> source]

TriggersTypeOK ==
    /\ tick \in 0..MaxTick /\ polled \in BOOLEAN /\ restarts \in 0..MaxRestarts
    /\ \A k \in ToSet(Kinds) : readings[k] \subseteq Reading
    /\ live = NoState \/ live.type \in {"none", "rain", "zonelock", "aqi", "traffic", "heat"}

TriggersInit ==
    /\ tick = 0
    /\ polled = FALSE
    /\ readings = [k \in ToSet(Kinds) |-> {}]
    /\ live = NoState
    /\ restarts = 0

-----------------------------------------------------------------------------
(* _required_samples *)
AtLeastOne(n) == IF n < 1 THEN 1 ELSE n
Required(k) == AtLeastOne(AtLeastOne(WindowPolls[k]) - Slack)

(* list_trigger_signal_readings.  A reading of exactly the window's age is *)
(* in or out as the poll is a moment early or late.                        *)
Within(k, rs, edge) == {r \in rs :
    r.at > tick - WindowPolls[k] \/ (edge /\ r.at = tick - WindowPolls[k])}

(* Mutant of Newest: readings[:required], the oldest ones.                 *)
Newest_Oldest(rs, n) == {r \in rs : Cardinality({q \in rs : q.poll < r.poll}) < n}

Newest(rs, n) == {r \in rs : Cardinality({q \in rs : q.poll > r.poll}) < n}
Sustained(k, rs) ==
    LET newest == Newest(rs, Required(k))
    IN  Cardinality(newest) >= Required(k) /\ \A r \in newest : r.beyond

(* external_apis: an answer within the threshold or beyond it, or none.  A *)
(* speed of zero is none for get_traffic_speed.                            *)
Answers == {"none", "calm", "beyond"}
Stored(k, answer) ==
    IF answer = "none" THEN readings[k]
    ELSE readings[k] \cup {[poll |-> ThisPoll, at |-> tick, beyond |-> answer = "beyond"]}

Alerts(k, answer, edge) ==
    /\ answer # "none"
    /\ Sustained(k, Within(k, Stored(k, answer), edge))
    /\ tick \in OpenAt[k]

(* "zone-risk-score"; GET /active, when there is no live state, looks at   *)
(* two of the three risks.                                                 *)
StaticAlert(risks) ==
    CASE "rain" \in risks -> "rain"
      [] "rain" \notin risks /\ "aqi" \in risks -> "aqi"
      [] risks = {"traffic"} -> "traffic"
      [] risks = {} -> "none"
ActiveAlert == IF live # NoState THEN live.type ELSE StaticAlert(Risks \ {"aqi"})

-----------------------------------------------------------------------------
(* Readings that no window reaches any more are left out of the state: the *)
(* table is never purged and never read beyond.                            *)
TriggersTick ==
    /\ tick < MaxTick
    /\ tick' = tick + 1
    /\ polled' = FALSE
    /\ readings' = [k \in ToSet(Kinds) |->
           {r \in readings[k] : r.at >= tick' - WindowPolls[k]}]
    /\ UNCHANGED <<live, restarts>>

(* The first kind that alerts ends the poll: the later ones are not asked  *)
(* and store nothing.  Rain alerts on one answer, news come last.          *)
PollRain ==
    /\ ~polled
    /\ polled' = TRUE
    /\ live' = Alert("rain", "live")
    /\ UNCHANGED <<tick, readings, restarts>>

PollKinds(answers, news, edge) ==
    LET alerting == {i \in DOMAIN Kinds : Alerts(Kinds[i], answers[Kinds[i]], edge)}
        first == IF alerting = {} THEN Len(Kinds)
                 ELSE CHOOSE i \in alerting : \A j \in alerting : i <= j
        asked == {Kinds[i] : i \in 1..first}
    IN  /\ ~polled
        /\ polled' = TRUE
        /\ readings' = [k \in ToSet(Kinds) |->
               IF k \in asked THEN Stored(k, answers[k]) ELSE readings[k]]
        /\ live' = Alert(IF alerting # {} THEN Kinds[first]
                         ELSE IF news THEN "zonelock" ELSE StaticAlert(Risks), "live")
        /\ UNCHANGED <<tick, restarts>>

(* force_trigger_for_zone: until the next poll.                            *)
ForceAlert(type) ==
    /\ live' = Alert(type, "manual")
    /\ UNCHANGED <<tick, polled, readings, restarts>>

(* The live state is lost; start() polls at once.                          *)
RestartMonitor ==
    /\ restarts < MaxRestarts
    /\ restarts' = restarts + 1
    /\ live' = NoState
    /\ polled' = FALSE
    /\ UNCHANGED <<tick, readings>>

(* A poll that an exception ends, here or in an earlier zone of the scan,  *)
(* leaves the live state: the tick passes without it.                      *)
TriggersNext ==
    \/ TriggersTick
    \/ PollRain
    \/ \E answers \in [ToSet(Kinds) -> Answers], news, edge \in BOOLEAN :
         PollKinds(answers, news, edge)
    \/ \E type \in ForcedTypes : ForceAlert(type)
    \/ RestartMonitor

TriggersSpec == TriggersInit /\ [][TriggersNext]_triggerVars

-----------------------------------------------------------------------------
(* "AQI > 250 sustained 4 hours": when a poll raises the alert of a kind,  *)
(* answers beyond the threshold were stored in all but Slack of the polls  *)
(* its window takes and none within it since, however outages, alerts of   *)
(* earlier kinds and forced triggers fall; each restart, which polls at    *)
(* once, may shorten that by one poll.                                     *)
SustainedForHours ==
    polled /\ live.source = "live" /\ live.type \in ToSet(Kinds) /\ Risks = {} =>
        LET k == live.type
            of(beyond) == {r.at : r \in {q \in readings[k] :
                              q.beyond = beyond /\ q.at >= tick - WindowPolls[k]}}
        IN  /\ Cardinality(of(TRUE)) + restarts >= Required(k)
            /\ \A t \in of(FALSE) : t <= tick - Required(k) + restarts
=============================================================================
