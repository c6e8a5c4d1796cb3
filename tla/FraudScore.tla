----------------------------- MODULE FraudScore -----------------------------
(***************************************************************************)
(* The anomaly score of a claim: fraud_isolation.py and fraud_llm_graph.py *)
(* over the signals of module Signals, from the reads of the worker's row  *)
(* to the insert of the claim (claims.py, trigger_monitor.py, create_claim *)
(* of db.py).  The three checks read the row one after the other, each     *)
(* behind an await; scoring itself does not give way.                      *)
(*                                                                         *)
(* Scores and adjustments are counted in ten-thousandths, confidences and  *)
(* the zone affinity in hundredths.                                        *)
(***************************************************************************)
EXTENDS Signals

CONSTANTS
    Filers,        \* claims being filed, each once
    RawScores,     \* what the isolation forest answers
    Affinities, TriggerConfidences,
    Threshold, Margin,        \* fraud_anomaly_threshold, fraud_llm_ambiguity_margin
    ConfidenceMin, ConfidenceMax,  \* the trigger confidences the model reviews
    Engines,       \* fraud_scoring_enabled and the artifact
    FailOpen       \* values of fraud_fail_open

ASSUME FraudAssumption ==
    /\ RawScores \subseteq Int /\ Threshold \in Int /\ Margin \in Nat
    /\ Engines \subseteq {"disabled", "missing", "loaded"}
    /\ FailOpen \subseteq BOOLEAN

VARIABLES
    engine,     \* the fraud model: disabled, not loaded, loaded
    failOpen,   \* the setting
    filing      \* each claim's progress, what it has read and its result

fraudVars == <<engine, failOpen, filing>>

Unread == [status |-> "missing", confidence |-> 50, counts |-> FALSE, dated |-> FALSE]
NoGps == [check |-> Unread, meters |-> 0, jumps |-> 0, pairs |-> 0]
NoResult == [raw |-> 0, adjusted |-> 0, flagged |-> FALSE, review |-> "none",
             mode |-> "none", dated |-> FALSE]

FraudTypeOK ==
    /\ engine \in {"disabled", "missing", "loaded"}
    /\ failOpen \in BOOLEAN
    /\ \A f \in Filers :
         /\ filing[f].pc \in {"tower", "motion", "gps", "score", "insert", "filed", "failed"}
         /\ filing[f].result.review \in
              {"none", "accepted", "invalid_output", "provider_failed", "unavailable"}
         /\ filing[f].result.adjusted \in Int

FraudInit ==
    /\ engine \in Engines
    /\ failOpen \in FailOpen
    /\ filing = [f \in Filers |-> [pc |-> "tower", tower |-> Unread, motion |-> Unread,
                                   gps |-> NoGps, old |-> FALSE, result |-> NoResult]]

-----------------------------------------------------------------------------
(***************************************************************************)
(* Adjustments                                                             *)
(***************************************************************************)
Bounded(x, cap) == Clamp(x, -cap, cap)

TowerAdjustment(tower) ==
    IF tower.counts THEN Bounded((tower.confidence - 50) * 24, 1200) ELSE 0

(* "apply full negative adjustment only when corroborating risk exists"    *)
Corroborated(affinity, tower) ==
    affinity < 35 \/ tower.status \in {"mismatch", "mismatch_hint"}
MotionAdjustment(motion, tower, affinity) ==
    LET raw == (motion.confidence - 50) * 20
        eased == IF raw < 0 /\ ~Corroborated(affinity, tower) THEN raw \div 2 ELSE raw
    IN  IF motion.counts THEN Bounded(eased, 1000) ELSE 0

AtMost(x, limit) == IF x < limit THEN x ELSE limit
GpsAdjustment(gps) ==
    LET c == gps.check.confidence
        plain == (c - 50) * 16
        jumped == IF gps.pairs > 0 /\ 2 * gps.jumps >= gps.pairs THEN AtMost(plain, -1000)
                  ELSE IF gps.jumps > 0 THEN AtMost(plain, -500) ELSE plain
    IN  IF gps.check.status = "missing" THEN 0
        ELSE IF gps.meters > 5000 THEN AtMost(jumped, -800)
        ELSE IF gps.meters < 300 /\ c >= 75 /\ jumped < 400 THEN 400
        ELSE jumped

-----------------------------------------------------------------------------
(***************************************************************************)
(* The review of an ambiguous claim by a language model: the providers are *)
(* tried in order, each some times, until one answers an object, which is  *)
(* then validated.  An answer that is no JSON object is a failed attempt   *)
(* like an error.  Who answered, and after how many attempts, is kept with *)
(* the claim and changes nothing.                                          *)
(***************************************************************************)
Payloads == [wellFormed : BOOLEAN, flagged : BOOLEAN, recommended : {"settled", "in_review"}]

Accepts(p) == p.wellFormed /\ (p.flagged <=> p.recommended = "in_review")

Reviews ==
    [status : {"unavailable", "provider_failed"}, flagged : {FALSE}]
    \cup {[status |-> IF Accepts(p) THEN "accepted" ELSE "invalid_output",
            flagged |-> p.flagged] : p \in Payloads}

(* Mutant of Ambiguous: the distance to the threshold is not looked at.    *)
Ambiguous_Any(adjusted, confidence) ==
    ConfidenceMin <= confidence /\ confidence <= ConfidenceMax

Ambiguous(adjusted, confidence) ==
    /\ Abs(adjusted - Threshold) <= Margin
    /\ ConfidenceMin <= confidence /\ confidence <= ConfidenceMax

-----------------------------------------------------------------------------
(***************************************************************************)
(* Filing a claim                                                          *)
(***************************************************************************)
Filing(f, pc) == filing[f].pc = pc
Step(f, rec) == filing' = [filing EXCEPT ![f] = rec]

(* initialize_fraud_model is tried again at each score until it loads.     *)
LoadModel ==
    /\ engine = "missing"
    /\ engine' = "loaded"
    /\ UNCHANGED <<failOpen, filing>>

ReadTower(f) ==
    /\ Filing(f, "tower")
    /\ Step(f, [filing[f] EXCEPT !.pc = "motion", !.tower = TowerCheck(signal),
                                 !.old = signal = NoSignal \/ Stale(signal)])
    /\ UNCHANGED <<engine, failOpen>>

ReadMotion(f) ==
    /\ Filing(f, "motion")
    /\ Step(f, [filing[f] EXCEPT !.pc = "gps", !.motion = MotionCheck(signal),
                                 !.old = @ /\ (signal = NoSignal \/ Stale(signal))])
    /\ UNCHANGED <<engine, failOpen>>

ReadGps(f) ==
    /\ Filing(f, "gps")
    /\ Step(f, [filing[f] EXCEPT !.pc = "score",
         !.gps = IF signal = NoSignal THEN NoGps
                 ELSE [check |-> GpsCheck(signal), meters |-> signal.trail.meters,
                       jumps |-> signal.trail.jumps, pairs |-> signal.trail.pairs]])
    /\ UNCHANGED <<engine, failOpen>>

Total(f, raw, affinity) ==
    raw + TowerAdjustment(filing[f].tower)
        + MotionAdjustment(filing[f].motion, filing[f].tower, affinity)
        + GpsAdjustment(filing[f].gps)

(* The features kept with a score carry what the checks answered.          *)
ScoreByModel(f, raw, affinity, confidence, review) ==
    /\ Filing(f, "score")
    /\ engine = "loaded"
    /\ LET adjusted == Total(f, raw, affinity)
           reviewed == Ambiguous(adjusted, confidence)
       IN  Step(f, [filing[f] EXCEPT !.pc = "insert", !.result =
             [raw |-> raw, adjusted |-> adjusted, mode |-> "model",
              flagged |-> CASE reviewed /\ review.status = "accepted" -> review.flagged
                            [] reviewed /\ review.status = "invalid_output" -> TRUE
                            [] OTHER -> adjusted < Threshold,
              review |-> IF reviewed THEN review.status ELSE "none",
              dated |-> filing[f].motion.dated \/ filing[f].gps.check.dated]])
    /\ UNCHANGED <<engine, failOpen>>

ScoreDisabled(f) ==
    /\ Filing(f, "score")
    /\ engine = "disabled"
    /\ Step(f, [filing[f] EXCEPT !.pc = "insert", !.result.mode = "disabled"])
    /\ UNCHANGED <<engine, failOpen>>

(* No artifact, or an exception while scoring.                             *)
ScoreFails(f) ==
    /\ Filing(f, "score")
    /\ engine \in {"missing", "loaded"}
    /\ Step(f, IF failOpen
               THEN [filing[f] EXCEPT !.pc = "insert", !.result.mode = "fail-open"]
               ELSE [filing[f] EXCEPT !.pc = "failed"])
    /\ UNCHANGED <<engine, failOpen>>

(* create_claim writes the features with json.dumps, which knows no        *)
(* datetime: the TypeError leaves the request, or the monitor's scan.      *)
CreateScored(f) ==
    /\ Filing(f, "insert")
    /\ Step(f, [filing[f] EXCEPT !.pc = IF filing[f].result.dated THEN "failed" ELSE "filed"])
    /\ UNCHANGED <<engine, failOpen>>

FraudNext ==
    /\ \/ LoadModel
       \/ \E f \in Filers :
            \/ ReadTower(f) \/ ReadMotion(f) \/ ReadGps(f)
            \/ \E raw \in RawScores, a \in Affinities, c \in TriggerConfidences,
                  r \in Reviews : ScoreByModel(f, raw, a, c, r)
            \/ ScoreDisabled(f) \/ ScoreFails(f)
            \/ CreateScored(f)
    /\ UNCHANGED signalVars

ScoringInit == SignalsInit /\ FraudInit
ScoringNext == (SignalsNext /\ UNCHANGED fraudVars) \/ FraudNext
scoringVars == <<signalVars, fraudVars>>
ScoringSpec == ScoringInit /\ [][ScoringNext]_scoringVars

-----------------------------------------------------------------------------
(***************************************************************************)
(* Properties                                                              *)
(***************************************************************************)
(* However uploads interleave, the row is never a ping that had been saved *)
(* before another, since saved, began: a slow upload may hide one that ran *)
(* beside it, never one that came after it.                                *)
NewestSignalKept ==
    \A c \in Calls : upload[c].ping.rank \in saved => signal.ping.rank \notin before[c]

(* A trail that moves by more than five kilometres within a quarter of an  *)
(* hour never earns a claim a better score, whatever the other pings.      *)
JumpNeverRewarded == signal # NoSignal =>
    LET points == {p \in signal.seen : p.place # NoPlace}
        gps == [check |-> GpsCheck(signal), meters |-> signal.trail.meters,
                jumps |-> signal.trail.jumps, pairs |-> signal.trail.pairs]
    IN  (/\ Cardinality(points) >= 3
         /\ \E p, q \in points :
              /\ p.at < q.at /\ q.at <= p.at + 1 /\ Abs(q.place - p.place) > 5000
              /\ \A r \in points \ {p, q} : r.at < p.at \/ r.at > q.at)
        => GpsAdjustment(gps) < 0

(* "Missing/stale/insufficient tower data stays neutral", and so does      *)
(* motion data: a score taken from rows older than half an hour, or        *)
(* without a row, moves by the GPS summary alone.                          *)
StaleIsNeutral == \A f \in Filers :
    filing[f].result.mode = "model" /\ filing[f].old =>
        filing[f].result.adjusted = filing[f].result.raw + GpsAdjustment(filing[f].gps)

(* The language model decides near the threshold only: a claim the model   *)
(* clears or flags by more than the margin stays as it is, and a claim the *)
(* model flags is cleared only by a consistent answer.                     *)
ReviewOnlyNearThreshold == \A f \in Filers :
    LET r == filing[f].result IN
    r.mode = "model" /\ r.flagged # (r.adjusted < Threshold) =>
        /\ Abs(r.adjusted - Threshold) <= Margin
        /\ r.review = "accepted" \/ (r.review = "invalid_output" /\ r.flagged)

(* "Tower signal is advisory only and does not auto-deny claims on its     *)
(* own": a worker's location signals never keep a claim from being filed.  *)
SignalsAdviseOnly == \A f \in Filers :
    filing[f].result.mode = "model" => filing[f].pc # "failed"
=============================================================================
