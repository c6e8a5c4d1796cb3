------------------------------ MODULE CoClaims ------------------------------
(***************************************************************************)
(* The co-claim graph: co_claim_graph.py, its scheduler co_claim_monitor,  *)
(* the runs and clusters of db.py and the endpoints of fraud_clusters.py.  *)
(*                                                                         *)
(* A claim is known by its worker and its group: the zone, type and time   *)
(* bucket that make two claims one co-claim.  Time counts half-lives of    *)
(* the recency weight, and scores are fractions: a numerator over a        *)
(* denominator, never rounded.                                             *)
(***************************************************************************)
EXTENDS Integers, FiniteSets, FiniteSetsExt

CONSTANTS
    Members,       \* workers' phones
    Groups,        \* groups of claims
    BucketOf,      \* when the bucket of each group is
    RunIds,        \* rows of fraud_cluster_runs, each used once
    MinSupport, MinMembers,      \* co_claim_graph_min_edge_support, ..._cluster_members
    Lookback,      \* co_claim_graph_lookback_days, counted in half-lives
    Medium, High,  \* risk thresholds, in hundredths
    LastHalfLife   \* bound of the modelled time

ASSUME CoClaimsAssumption ==
    /\ IsFiniteSet(Members) /\ IsFiniteSet(Groups)
    /\ LastHalfLife \in Nat /\ BucketOf \in [Groups -> 0..LastHalfLife]
    /\ MinSupport \in Nat \ {0} /\ MinMembers \in Nat \ {0, 1}
    /\ Lookback \in Nat
    /\ Medium \in 0..100 /\ High \in Medium..100

VARIABLES
    halfLife,    \* the current time
    filed,       \* claims: records of a phone and a group
    runRows      \* fraud_cluster_runs and the clusters each run computed

coClaimVars == <<halfLife, filed, runRows>>

CoClaim == [phone : Members, group : Groups]
Keys == {m \in SUBSET Members : Cardinality(m) >= 2}
NoRun == [status |-> "none", since |-> 0, found |-> {}]

CoClaimsTypeOK ==
    /\ halfLife \in 0..LastHalfLife
    /\ filed \subseteq CoClaim
    /\ \A r \in RunIds :
         /\ runRows[r].status \in {"none", "running", "computed", "completed", "failed"}
         /\ runRows[r].since \in 0..LastHalfLife
         /\ \A c \in runRows[r].found :
              c.key \in Keys /\ c.level \in {"low", "medium", "high"}

-----------------------------------------------------------------------------
(***************************************************************************)
(* _build_edges: an edge joins two workers who claimed in the same groups  *)
(***************************************************************************)
Pairs(claims) == {e \in SUBSET {c.phone : c \in claims} : Cardinality(e) = 2}
Shared(claims, e) == {g \in Groups : \A p \in e : [phone |-> p, group |-> g] \in claims}
Edges(claims) == {e \in Pairs(claims) : Cardinality(Shared(claims, e)) >= MinSupport}

(* The age of an edge is the age of its last group.                        *)
EdgeAge(claims, e, now) ==
    now - Max({BucketOf[g] : g \in Shared(claims, e)})

(***************************************************************************)
(* _connected_components: the queue is served until nothing new is reached *)
(***************************************************************************)
Reach(es, p) ==
    LET reach[seen \in SUBSET Members] ==
          LET next == seen \cup UNION {e \in es : e \cap seen # {}}
          IN  IF next = seen THEN seen ELSE reach[next]
    IN  reach[{p}]

(* Mutant of Components: a component is a worker and its neighbours.       *)
Components_Stars(es) == {UNION {e \in es : p \in e} : p \in UNION es}

Components(es) == {Reach(es, p) : p \in UNION es}

(***************************************************************************)
(* _cluster_risk_score: 0.45 frequency + 0.25 recency + 0.20 density       *)
(*  + 0.10 activity, over one denominator.  MaxAge bounds the ages.        *)
(***************************************************************************)
Least(x, y) == IF x < y THEN x ELSE y
MaxAge == LastHalfLife
Frequency(claims, e) == Least(Cardinality(Shared(claims, e)), 2 * MinSupport)

(* Mutant of Recency: the weight grows with the age.                       *)
Recency_Growing(claims, e, now) == 2 ^ EdgeAge(claims, e, now)

Recency(claims, e, now) == 2 ^ (MaxAge - EdgeAge(claims, e, now))

PairCount(m) == (m * (m - 1)) \div 2
Risk(claims, key, now) ==
    LET es == {e \in Edges(claims) : e \subseteq key}
        m == Cardinality(key)
        n == Cardinality(es)
        f == SumFunction([e \in es |-> Frequency(claims, e)])
        r == SumFunction([e \in es |-> Recency(claims, e, now)])
        c == SumFunction([e \in es |-> Cardinality(Shared(claims, e))])
        df == 2 * MinSupport * n
        dr == n * 2 ^ MaxAge
        dd == PairCount(m)
        da == 2 * m
    IN  [over |-> 45 * f * dr * dd * da + 25 * r * df * dd * da
                    + 20 * n * df * dr * da + 10 * Least(c, da) * df * dr * dd,
         under |-> df * dr * dd * da]

RiskLevel(risk) ==
    IF risk.over >= High * risk.under THEN "high"
    ELSE IF risk.over >= Medium * risk.under THEN "medium" ELSE "low"

(* compute_co_claim_clusters; its bound of 250 clusters is not reached.    *)
Rings(claims) == {m \in Components(Edges(claims)) : Cardinality(m) >= MinMembers}
Clusters(claims, now) ==
    {[key |-> k, level |-> RiskLevel(Risk(claims, k, now))] : k \in Rings(claims)}

-----------------------------------------------------------------------------
(***************************************************************************)
(* generate_co_claim_clusters_snapshot                                     *)
(***************************************************************************)
(* _parse_claim_events keeps the rows whose created_at is text.  Rows that *)
(* list_claim_events_since reads carry datetimes.                          *)
ParseClaimEvents(rows, createdAt) == IF createdAt = "text" THEN rows ELSE {}
ClaimEventsSince(since) == {c \in filed : BucketOf[c.group] >= since}

CoClaimsInit ==
    /\ halfLife = 0
    /\ filed = {}
    /\ runRows = [r \in RunIds |-> NoRun]

CoClaimsTick ==
    /\ halfLife < LastHalfLife
    /\ halfLife' = halfLife + 1
    /\ UNCHANGED <<filed, runRows>>

FileCoClaim(p, g) ==
    /\ BucketOf[g] = halfLife
    /\ filed' = filed \cup {[phone |-> p, group |-> g]}
    /\ UNCHANGED <<halfLife, runRows>>

StartRun(r) ==
    /\ runRows[r].status = "none"
    /\ runRows' = [runRows EXCEPT ![r].status = "running", ![r].since = halfLife]
    /\ UNCHANGED <<halfLife, filed>>

ComputeRun(r) ==
    /\ runRows[r].status = "running"
    /\ LET rows == ClaimEventsSince(halfLife - Lookback)
       IN  runRows' = [runRows EXCEPT ![r].status = "computed",
             ![r].found = Clusters(ParseClaimEvents(rows, "datetime"), halfLife)]
    /\ UNCHANGED <<halfLife, filed>>

(* A cluster's members carry their dates as text, which the insert into    *)
(* TIMESTAMPTZ refuses: a run that has a cluster to save fails, so no      *)
(* cluster is stored, and none is left out as stored before.               *)
FinishRun(r) ==
    /\ runRows[r].status = "computed"
    /\ runRows' = [runRows EXCEPT
         ![r].status = IF runRows[r].found = {} THEN "completed" ELSE "failed"]
    /\ UNCHANGED <<halfLife, filed>>

(* An exception is caught and the run finalized.                           *)
FailRun(r) ==
    /\ runRows[r].status \in {"running", "computed"}
    /\ runRows' = [runRows EXCEPT ![r].status = "failed"]
    /\ UNCHANGED <<halfLife, filed>>

CoClaimsNext ==
    \/ CoClaimsTick
    \/ \E p \in Members, g \in Groups : FileCoClaim(p, g)
    \/ \E r \in RunIds : StartRun(r) \/ ComputeRun(r) \/ FinishRun(r) \/ FailRun(r)

CoClaimsSpec == CoClaimsInit /\ [][CoClaimsNext]_coClaimVars

-----------------------------------------------------------------------------
(***************************************************************************)
(* Properties of the computation over claims dated as text                 *)
(***************************************************************************)
(* A ring is reported whole and once: clusters are disjoint, every member  *)
(* has a supported pair inside, and no supported pair leaves a cluster.    *)
RingsAreWhole ==
    LET rings == Rings(filed) es == Edges(filed) IN
    /\ \A c, d \in rings : c \cap d # {} => c = d
    /\ \A c \in rings : \A p \in c : \E e \in es : p \in e /\ e \subseteq c
    /\ \A c \in rings, e \in es : e \cap c # {} => e \subseteq c

(* A ring that claims no more never looks riskier as time passes, and its  *)
(* risk stays a fraction of one.                                           *)
RiskDecays == [][halfLife' # halfLife =>
    \A ring \in Rings(filed) :
        LET was == Risk(filed, ring, halfLife)
            is == Risk(filed, ring, halfLife')
        IN  is.over <= was.over /\ was.over <= 100 * was.under]_coClaimVars
=============================================================================
