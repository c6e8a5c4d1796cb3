--------------------------- MODULE ScoringProofs ---------------------------
(***************************************************************************)
(* A worker's signals and what they move, for any number of uploads and    *)
(* claims, whatever they carry, however their statements interleave, and   *)
(* whatever the isolation forest and the language model answer.            *)
(*                                                                         *)
(* First, which ping the worker's row is.  Then what the row says of the   *)
(* trail of pings: that the trail it carries is computed from the pings it *)
(* was computed from.  Last, which readings count in a score, and who      *)
(* decides about it.                                                       *)
(***************************************************************************)
EXTENDS FraudScore, FiniteFacts

(***************************************************************************)
(* Uploads                                                                 *)
(***************************************************************************)
Ranks(points) == {p.rank : p \in points}
Called(c) == upload[c].pc # "new"
Writing == {"insert", "select", "upsert"}
UploadSteps == {"new", "insert", "select", "upsert", "purge", "done"}

(* What has been given a rank so far is bounded by the ranks that can be   *)
(* seen, although pings are purged.                                        *)
RanksBounded ==
    \/ (\A c \in Calls : ~ Called(c)) /\ saved \subseteq Ranks(pings)
    \/ \E c \in Calls :
         /\ Called(c)
         /\ \A x \in saved \cup Ranks(pings) : x <= upload[c].ping.rank
         /\ \A d \in Calls : upload[d].ping.rank <= upload[c].ping.rank

UploadsTyped ==
    /\ moment \in Nat
    /\ pings \subseteq Ping /\ IsFiniteSet(pings)
    /\ saved \subseteq Nat
    /\ upload = [c \in Calls |-> upload[c]]
    /\ \A c \in Calls :
         upload[c] \in [pc : UploadSteps, ping : Ping, telemetry : Telemetry,
                        trail : {upload[c].trail}, seen : {upload[c].seen}]
    /\ before \in [Calls -> SUBSET Nat]

(* A ping is not saved before its call writes the row, and no two calls    *)
(* have a ping in common.  Only a request purges and starts a task.        *)
UploadsKept ==
    /\ UploadsTyped
    /\ \A c \in Calls : before[c] \subseteq saved
    /\ \A c \in Calls : c.task => upload[c].pc # "purge"
    /\ \A c \in Calls : upload[c].pc \in Writing => upload[c].ping.rank \notin saved
    /\ \A c, d \in Calls : c # d /\ Called(c) /\ Called(d) =>
         upload[c].ping.rank # upload[d].ping.rank
    /\ RanksBounded

-----------------------------------------------------------------------------
LEMMA CallsFinite == IsFiniteSet(Calls)
  <1> DEFINE half(t) == [u \in Uploads |-> [request |-> u, task |-> t]]
             calls(t) == {c \in Calls : c.task = t}
  <1>1. ASSUME NEW t \in BOOLEAN PROVE IsFiniteSet(calls(t))
    <2>1. half(t) \in Surjection(Uploads, calls(t))
      BY DEF Surjection, Calls
    <2> QED
      BY <2>1, PastAssumption, FS_Surjection
  <1>2. Calls = calls(TRUE) \cup calls(FALSE)
    BY DEF Calls
  <1> HIDE DEF calls
  <1> QED
    BY <1>1, <1>2, FS_Union

LEMMA FreshRank ==
    ASSUME UploadsKept
    PROVE  /\ LastRank \in Nat
           /\ \A x \in saved \cup Ranks(pings) : x <= LastRank
           /\ \A c \in Calls : upload[c].ping.rank <= LastRank
  <1> USE DEF UploadsKept, UploadsTyped
  <1>1. PICK P : P = Ranks(pings)
    OBVIOUS
  <1>2. PICK C : C = {upload[c].ping.rank : c \in Calls}
    OBVIOUS
  <1>3. P \subseteq Nat /\ IsFiniteSet(P)
    <2>1. P \subseteq Nat
      BY <1>1 DEF Ranks, Ping
    <2>2. [p \in pings |-> p.rank] \in Surjection(pings, P)
      BY <1>1 DEF Surjection, Ranks
    <2> QED
      BY <2>1, <2>2, FS_Surjection
  <1>4. C \subseteq Nat /\ IsFiniteSet(C)
    <2>1. \A c \in Calls : upload[c].ping.rank \in Nat
      BY DEF Ping
    <2>2. [c \in Calls |-> upload[c].ping.rank] \in Surjection(Calls, C)
      BY <1>2 DEF Surjection
    <2> QED
      BY <1>2, <2>1, <2>2, CallsFinite, FS_Surjection
  <1>5. PICK S \in SUBSET Nat : S = {0} \cup P \cup C
    <2>1. {0} \cup P \cup C \subseteq Nat
      BY <1>3, <1>4
    <2> QED
      BY <2>1
  <1>6. IsFiniteSet(S)
    BY <1>3, <1>4, <1>5, FS_Union, FS_Singleton
  <1>7. LastRank = Max(S)
    BY <1>1, <1>2, <1>5 DEF LastRank, Ranks
  <1>8. LastRank \in Nat /\ \A y \in S : y <= LastRank
    <2>1. S # {}
      BY <1>5
    <2> QED
      BY <1>6, <1>7, <2>1, MaxBounds
  <1>9. \A c \in Calls : upload[c].ping.rank <= LastRank
    BY <1>2, <1>5, <1>8
  <1>10. \A x \in Ranks(pings) : x <= LastRank
    BY <1>1, <1>5, <1>8
  <1>11. \A x \in saved : x <= LastRank
    <2>1. CASE saved \subseteq Ranks(pings)
      BY <2>1, <1>10
    <2>2. ASSUME NEW c \in Calls, \A x \in saved : x <= upload[c].ping.rank
          PROVE  \A x \in saved : x <= LastRank
      <3>1. upload[c].ping.rank \in Nat
        BY DEF Ping
      <3> QED
        BY <2>2, <3>1, <1>8, <1>9
    <2> QED
      BY <2>1, <2>2 DEF RanksBounded
  <1> QED
    BY <1>8, <1>9, <1>10, <1>11
-----------------------------------------------------------------------------
(***************************************************************************)
(* Three kinds of steps: nothing gets a rank and nothing is saved, a call  *)
(* gets a fresh rank, or a call saves its ping.                            *)
(***************************************************************************)
Continues(d) == /\ upload'[d].ping = upload[d].ping
                /\ Called(d)' <=> Called(d)
                /\ upload'[d].pc \in Writing => upload[d].pc \in Writing

LEMMA NothingNew ==
    ASSUME UploadsKept, NewestSignalKept, UploadsTyped', NEW c \in Calls, Called(c),
           \A d \in Calls : Continues(d),
           \A d \in Calls : d.task => upload'[d].pc # "purge",
           \A x \in Ranks(pings)' : x \in Ranks(pings) \/ \E d \in Calls : x = upload[d].ping.rank,
           UNCHANGED <<saved, before, signal>>
    PROVE  UploadsKept' /\ NewestSignalKept'
  <1> USE DEF UploadsKept, Continues
  <1>1. PICK b \in Calls : /\ Called(b)
                           /\ \A x \in saved \cup Ranks(pings) : x <= upload[b].ping.rank
                           /\ \A d \in Calls : upload[d].ping.rank <= upload[b].ping.rank
    BY DEF RanksBounded
  <1>2. RanksBounded'
    <2>1. Called(b)' /\ \A d \in Calls : upload'[d].ping.rank <= upload'[b].ping.rank
      BY <1>1
    <2>2. \A x \in saved' \cup Ranks(pings)' : x <= upload'[b].ping.rank
      BY <1>1
    <2> QED
      BY <2>1, <2>2 DEF RanksBounded
  <1>3. NewestSignalKept'
    BY DEF NewestSignalKept
  <1>4. \A d \in Calls : upload'[d].pc \in Writing => upload'[d].ping.rank \notin saved'
    OBVIOUS
  <1>5. \A d, e \in Calls : d # e /\ Called(d)' /\ Called(e)' =>
          upload'[d].ping.rank # upload'[e].ping.rank
    OBVIOUS
  <1> QED
    BY <1>2, <1>3, <1>4, <1>5

LEMMA FreshPing ==
    ASSUME UploadsKept, NewestSignalKept, UploadsTyped', NEW c \in Calls,
           upload'[c].pc = "insert", upload'[c].ping.rank = LastRank + 1,
           \A d \in Calls \ {c} : Continues(d) /\ before'[d] = before[d],
           \A d \in Calls \ {c} : d.task => upload'[d].pc # "purge",
           pings' \subseteq pings, before'[c] = saved, UNCHANGED <<saved, signal>>
    PROVE  UploadsKept' /\ NewestSignalKept'
  <1> USE DEF UploadsKept, Continues
  <1>1. /\ LastRank \in Nat
        /\ \A x \in saved \cup Ranks(pings) : x \in Nat /\ x <= LastRank
        /\ \A d \in Calls : upload[d].ping.rank \in Nat /\ upload[d].ping.rank <= LastRank
    BY FreshRank DEF UploadsTyped, Ping, Ranks
  <1>2. LastRank + 1 \notin saved
    BY <1>1
  <1>3. RanksBounded'
    <2>1. Called(c)'
      BY DEF Called
    <2>2. \A x \in saved' \cup Ranks(pings)' : x <= upload'[c].ping.rank
      BY <1>1 DEF Ranks
    <2>3. \A d \in Calls : upload'[d].ping.rank <= upload'[c].ping.rank
      BY <1>1
    <2> QED
      BY <2>1, <2>2, <2>3 DEF RanksBounded
  <1>4. NewestSignalKept'
    BY <1>2 DEF NewestSignalKept
  <1>5. \A d \in Calls : upload'[d].pc \in Writing => upload'[d].ping.rank \notin saved'
    BY <1>2
  <1>6. \A d \in Calls \ {c} : upload'[d].ping.rank # LastRank + 1
    BY <1>1
  <1>7. \A d, e \in Calls : d # e /\ Called(d)' /\ Called(e)' =>
          upload'[d].ping.rank # upload'[e].ping.rank
    BY <1>6
  <1>8. \A d \in Calls : before'[d] \subseteq saved'
    OBVIOUS
  <1> QED
    BY <1>3, <1>4, <1>5, <1>7, <1>8

LEMMA SavedPing ==
    ASSUME UploadsKept, UploadsTyped', NEW c \in Calls,
           upload[c].pc = "upsert", upload'[c].pc \notin Writing,
           \A d \in Calls : Continues(d),
           \A d \in Calls : d.task => upload'[d].pc # "purge",
           saved' = saved \cup {upload[c].ping.rank}, signal'.ping = upload[c].ping,
           UNCHANGED <<pings, before>>
    PROVE  UploadsKept' /\ NewestSignalKept'
  <1> USE DEF UploadsKept, Continues
  <1>0. Called(c) /\ upload[c].ping.rank \notin saved
    BY DEF Called, Writing
  <1>1. PICK b \in Calls : /\ Called(b)
                           /\ \A x \in saved \cup Ranks(pings) : x <= upload[b].ping.rank
                           /\ \A d \in Calls : upload[d].ping.rank <= upload[b].ping.rank
    BY <1>0 DEF RanksBounded
  <1>2. RanksBounded'
    <2>1. Called(b)' /\ \A d \in Calls : upload'[d].ping.rank <= upload'[b].ping.rank
      BY <1>1
    <2>2. \A x \in saved' \cup Ranks(pings)' : x <= upload'[b].ping.rank
      BY <1>1 DEF Ranks
    <2> QED
      BY <2>1, <2>2 DEF RanksBounded
  <1>3. \A d \in Calls : upload[c].ping.rank \notin before[d]
    BY <1>0
  <1>4. NewestSignalKept'
    BY <1>3 DEF NewestSignalKept
  <1>5. \A d \in Calls : upload'[d].pc \in Writing => upload'[d].ping.rank \notin saved'
    <2> SUFFICES ASSUME NEW d \in Calls, upload'[d].pc \in Writing
                 PROVE  upload[d].ping.rank \notin saved \cup {upload[c].ping.rank}
      OBVIOUS
    <2>1. d # c /\ upload[d].pc \in Writing /\ Called(d)
      BY DEF Called, Writing
    <2> QED
      BY <2>1, <1>0
  <1>6. \A d, e \in Calls : d # e /\ Called(d)' /\ Called(e)' =>
          upload'[d].ping.rank # upload'[e].ping.rank
    OBVIOUS
  <1>7. \A d \in Calls : before'[d] \subseteq saved'
    OBVIOUS
  <1> QED
    BY <1>2, <1>4, <1>5, <1>6, <1>7
-----------------------------------------------------------------------------
LEMMA UploadsInit == ScoringInit => UploadsKept /\ NewestSignalKept
  <1> SUFFICES ASSUME SignalsInit PROVE UploadsKept /\ NewestSignalKept
    BY DEF ScoringInit
  <1> USE SignalsAssumption, PastAssumption DEF SignalsInit
  <1>1. /\ \A c \in Calls : upload[c] = [pc |-> "new", ping |-> NoPing, telemetry |-> Silent,
                                         trail |-> NoTrail, seen |-> {}]
        /\ upload = [c \in Calls |-> upload[c]]
    OBVIOUS
  <1>2. NoPing \in Ping /\ Silent \in Telemetry
    BY DEF NoPing, Ping, Silent
  <1>3. saved = Ranks(pings) /\ saved \subseteq Nat
    BY DEF Ranks, Ping
  <1>4. UploadsTyped
    BY <1>1, <1>2, <1>3 DEF UploadsTyped, UploadSteps
  <1>5. \A c \in Calls : before[c] = {} /\ upload[c].pc = "new"
    BY <1>1
  <1>6. RanksBounded
    BY <1>3, <1>5 DEF RanksBounded, Called
  <1> QED
    BY <1>4, <1>5, <1>6 DEF UploadsKept, NewestSignalKept, Called, Writing

(* A call that moves on keeps what it has.                                 *)
LEMMA CallMoves ==
    ASSUME UploadsTyped, NEW c \in Calls, NEW pc \in UploadSteps, NEW trail, NEW seen,
           \/ Proceed(c, pc)
           \/ upload' = [upload EXCEPT ![c].pc = pc, ![c].trail = trail, ![c].seen = seen]
    PROVE  /\ upload' = [d \in Calls |-> upload'[d]]
           /\ \A d \in Calls :
                upload'[d] \in [pc : UploadSteps, ping : Ping, telemetry : Telemetry,
                                trail : {upload'[d].trail}, seen : {upload'[d].seen}]
           /\ upload'[c].pc = pc
           /\ upload'[c].ping = upload[c].ping
           /\ \A d \in Calls \ {c} : upload'[d] = upload[d]
           /\ \/ upload'[c].trail = upload[c].trail /\ upload'[c].seen = upload[c].seen
              \/ upload'[c].trail = trail /\ upload'[c].seen = seen
  <1>1. upload = [d \in Calls |-> upload[d]]
    BY DEF UploadsTyped
  <1>2. upload[c] \in [pc : UploadSteps, ping : Ping, telemetry : Telemetry,
                       trail : {upload[c].trail, trail}, seen : {upload[c].seen, seen}]
    BY DEF UploadsTyped
  <1>3. PICK x : x = upload'[c]
    OBVIOUS
  <1>4. CASE Proceed(c, pc)
    <2>1. x = [upload[c] EXCEPT !.pc = pc] /\ upload' = [upload EXCEPT ![c] = x]
      BY <1>1, <1>3, <1>4 DEF Proceed
    <2>2. x \in [pc : {pc}, ping : {upload[c].ping}, telemetry : {upload[c].telemetry},
                 trail : {upload[c].trail}, seen : {upload[c].seen}]
      BY <2>1, <1>2
    <2> QED
      BY <1>1, <1>2, <1>3, <2>1, <2>2 DEF UploadsTyped
  <1>5. CASE upload' = [upload EXCEPT ![c].pc = pc, ![c].trail = trail, ![c].seen = seen]
    <2>1. /\ x = [upload[c] EXCEPT !.pc = pc, !.trail = trail, !.seen = seen]
          /\ upload' = [upload EXCEPT ![c] = x]
      BY <1>1, <1>3, <1>5
    <2>2. x \in [pc : {pc}, ping : {upload[c].ping}, telemetry : {upload[c].telemetry},
                 trail : {trail}, seen : {seen}]
      BY <2>1, <1>2
    <2> QED
      BY <1>1, <1>2, <1>3, <2>1, <2>2 DEF UploadsTyped
  <1> QED
    BY <1>4, <1>5

(* A call that starts has the ping it is given.                            *)
LEMMA CallStarts ==
    ASSUME UploadsTyped, NEW c \in Calls, NEW ping \in Ping, NEW telemetry \in Telemetry
    PROVE  /\ Started(upload[c], ping, telemetry).pc = "insert"
           /\ Started(upload[c], ping, telemetry).ping = ping
           /\ Started(upload[c], ping, telemetry).trail = upload[c].trail
           /\ Started(upload[c], ping, telemetry).seen = upload[c].seen
           /\ Started(upload[c], ping, telemetry) \in
                [pc : UploadSteps, ping : Ping, telemetry : Telemetry,
                 trail : {Started(upload[c], ping, telemetry).trail},
                 seen : {Started(upload[c], ping, telemetry).seen}]
  <1>1. upload[c] \in [pc : UploadSteps, ping : Ping, telemetry : Telemetry,
                       trail : {upload[c].trail}, seen : {upload[c].seen}]
    BY DEF UploadsTyped
  <1>2. Started(upload[c], ping, telemetry) \in
          [pc : {"insert"}, ping : {ping}, telemetry : {telemetry},
           trail : {upload[c].trail}, seen : {upload[c].seen}]
    BY <1>1 DEF Started, UploadSteps
  <1> QED
    BY <1>2 DEF UploadSteps

LEMMA NewPingTyped ==
    ASSUME UploadsKept, NEW place \in Places \cup {NoPlace}, NEW at \in Int
    PROVE  NewPing(place, at) \in Ping /\ NewPing(place, at).rank = LastRank + 1
  BY FreshRank DEF NewPing, Ping, UploadsKept, UploadsTyped
LEMMA UploadsStep ==
    UploadsKept /\ NewestSignalKept /\ [ScoringNext]_scoringVars
      => UploadsKept' /\ NewestSignalKept'
  <1> SUFFICES ASSUME UploadsKept, NewestSignalKept, [ScoringNext]_scoringVars
               PROVE  UploadsKept' /\ NewestSignalKept'
    OBVIOUS
  <1> USE SignalsAssumption
  <1>t. UploadsTyped
    BY DEF UploadsKept
  <1>1. CASE UNCHANGED <<pings, signal, upload, saved, before>> /\ moment' \in Nat
    BY <1>1 DEF UploadsKept, UploadsTyped, NewestSignalKept, RanksBounded, Called, Writing, Ranks
  <1>2. ASSUME NEW u \in Uploads, NEW place \in Places \cup {NoPlace}, NEW lag \in Lags,
               NEW telemetry \in Telemetry, BeginUpload(u, place, lag, telemetry)
        PROVE  UploadsKept' /\ NewestSignalKept'
    <2>1. PICK c \in Calls : c = First(u)
      <3>1. First(u) \in Calls
        BY DEF First, Calls
      <3> QED
        BY <3>1
    <2>2. moment - lag \in Int
      BY <1>t DEF UploadsTyped
    <2>3. PICK ping \in Ping : ping = NewPing(place, moment - lag) /\ ping.rank = LastRank + 1
      BY <2>2, NewPingTyped
    <2>4. PICK x : x = Started(upload[c], ping, telemetry)
      OBVIOUS
    <2>5. /\ upload' = [upload EXCEPT ![c] = x]
          /\ before' = [before EXCEPT ![c] = saved]
          /\ UNCHANGED <<moment, pings, signal, saved>>
      BY <1>2, <2>1, <2>3, <2>4 DEF BeginUpload
    <2>6. /\ x.pc = "insert" /\ x.ping = ping
          /\ x \in [pc : UploadSteps, ping : Ping, telemetry : Telemetry,
                    trail : {x.trail}, seen : {x.seen}]
      BY <2>4, <1>t, CallStarts
    <2>7. upload'[c] = x /\ \A d \in Calls \ {c} : upload'[d] = upload[d]
      BY <2>5, <1>t DEF UploadsTyped
    <2>8. UploadsTyped'
      BY <2>5, <2>6, <2>7, <1>t DEF UploadsTyped
    <2>9. before'[c] = saved /\ \A d \in Calls \ {c} : before'[d] = before[d]
      BY <2>5, <1>t DEF UploadsTyped
    <2>10. \A d \in Calls \ {c} : Continues(d) /\ (d.task => upload'[d].pc # "purge")
      BY <2>7 DEF Continues, Called, UploadsKept
    <2> QED
      BY <2>3, <2>5, <2>6, <2>7, <2>8, <2>9, <2>10, FreshPing
  <1>3. ASSUME NEW c \in Calls, InsertPing(c) PROVE UploadsKept' /\ NewestSignalKept'
    <2>1. /\ upload[c].pc = "insert" /\ Proceed(c, "select")
          /\ pings' = pings \cup {upload[c].ping}
          /\ UNCHANGED <<moment, signal, saved, before>>
      BY <1>3 DEF InsertPing, Uploading
    <2>2. /\ upload' = [d \in Calls |-> upload'[d]]
          /\ \A d \in Calls :
               upload'[d] \in [pc : UploadSteps, ping : Ping, telemetry : Telemetry,
                               trail : {upload'[d].trail}, seen : {upload'[d].seen}]
          /\ upload'[c].pc = "select" /\ upload'[c].ping = upload[c].ping
          /\ \A d \in Calls \ {c} : upload'[d] = upload[d]
      BY <2>1, <1>t, CallMoves DEF UploadSteps
    <2>3. upload[c].ping \in Ping
      BY <1>t DEF UploadsTyped
    <2>4. IsFiniteSet(pings')
      BY <2>1, <1>t, FS_AddElement DEF UploadsTyped
    <2>5. UploadsTyped'
      BY <2>1, <2>2, <2>3, <2>4, <1>t DEF UploadsTyped
    <2>6. \A d \in Calls : Continues(d) /\ (d.task => upload'[d].pc # "purge")
      BY <2>1, <2>2 DEF Continues, Called, Writing, UploadsKept
    <2>7. \A x \in Ranks(pings)' : x \in Ranks(pings) \/ \E d \in Calls : x = upload[d].ping.rank
      BY <2>1 DEF Ranks
    <2> QED
      BY <2>1, <2>5, <2>6, <2>7, NothingNew DEF Called
  <1>4. ASSUME NEW c \in Calls, SelectTrail(c) PROVE UploadsKept' /\ NewestSignalKept'
    <2>0. PICK trail, seen : trail = Variance(Recent(pings)) /\ seen = Recent(pings)
      OBVIOUS
    <2>1. /\ upload[c].pc = "select"
          /\ upload' = [upload EXCEPT ![c].pc = "upsert", ![c].trail = trail, ![c].seen = seen]
          /\ UNCHANGED <<moment, pings, signal, saved, before>>
      BY <1>4, <2>0 DEF SelectTrail, Uploading
    <2>2. /\ upload' = [d \in Calls |-> upload'[d]]
          /\ \A d \in Calls :
               upload'[d] \in [pc : UploadSteps, ping : Ping, telemetry : Telemetry,
                               trail : {upload'[d].trail}, seen : {upload'[d].seen}]
          /\ upload'[c].pc = "upsert" /\ upload'[c].ping = upload[c].ping
          /\ \A d \in Calls \ {c} : upload'[d] = upload[d]
      BY <2>1, <1>t, CallMoves DEF UploadSteps
    <2>3. UploadsTyped'
      BY <2>1, <2>2, <1>t DEF UploadsTyped
    <2>4. \A d \in Calls : Continues(d) /\ (d.task => upload'[d].pc # "purge")
      BY <2>1, <2>2 DEF Continues, Called, Writing, UploadsKept
    <2> QED
      BY <2>1, <2>3, <2>4, NothingNew DEF Called, Ranks
  <1>5. ASSUME NEW c \in Calls, UpsertSignal(c) PROVE UploadsKept' /\ NewestSignalKept'
    <2>1. PICK pc \in {"done", "purge"} :
            Proceed(c, pc) /\ (c.task => pc = "done")
      BY <1>5 DEF UpsertSignal, WriteSignal
    <2>2. /\ upload[c].pc = "upsert" /\ signal'.ping = upload[c].ping
          /\ saved' = saved \cup {upload[c].ping.rank}
          /\ UNCHANGED <<moment, pings, before>>
      BY <1>5 DEF UpsertSignal, WriteSignal, RowOf, Uploading
    <2>3. /\ upload' = [d \in Calls |-> upload'[d]]
          /\ \A d \in Calls :
               upload'[d] \in [pc : UploadSteps, ping : Ping, telemetry : Telemetry,
                               trail : {upload'[d].trail}, seen : {upload'[d].seen}]
          /\ upload'[c].pc = pc /\ upload'[c].ping = upload[c].ping
          /\ \A d \in Calls \ {c} : upload'[d] = upload[d]
      BY <2>1, <1>t, CallMoves DEF UploadSteps
    <2>4. upload[c].ping.rank \in Nat
      BY <1>t DEF UploadsTyped, Ping
    <2>5. UploadsTyped'
      BY <2>2, <2>3, <2>4, <1>t DEF UploadsTyped
    <2>6. \A d \in Calls : Continues(d) /\ (d.task => upload'[d].pc # "purge")
      BY <2>1, <2>2, <2>3 DEF Continues, Called, Writing, UploadsKept
    <2>7. upload'[c].pc \notin Writing
      BY <2>3 DEF Writing
    <2> QED
      BY <2>2, <2>5, <2>6, <2>7, SavedPing
  <1>6. ASSUME NEW c \in Calls, PurgeStale(c) PROVE UploadsKept' /\ NewestSignalKept'
    <2>1. PICK place \in Places \cup {NoPlace} : place = upload[c].ping.place
      BY <1>t DEF UploadsTyped, Ping
    <2>2. /\ upload[c].pc = "purge" /\ c.task = FALSE
          /\ pings' \subseteq pings /\ UNCHANGED <<moment, signal, saved>>
      BY <1>6 DEF PurgeStale, Uploading, UploadsKept, Calls
    <2>3. IsFiniteSet(pings') /\ \A x \in Ranks(pings)' : x \in Ranks(pings)
      BY <2>2, <1>t, FS_Subset DEF UploadsTyped, Ranks
    <2>4. PICK t \in Calls : t = Task(c) /\ t.task = TRUE /\ t # c
      <3>1. Task(c) \in Calls /\ Task(c).task = TRUE
        BY DEF Task, Calls
      <3> QED
        BY <3>1, <2>2
    <2>5. CASE place = NoPlace
      <3>1. upload' = [upload EXCEPT ![c].pc = "done", ![t] = @] /\ before' = [before EXCEPT ![t] = @]
        BY <1>6, <2>1, <2>4, <2>5 DEF PurgeStale
      <3>2. Proceed(c, "done") /\ before' = before
        BY <3>1, <2>4, <1>t DEF Proceed, UploadsTyped
      <3>3. /\ upload' = [d \in Calls |-> upload'[d]]
            /\ \A d \in Calls :
                 upload'[d] \in [pc : UploadSteps, ping : Ping, telemetry : Telemetry,
                                 trail : {upload'[d].trail}, seen : {upload'[d].seen}]
            /\ upload'[c].pc = "done" /\ upload'[c].ping = upload[c].ping
            /\ \A d \in Calls \ {c} : upload'[d] = upload[d]
        BY <3>2, <1>t, CallMoves DEF UploadSteps
      <3>4. UploadsTyped'
        BY <2>2, <2>3, <3>2, <3>3, <1>t DEF UploadsTyped
      <3>5. \A d \in Calls : Continues(d) /\ (d.task => upload'[d].pc # "purge")
        BY <2>2, <3>3 DEF Continues, Called, Writing, UploadsKept
      <3> QED
        BY <2>2, <2>3, <3>2, <3>4, <3>5, NothingNew DEF Called
    <2>6. CASE place # NoPlace
      <3>1. PICK ping \in Ping : ping = NewPing(place, moment) /\ ping.rank = LastRank + 1
        BY <1>t, NewPingTyped DEF UploadsTyped
      <3>2. Silent \in Telemetry
        BY DEF Silent
      <3>3. PICK x : x = Started(upload[t], ping, Silent)
        OBVIOUS
      <3>4. /\ x.pc = "insert" /\ x.ping = ping
            /\ x \in [pc : UploadSteps, ping : Ping, telemetry : Telemetry,
                      trail : {x.trail}, seen : {x.seen}]
        BY <3>2, <3>3, <1>t, CallStarts
      <3>5. /\ upload' = [upload EXCEPT ![c].pc = "done", ![t] = Started(@, ping, Silent)]
            /\ before' = [before EXCEPT ![t] = saved]
        BY <1>6, <2>1, <2>4, <2>6, <3>1 DEF PurgeStale
      <3>6. PICK y : y = [upload[c] EXCEPT !.pc = "done"]
        OBVIOUS
      <3>7. /\ upload' = [d \in Calls |-> upload'[d]]
            /\ upload'[c] = y /\ upload'[t] = x
            /\ \A d \in Calls \ {c, t} : upload'[d] = upload[d]
        BY <2>4, <3>3, <3>5, <3>6, <1>t DEF UploadsTyped
      <3>8. y \in [pc : {"done"}, ping : {upload[c].ping}, telemetry : {upload[c].telemetry},
                   trail : {upload[c].trail}, seen : {upload[c].seen}]
        BY <3>6, <1>t DEF UploadsTyped
      <3>9. /\ y.pc = "done" /\ y.ping = upload[c].ping
            /\ y \in [pc : UploadSteps, ping : Ping, telemetry : Telemetry,
                      trail : {y.trail}, seen : {y.seen}]
        BY <3>8, <1>t DEF UploadsTyped, UploadSteps
      <3>10. /\ before'[t] = saved /\ \A d \in Calls \ {t} : before'[d] = before[d]
             /\ before' \in [Calls -> SUBSET Nat]
        BY <3>5, <1>t DEF UploadsTyped
      <3>11. \A d \in Calls :
               upload'[d] \in [pc : UploadSteps, ping : Ping, telemetry : Telemetry,
                               trail : {upload'[d].trail}, seen : {upload'[d].seen}]
        BY <3>4, <3>7, <3>9, <1>t DEF UploadsTyped
      <3>12. UploadsTyped'
        BY <2>2, <2>3, <3>7, <3>10, <3>11, <1>t DEF UploadsTyped
      <3>13. \A d \in Calls \ {t} : Continues(d) /\ (d.task => upload'[d].pc # "purge")
        BY <2>2, <3>7, <3>9 DEF Continues, Called, Writing, UploadsKept
      <3> QED
        BY <2>2, <3>1, <3>4, <3>7, <3>10, <3>12, <3>13, FreshPing
    <2> QED
      BY <2>5, <2>6
  <1>7. ASSUME NEW c \in Calls, DropUpload(c) PROVE UploadsKept' /\ NewestSignalKept'
    <2>1. /\ upload[c].pc \in {"insert", "select", "upsert", "purge"} /\ Proceed(c, "done")
          /\ UNCHANGED <<moment, pings, signal, saved, before>>
      BY <1>7 DEF DropUpload
    <2>2. /\ upload' = [d \in Calls |-> upload'[d]]
          /\ \A d \in Calls :
               upload'[d] \in [pc : UploadSteps, ping : Ping, telemetry : Telemetry,
                               trail : {upload'[d].trail}, seen : {upload'[d].seen}]
          /\ upload'[c].pc = "done" /\ upload'[c].ping = upload[c].ping
          /\ \A d \in Calls \ {c} : upload'[d] = upload[d]
      BY <2>1, <1>t, CallMoves DEF UploadSteps
    <2>3. UploadsTyped'
      BY <2>1, <2>2, <1>t DEF UploadsTyped
    <2>4. \A d \in Calls : Continues(d) /\ (d.task => upload'[d].pc # "purge")
      BY <2>1, <2>2 DEF Continues, Called, Writing, UploadsKept
    <2> QED
      BY <2>1, <2>3, <2>4, NothingNew DEF Called, Ranks
  <1>8. CASE SignalsTick
    <2>1. moment' = moment + 1 /\ UNCHANGED <<pings, signal, upload, saved, before>>
      BY <1>8 DEF SignalsTick
    <2> QED
      BY <2>1, <1>1, <1>t DEF UploadsTyped
  <1>9. CASE UNCHANGED signalVars
    BY <1>9, <1>1, <1>t DEF signalVars, UploadsTyped
  <1> QED
    BY <1>2, <1>3, <1>4, <1>5, <1>6, <1>7, <1>8, <1>9
    DEF ScoringNext, SignalsNext, FraudNext, scoringVars

(* The row is never a ping that had been saved before another, since       *)
(* saved, began: a slow upload may hide one that ran beside it, never one  *)
(* that came after it.                                                     *)
THEOREM NewestSignalStays == ScoringSpec => []NewestSignalKept
  BY UploadsInit, UploadsStep, PTL DEF ScoringSpec

-----------------------------------------------------------------------------
(***************************************************************************)
(* What the row says of the trail.  A call carries the pings it has read   *)
(* and what it computed from them; the row is what some call carried.      *)
(***************************************************************************)
Measured(x) == x.seen \subseteq Ping /\ IsFiniteSet(x.seen) /\ x.trail = Variance(x.seen)

RowsKept ==
    /\ signal # NoSignal =>
         signal.ping \in Ping /\ signal.telemetry \in Telemetry /\ Measured(signal)
    /\ \A c \in Calls : Measured(upload[c])

LEMMA RecentPings ==
    ASSUME NEW S, S \subseteq Ping, IsFiniteSet(S)
    PROVE  Recent(S) \subseteq Ping /\ IsFiniteSet(Recent(S))
  <1>1. Recent(S) \subseteq S
    BY DEF Recent
  <1> QED
    BY <1>1, FS_Subset

LEMMA RowsInit == ScoringInit => RowsKept
  <1> SUFFICES ASSUME SignalsInit PROVE RowsKept
    BY DEF ScoringInit
  <1> USE SignalsAssumption, PastAssumption
  <1>1. \A c \in Calls : upload[c].seen = {} /\ upload[c].trail = NoTrail
    BY DEF SignalsInit
  <1>2. Variance({}) = NoTrail
    <2>1. {p \in {} : p.place # NoPlace} = {}
      OBVIOUS
    <2>2. Cardinality({p \in {} : p.place # NoPlace}) = 0
      BY <2>1, FS_EmptySet
    <2> QED
      BY <2>2 DEF Variance
  <1>3. \A c \in Calls : Measured(upload[c])
    BY <1>1, <1>2, FS_EmptySet DEF Measured
  <1>4. ASSUME signal # NoSignal
        PROVE  signal.ping \in Ping /\ signal.telemetry \in Telemetry /\ Measured(signal)
    <2>1. pings # {} /\ pings \subseteq Ping /\ IsFiniteSet(pings)
      BY <1>4 DEF SignalsInit
    <2>2. PICK S \in SUBSET Nat : S = Ranks(pings)
      BY <2>1 DEF Ranks, Ping
    <2>3. IsFiniteSet(S)
      <3>1. [p \in pings |-> p.rank] \in Surjection(pings, S)
        BY <2>2 DEF Surjection, Ranks
      <3> QED
        BY <2>1, <3>1, FS_Surjection
    <2>4. PICK r \in S : \A x \in S : x <= r
      <3>1. S # {}
        BY <2>1, <2>2 DEF Ranks
      <3> QED
        BY <2>3, <3>1, MaxBounds
    <2>5. \E p \in pings : \A q \in pings : q.rank <= p.rank
      BY <2>2, <2>4 DEF Ranks
    <2>6. PICK ping : ping = CHOOSE p \in pings : \A q \in pings : q.rank <= p.rank
      OBVIOUS
    <2>7. ping \in Ping
      BY <2>1, <2>5, <2>6
    <2>8. PICK row : row = Row(ping, Silent, Recent(pings))
      OBVIOUS
    <2>9. signal = row
      BY <2>1, <2>6, <2>8 DEF SignalsInit
    <2>10. /\ row.ping = ping /\ row.telemetry = Silent
           /\ row.seen = Recent(pings) /\ row.trail = Variance(Recent(pings))
      BY <2>8 DEF Row
    <2>11. Measured(row)
      BY <2>1, <2>10, RecentPings DEF Measured
    <2>12. Silent \in Telemetry
      BY DEF Silent
    <2> QED
      BY <2>7, <2>9, <2>10, <2>11, <2>12
  <1> QED
    BY <1>3, <1>4 DEF RowsKept

(* A call that moves on without reading the trail again.                   *)
LEMMA MeasuredMoves ==
    ASSUME UploadsTyped, RowsKept, NEW c \in Calls, NEW pc \in UploadSteps, Proceed(c, pc)
    PROVE  \A d \in Calls : Measured(upload'[d])
  <1>1. PICK trail, seen : trail = upload[c].trail /\ seen = upload[c].seen
    OBVIOUS
  <1>2. /\ \A d \in Calls \ {c} : upload'[d] = upload[d]
        /\ \/ upload'[c].trail = upload[c].trail /\ upload'[c].seen = upload[c].seen
           \/ upload'[c].trail = trail /\ upload'[c].seen = seen
    BY CallMoves
  <1> QED
    BY <1>1, <1>2 DEF RowsKept, Measured

LEMMA RowsStep == UploadsKept /\ RowsKept /\ [ScoringNext]_scoringVars => RowsKept'
  <1> SUFFICES ASSUME UploadsKept, RowsKept, [ScoringNext]_scoringVars PROVE RowsKept'
    OBVIOUS
  <1> USE SignalsAssumption
  <1>t. UploadsTyped
    BY DEF UploadsKept
  <1>1. ASSUME UNCHANGED signal, \A d \in Calls : Measured(upload'[d]) PROVE RowsKept'
    BY <1>1 DEF RowsKept, Measured
  <1>2. CASE UNCHANGED <<signal, upload>>
    BY <1>2 DEF RowsKept, Measured
  <1>3. ASSUME NEW u \in Uploads, NEW place \in Places \cup {NoPlace}, NEW lag \in Lags,
               NEW telemetry \in Telemetry, BeginUpload(u, place, lag, telemetry)
        PROVE  RowsKept'
    <2>1. PICK c \in Calls : c = First(u)
      <3>1. First(u) \in Calls
        BY DEF First, Calls
      <3> QED
        BY <3>1
    <2>2. moment - lag \in Int
      BY <1>t DEF UploadsTyped
    <2>3. PICK ping \in Ping : ping = NewPing(place, moment - lag)
      BY <2>2, NewPingTyped
    <2>4. PICK x : x = Started(upload[c], ping, telemetry)
      OBVIOUS
    <2>5. upload' = [upload EXCEPT ![c] = x] /\ UNCHANGED signal
      BY <1>3, <2>1, <2>3, <2>4 DEF BeginUpload
    <2>6. x.trail = upload[c].trail /\ x.seen = upload[c].seen
      BY <2>4, <1>t, CallStarts
    <2>7. upload'[c] = x /\ \A d \in Calls \ {c} : upload'[d] = upload[d]
      BY <2>5, <1>t DEF UploadsTyped
    <2> QED
      BY <1>1, <2>5, <2>6, <2>7 DEF RowsKept, Measured
  <1>4. ASSUME NEW c \in Calls, InsertPing(c) PROVE RowsKept'
    <2>1. Proceed(c, "select") /\ UNCHANGED signal
      BY <1>4 DEF InsertPing
    <2> QED
      BY <1>t, <1>1, <2>1, MeasuredMoves DEF UploadSteps
  <1>5. ASSUME NEW c \in Calls, SelectTrail(c) PROVE RowsKept'
    <2>1. PICK trail, seen : trail = Variance(Recent(pings)) /\ seen = Recent(pings)
      OBVIOUS
    <2>2. /\ upload' = [upload EXCEPT ![c].pc = "upsert", ![c].trail = trail, ![c].seen = seen]
          /\ UNCHANGED signal
      BY <1>5, <2>1 DEF SelectTrail
    <2>a. PICK x : x = [upload[c] EXCEPT !.pc = "upsert", !.trail = trail, !.seen = seen]
      OBVIOUS
    <2>b. x.trail = trail /\ x.seen = seen
      BY <2>a, <1>t DEF UploadsTyped
    <2>3. upload'[c] = x /\ \A d \in Calls \ {c} : upload'[d] = upload[d]
      BY <2>2, <2>a, <1>t DEF UploadsTyped
    <2>4. seen \subseteq Ping /\ IsFiniteSet(seen)
      BY <2>1, <1>t, RecentPings DEF UploadsTyped
    <2> QED
      BY <1>1, <2>1, <2>2, <2>3, <2>4, <2>b DEF RowsKept, Measured
  <1>6. ASSUME NEW c \in Calls, UpsertSignal(c) PROVE RowsKept'
    <2>1. PICK pc \in {"done", "purge"} : Proceed(c, pc)
      BY <1>6 DEF UpsertSignal, WriteSignal
    <2>2. \A d \in Calls : Measured(upload'[d])
      BY <2>1, <1>t, MeasuredMoves DEF UploadSteps
    <2>3. PICK row : row = RowOf(c)
      OBVIOUS
    <2>4. signal' = row
      BY <1>6, <2>3 DEF UpsertSignal, WriteSignal
    <2>5. /\ row.ping = upload[c].ping /\ row.telemetry = upload[c].telemetry
          /\ row.trail = upload[c].trail /\ row.seen = upload[c].seen
      BY <2>3 DEF RowOf
    <2>6. row.ping \in Ping /\ row.telemetry \in Telemetry /\ Measured(row)
      BY <2>5, <1>t DEF RowsKept, Measured, UploadsTyped
    <2> QED
      BY <2>2, <2>4, <2>6 DEF RowsKept, Measured
  <1>7. ASSUME NEW c \in Calls, PurgeStale(c) PROVE RowsKept'
    <2>1. PICK place \in Places \cup {NoPlace} : place = upload[c].ping.place
      BY <1>t DEF UploadsTyped, Ping
    <2>2. UNCHANGED signal /\ c.task = FALSE
      BY <1>7 DEF PurgeStale, UploadsKept, Calls, Uploading
    <2>3. PICK t \in Calls : t = Task(c) /\ t # c
      <3>1. Task(c) \in Calls /\ Task(c).task = TRUE
        BY DEF Task, Calls
      <3> QED
        BY <3>1, <2>2
    <2>4. CASE place = NoPlace
      <3>1. upload' = [upload EXCEPT ![c].pc = "done", ![t] = @]
        BY <1>7, <2>1, <2>3, <2>4 DEF PurgeStale
      <3>2. Proceed(c, "done")
        BY <3>1, <2>3, <1>t DEF Proceed, UploadsTyped
      <3> QED
        BY <3>2, <2>2, <1>1, <1>t, MeasuredMoves DEF UploadSteps
    <2>5. CASE place # NoPlace
      <3>1. PICK ping \in Ping : ping = NewPing(place, moment)
        BY <1>t, NewPingTyped DEF UploadsTyped
      <3>2. Silent \in Telemetry
        BY DEF Silent
      <3>3. PICK x : x = Started(upload[t], ping, Silent)
        OBVIOUS
      <3>4. x.trail = upload[t].trail /\ x.seen = upload[t].seen
        <4>1. PICK s \in Telemetry : s = Silent
          BY <3>2
        <4>2. /\ Started(upload[t], ping, s).trail = upload[t].trail
              /\ Started(upload[t], ping, s).seen = upload[t].seen
          BY <1>t, CallStarts
        <4> QED
          BY <3>3, <4>1, <4>2
      <3>5. upload' = [upload EXCEPT ![c].pc = "done", ![t] = Started(@, ping, Silent)]
        BY <1>7, <2>1, <2>3, <2>5, <3>1 DEF PurgeStale
      <3>6. PICK y : y = [upload[c] EXCEPT !.pc = "done"]
        OBVIOUS
      <3>7. /\ upload'[c] = y /\ upload'[t] = x
            /\ \A d \in Calls \ {c, t} : upload'[d] = upload[d]
        BY <2>3, <3>3, <3>5, <3>6, <1>t DEF UploadsTyped
      <3>8. y.trail = upload[c].trail /\ y.seen = upload[c].seen
        BY <3>6, <1>t DEF UploadsTyped
      <3> QED
        BY <1>1, <2>2, <3>4, <3>7, <3>8 DEF RowsKept, Measured
    <2> QED
      BY <2>4, <2>5
  <1>8. ASSUME NEW c \in Calls, DropUpload(c) PROVE RowsKept'
    <2>1. Proceed(c, "done") /\ UNCHANGED signal
      BY <1>8 DEF DropUpload
    <2> QED
      BY <1>t, <1>1, <2>1, MeasuredMoves DEF UploadSteps
  <1>9. CASE SignalsTick
    BY <1>9, <1>2 DEF SignalsTick
  <1>10. CASE UNCHANGED signalVars
    BY <1>10, <1>2 DEF signalVars
  <1> QED
    BY <1>3, <1>4, <1>5, <1>6, <1>7, <1>8, <1>9, <1>10
    DEF ScoringNext, SignalsNext, FraudNext, scoringVars

LEMMA RowsInvariant == ScoringSpec => [](UploadsKept /\ RowsKept)
<1>1. ScoringInit => UploadsKept /\ NewestSignalKept /\ RowsKept
  BY UploadsInit, RowsInit
<1>2. UploadsKept /\ NewestSignalKept /\ RowsKept /\ [ScoringNext]_scoringVars
        => (UploadsKept /\ NewestSignalKept /\ RowsKept)'
  BY UploadsStep, RowsStep
<1> QED
  BY <1>1, <1>2, PTL DEF ScoringSpec

-----------------------------------------------------------------------------
(* A jump between two pings that follow each other in time is counted,     *)
(* however the other pings are sorted.                                     *)
LEMMA StepsFinite ==
    ASSUME NEW points, IsFiniteSet(points)
    PROVE  /\ IsFiniteSet({pq \in Steps(points) : Jump(pq[1], pq[2])})
           /\ Cardinality({pq \in Steps(points) : Jump(pq[1], pq[2])}) \in Nat
  <1>1. IsFiniteSet(points \X points)
    BY FS_Product
  <1>2. {pq \in Steps(points) : Jump(pq[1], pq[2])} \subseteq points \X points
    BY DEF Steps
  <1> QED
    BY <1>1, <1>2, FS_Subset, FS_CardinalityType

LEMMA JumpIsCounted ==
    ASSUME NEW points, points \subseteq Ping, IsFiniteSet(points),
           \A r \in points : r.place # NoPlace,
           NEW p \in points, NEW q \in points,
           p.at < q.at, q.at <= p.at + 1, Abs(q.place - p.place) > 5000,
           \A r \in points \ {p, q} : r.at < p.at \/ r.at > q.at
    PROVE  Cardinality({pq \in Steps(points) : Jump(pq[1], pq[2])}) > 0
  <1>1. \A r \in points : r.at \in Int /\ r.rank \in Nat
    BY DEF Ping
  <1>2. Earlier(p, q)
    BY DEF Earlier
  <1>3. ~ \E r \in points : Earlier(p, r) /\ Earlier(r, q)
    <2> SUFFICES ASSUME NEW r \in points, Earlier(p, r), Earlier(r, q) PROVE FALSE
      OBVIOUS
    <2>1. r # p /\ r # q
      BY <1>1 DEF Earlier
    <2>2. r.at < p.at \/ r.at > q.at
      BY <2>1
    <2> QED
      BY <1>1, <2>2 DEF Earlier
  <1>4. PICK pq \in points \X points : pq = <<p, q>>
    <2>1. <<p, q>> \in points \X points
      OBVIOUS
    <2> QED
      BY <2>1
  <1>5. pq \in Steps(points)
    BY <1>2, <1>3, <1>4 DEF Steps
  <1>6. Jump(pq[1], pq[2])
    BY <1>1, <1>4 DEF Jump
  <1>7. {x \in Steps(points) : Jump(x[1], x[2])} # {}
    BY <1>5, <1>6
  <1> DEFINE jumps == {x \in Steps(points) : Jump(x[1], x[2])}
  <1>8. jumps # {} /\ IsFiniteSet(jumps) /\ Cardinality(jumps) \in Nat
    BY <1>7, StepsFinite
  <1> HIDE DEF jumps
  <1>9. Cardinality(jumps) # 0
    BY <1>8, FS_EmptySet
  <1>10. Cardinality(jumps) > 0
    BY <1>8, <1>9
  <1> QED
    BY <1>10 DEF jumps

LEMMA JumpLowersScore ==
    ASSUME NEW seen, seen \subseteq Ping, IsFiniteSet(seen), NEW points,
           points = {r \in seen : r.place # NoPlace}, Cardinality(points) >= 3,
           NEW p \in points, NEW q \in points,
           p.at < q.at, q.at <= p.at + 1, Abs(q.place - p.place) > 5000,
           \A r \in points \ {p, q} : r.at < p.at \/ r.at > q.at
    PROVE  Variance(seen).score \in {15, 20, 40} /\ Variance(seen).jumps > 0
  <1>1. points \subseteq seen /\ IsFiniteSet(points) /\ points \subseteq Ping
    BY FS_Subset
  <1> DEFINE n == Cardinality(points)
             jumps == Cardinality({pq \in Steps(points) : Jump(pq[1], pq[2])})
             total == SumFunction([r \in points |-> r.place])
             off == SumFunction([r \in points |-> Abs(n * r.place - total)])
  <1>2. n \in Nat /\ n >= 3
    BY <1>1, FS_CardinalityType
  <1>3. jumps \in Nat /\ jumps > 0
    <2>1. jumps \in Nat
      BY <1>1, StepsFinite
    <2>2. \A r \in points : r.place # NoPlace
      OBVIOUS
    <2> QED
      BY <1>1, <2>1, <2>2, JumpIsCounted
  <1>4. Variance(seen) =
          LET spread == IF off > 6000 * n * n THEN 20
                        ELSE IF off > 3000 * n * n THEN 45
                        ELSE IF off > 1200 * n * n THEN 65 ELSE 85
              cap == IF 2 * jumps >= n - 1 THEN 15 ELSE IF jumps > 0 THEN 40 ELSE 100
          IN  IF n < 3 THEN NoTrail
              ELSE [meters |-> off \div (n * n), jumps |-> jumps, pairs |-> n - 1,
                    score |-> IF spread < cap THEN spread ELSE cap]
    BY DEF Variance
  <1> HIDE DEF n, jumps, total, off
  <1>6. PICK spread \in {20, 45, 65, 85} :
          spread = IF off > 6000 * n * n THEN 20
                   ELSE IF off > 3000 * n * n THEN 45
                   ELSE IF off > 1200 * n * n THEN 65 ELSE 85
    <2>1. (IF off > 6000 * n * n THEN 20
           ELSE IF off > 3000 * n * n THEN 45
           ELSE IF off > 1200 * n * n THEN 65 ELSE 85) \in {20, 45, 65, 85}
      OBVIOUS
    <2> QED
      BY <2>1
  <1>7. PICK cap \in {15, 40} :
          cap = IF 2 * jumps >= n - 1 THEN 15 ELSE IF jumps > 0 THEN 40 ELSE 100
    BY <1>3
  <1>8. Variance(seen) = [meters |-> off \div (n * n), jumps |-> jumps, pairs |-> n - 1,
                          score |-> IF spread < cap THEN spread ELSE cap]
    BY <1>2, <1>4, <1>6, <1>7
  <1> QED
    BY <1>3, <1>6, <1>7, <1>8

LEMMA JumpIsPunished == RowsKept => JumpNeverRewarded
  <1> SUFFICES ASSUME RowsKept, signal # NoSignal,
                      NEW points, points = {r \in signal.seen : r.place # NoPlace},
                      Cardinality(points) >= 3,
                      NEW p \in points, NEW q \in points,
                      p.at < q.at, q.at <= p.at + 1, Abs(q.place - p.place) > 5000,
                      \A r \in points \ {p, q} : r.at < p.at \/ r.at > q.at,
                      NEW gps, gps = [check |-> GpsCheck(signal), meters |-> signal.trail.meters,
                                      jumps |-> signal.trail.jumps, pairs |-> signal.trail.pairs]
               PROVE  GpsAdjustment(gps) < 0
    BY DEF JumpNeverRewarded
  <1>1. PICK score \in {15, 20, 40} : score = signal.trail.score
    BY JumpLowersScore DEF RowsKept, Measured
  <1>2. signal.trail.jumps > 0
    BY JumpLowersScore DEF RowsKept, Measured
  <1>3. /\ GpsCheck(signal).status = "erratic"
        /\ GpsCheck(signal).confidence = signal.trail.score
    <2>1. ~ (signal.trail.score >= 75) /\ signal.trail.score \notin 45..74
      BY <1>1
    <2> QED
      BY <2>1 DEF GpsCheck, Check
  <1>4. gps.check.status = "erratic" /\ gps.check.confidence = score /\ gps.jumps > 0
    BY <1>1, <1>2, <1>3
  <1>5. PICK plain \in Int : plain = (score - 50) * 16 /\ plain < 0
    BY <1>1
  <1>6. PICK jumped \in Int :
          /\ jumped = IF gps.pairs > 0 /\ 2 * gps.jumps >= gps.pairs THEN AtMost(plain, -1000)
                      ELSE IF gps.jumps > 0 THEN AtMost(plain, -500) ELSE plain
          /\ jumped < 0
    BY <1>4, <1>5 DEF AtMost
  <1>7. GpsAdjustment(gps) = IF gps.meters > 5000 THEN AtMost(jumped, -800) ELSE jumped
    BY <1>1, <1>4, <1>5, <1>6 DEF GpsAdjustment
  <1> QED
    BY <1>6, <1>7 DEF AtMost

(* A trail that moves by more than five kilometres within a quarter of an  *)
(* hour never earns a claim a better score, whatever the other pings and   *)
(* however many uploads wrote them.                                        *)
THEOREM JumpsAreNeverRewarded == ScoringSpec => []JumpNeverRewarded
  BY RowsInvariant, JumpIsPunished, PTL

-----------------------------------------------------------------------------
(***************************************************************************)
(* Scores                                                                  *)
(***************************************************************************)
(* A filing has the fields it began with, and so has its result.           *)
ResultFields(r) == [raw |-> r.raw, adjusted |-> r.adjusted, flagged |-> r.flagged,
                    review |-> r.review, mode |-> r.mode, dated |-> r.dated]
FilingFields(x) == [pc |-> x.pc, tower |-> x.tower, motion |-> x.motion, gps |-> x.gps,
                    old |-> x.old, result |-> x.result]
Shaped == \A f \in Filers :
    filing[f] = FilingFields(filing[f]) /\ filing[f].result = ResultFields(filing[f].result)

(* What was read from an old row, or from none, does not count.            *)
OldIsSilent == \A f \in Filers :
    LET x == filing[f] IN
    /\ x.pc \in {"tower", "motion", "gps", "score"} => x.result = NoResult
    /\ x.pc # "tower" /\ x.old => ~ x.tower.counts
    /\ x.pc \notin {"tower", "motion"} /\ x.old => ~ x.motion.counts

ScoresKept ==
    /\ filing = [f \in Filers |-> filing[f]]
    /\ Shaped
    /\ OldIsSilent
    /\ StaleIsNeutral
    /\ ReviewOnlyNearThreshold

-----------------------------------------------------------------------------
(***************************************************************************)
(* The operators                                                           *)
(***************************************************************************)
LEMMA OldTowerIsSilent ==
    ASSUME signal = NoSignal \/ Stale(signal)
    PROVE  ~ TowerCheck(signal).counts
  <1>1. CASE signal = NoSignal
    BY <1>1 DEF TowerCheck, Check
  <1>2. CASE signal # NoSignal /\ signal.telemetry.tower = NoTower
    <2>1. TowerCheck(signal) = Check("missing", 50, signal, FALSE)
      BY <1>2 DEF TowerCheck
    <2> QED
      BY <2>1 DEF Check
  <1>3. CASE signal # NoSignal /\ signal.telemetry.tower # NoTower /\ Stale(signal)
    <2>1. TowerCheck(signal) = Check("stale", 50, signal, FALSE)
      BY <1>3 DEF TowerCheck
    <2> QED
      BY <2>1 DEF Check
  <1> QED
    BY <1>1, <1>2, <1>3

LEMMA OldMotionIsSilent ==
    ASSUME signal = NoSignal \/ Stale(signal)
    PROVE  ~ MotionCheck(signal).counts
  <1>1. CASE signal = NoSignal
    BY <1>1 DEF MotionCheck, Check
  <1>2. CASE signal # NoSignal /\ signal.telemetry.motion = NoMotion
    <2>1. MotionCheck(signal) = Check("missing", 50, signal, FALSE)
      BY <1>2 DEF MotionCheck
    <2> QED
      BY <2>1 DEF Check
  <1>3. CASE signal # NoSignal /\ signal.telemetry.motion # NoMotion /\ Stale(signal)
    <2>1. MotionCheck(signal) = Check("stale", 50, signal, FALSE)
      BY <1>3 DEF MotionCheck
    <2> QED
      BY <2>1 DEF Check
  <1> QED
    BY <1>1, <1>2, <1>3

LEMMA SilentAdjustsNothing ==
    ASSUME NEW f \in Filers, NEW raw \in Int, NEW affinity,
           ~ filing[f].tower.counts, ~ filing[f].motion.counts
    PROVE  Total(f, raw, affinity) = raw + GpsAdjustment(filing[f].gps)
  <1>1. TowerAdjustment(filing[f].tower) = 0
    BY DEF TowerAdjustment
  <1>2. MotionAdjustment(filing[f].motion, filing[f].tower, affinity) = 0
    BY DEF MotionAdjustment
  <1>3. raw + 0 + 0 = raw
    OBVIOUS
  <1> QED
    BY <1>1, <1>2, <1>3 DEF Total

-----------------------------------------------------------------------------
LEMMA ScoresInit == FraudInit => ScoresKept
  <1> SUFFICES ASSUME FraudInit PROVE ScoresKept
    OBVIOUS
  <1>1. filing = [f \in Filers |-> filing[f]]
    BY DEF FraudInit
  <1>2. \A f \in Filers : filing[f] = [pc |-> "tower", tower |-> Unread, motion |-> Unread,
                                       gps |-> NoGps, old |-> FALSE, result |-> NoResult]
    BY DEF FraudInit
  <1>3. \A f \in Filers : /\ filing[f].pc = "tower" /\ ~ filing[f].old
                          /\ filing[f].tower = Unread /\ filing[f].motion = Unread
                          /\ filing[f].gps = NoGps /\ filing[f].result = NoResult
    BY <1>2
  <1>4. NoResult.mode = "none"
    BY DEF NoResult
  <1>5. Shaped
    BY <1>2, <1>3 DEF Shaped, NoResult, FilingFields, ResultFields
  <1>6. OldIsSilent
    BY <1>3 DEF OldIsSilent
  <1>7. StaleIsNeutral
    BY <1>3, <1>4 DEF StaleIsNeutral
  <1>8. ReviewOnlyNearThreshold
    BY <1>3, <1>4 DEF ReviewOnlyNearThreshold
  <1> QED
    BY <1>1, <1>5, <1>6, <1>7, <1>8 DEF ScoresKept

(* A step changes the filing of one claim.                                 *)
LEMMA OneFiling ==
    ASSUME ScoresKept, NEW f \in Filers, NEW x, filing' = [filing EXCEPT ![f] = x]
    PROVE  /\ filing' = [g \in Filers |-> filing'[g]]
           /\ filing'[f] = x
           /\ \A g \in Filers \ {f} : filing'[g] = filing[g]
  BY DEF ScoresKept

(* It keeps the invariant when the filing it writes is as it should be.    *)
LEMMA FilingStep ==
    ASSUME ScoresKept, NEW f \in Filers, NEW x, filing' = [filing EXCEPT ![f] = x],
           x = FilingFields(x), x.result = ResultFields(x.result),
           x.pc \in {"tower", "motion", "gps", "score"} => x.result = NoResult,
           x.pc # "tower" /\ x.old => ~ x.tower.counts,
           x.pc \notin {"tower", "motion"} /\ x.old => ~ x.motion.counts,
           x.result.mode = "model" /\ x.old =>
             x.result.adjusted = x.result.raw + GpsAdjustment(x.gps),
           x.result.mode = "model" /\ x.result.flagged # (x.result.adjusted < Threshold) =>
             /\ Abs(x.result.adjusted - Threshold) <= Margin
             /\ x.result.review = "accepted"
                \/ (x.result.review = "invalid_output" /\ x.result.flagged)
    PROVE  ScoresKept'
  <1>1. /\ filing' = [g \in Filers |-> filing'[g]]
        /\ filing'[f] = x
        /\ \A g \in Filers \ {f} : filing'[g] = filing[g]
    BY OneFiling
  <1>2. Shaped'
    BY <1>1 DEF ScoresKept, Shaped
  <1>3. OldIsSilent'
    BY <1>1 DEF ScoresKept, OldIsSilent
  <1>4. StaleIsNeutral'
    BY <1>1 DEF ScoresKept, StaleIsNeutral
  <1>5. ReviewOnlyNearThreshold'
    BY <1>1 DEF ScoresKept, ReviewOnlyNearThreshold
  <1> QED
    BY <1>1, <1>2, <1>3, <1>4, <1>5 DEF ScoresKept
LEMMA ScoresStep == ScoresKept /\ [ScoringNext]_scoringVars => ScoresKept'
  <1> SUFFICES ASSUME ScoresKept, [ScoringNext]_scoringVars PROVE ScoresKept'
    OBVIOUS
  <1> USE FraudAssumption
  <1>s. \A f \in Filers :
          /\ filing[f] \in [pc : {filing[f].pc}, tower : {filing[f].tower},
               motion : {filing[f].motion}, gps : {filing[f].gps},
               old : {filing[f].old}, result : {filing[f].result}]
          /\ filing[f].result = ResultFields(filing[f].result)
    BY DEF ScoresKept, Shaped, FilingFields
  <1>n. NoResult.mode = "none" /\ NoResult = ResultFields(NoResult)
    BY DEF NoResult, ResultFields
  <1>1. CASE UNCHANGED filing
    BY <1>1 DEF ScoresKept, Shaped, OldIsSilent, StaleIsNeutral, ReviewOnlyNearThreshold
  <1>2. ASSUME NEW f \in Filers, ReadTower(f) PROVE ScoresKept'
    <2>1. PICK old \in BOOLEAN : old = (signal = NoSignal \/ Stale(signal))
      OBVIOUS
    <2>2. PICK tower : tower = TowerCheck(signal)
      OBVIOUS
    <2>3. PICK x : x = [filing[f] EXCEPT !.pc = "motion", !.tower = tower, !.old = old]
      OBVIOUS
    <2>4. x \in [pc : {"motion"}, tower : {tower}, motion : {filing[f].motion},
                 gps : {filing[f].gps}, old : {old}, result : {filing[f].result}]
      BY <1>s, <2>3
    <2>5. filing[f].pc = "tower" /\ filing' = [filing EXCEPT ![f] = x]
      BY <1>2, <2>1, <2>2, <2>3 DEF ReadTower, Filing, Step
    <2>6. filing[f].result = NoResult
      BY <2>5 DEF ScoresKept, OldIsSilent
    <2>7. old => ~ tower.counts
      BY <2>1, <2>2, OldTowerIsSilent
    <2> QED
      BY <2>4, <2>5, <2>6, <2>7, <1>n, FilingStep DEF FilingFields
  <1>3. ASSUME NEW f \in Filers, ReadMotion(f) PROVE ScoresKept'
    <2>1. PICK old : old = (filing[f].old /\ (signal = NoSignal \/ Stale(signal)))
      OBVIOUS
    <2>2. PICK motion : motion = MotionCheck(signal)
      OBVIOUS
    <2>3. PICK x : x = [filing[f] EXCEPT !.pc = "gps", !.motion = motion, !.old = old]
      OBVIOUS
    <2>4. x \in [pc : {"gps"}, tower : {filing[f].tower}, motion : {motion},
                 gps : {filing[f].gps}, old : {old}, result : {filing[f].result}]
      BY <1>s, <2>3
    <2>5. filing[f].pc = "motion" /\ filing' = [filing EXCEPT ![f] = x]
      BY <1>3, <2>1, <2>2, <2>3 DEF ReadMotion, Filing, Step
    <2>6. filing[f].result = NoResult /\ (filing[f].old => ~ filing[f].tower.counts)
      BY <2>5 DEF ScoresKept, OldIsSilent
    <2>7. old => ~ motion.counts /\ ~ filing[f].tower.counts
      BY <2>1, <2>2, <2>6, OldMotionIsSilent
    <2> QED
      BY <2>4, <2>5, <2>6, <2>7, <1>n, FilingStep DEF FilingFields
  <1>4. ASSUME NEW f \in Filers, ReadGps(f) PROVE ScoresKept'
    <2>1. PICK gps : gps = IF signal = NoSignal THEN NoGps
                 ELSE [check |-> GpsCheck(signal), meters |-> signal.trail.meters,
                       jumps |-> signal.trail.jumps, pairs |-> signal.trail.pairs]
      OBVIOUS
    <2>2. PICK x : x = [filing[f] EXCEPT !.pc = "score", !.gps = gps]
      OBVIOUS
    <2>3. x \in [pc : {"score"}, tower : {filing[f].tower}, motion : {filing[f].motion},
                 gps : {gps}, old : {filing[f].old}, result : {filing[f].result}]
      BY <1>s, <2>2
    <2>4. filing[f].pc = "gps" /\ filing' = [filing EXCEPT ![f] = x]
      BY <1>4, <2>1, <2>2 DEF ReadGps, Filing, Step
    <2>5. /\ filing[f].result = NoResult
          /\ filing[f].old => ~ filing[f].tower.counts /\ ~ filing[f].motion.counts
      BY <2>4 DEF ScoresKept, OldIsSilent
    <2> QED
      BY <2>3, <2>4, <2>5, <1>n, FilingStep DEF FilingFields
  <1>5. ASSUME NEW f \in Filers, NEW raw \in RawScores, NEW a \in Affinities,
               NEW c \in TriggerConfidences, NEW r \in Reviews, ScoreByModel(f, raw, a, c, r)
        PROVE ScoresKept'
    <2>1. PICK adjusted : adjusted = Total(f, raw, a)
      OBVIOUS
    <2>2. PICK reviewed \in BOOLEAN : reviewed = Ambiguous(adjusted, c)
      BY DEF Ambiguous
    <2>3. PICK flagged : flagged = CASE reviewed /\ r.status = "accepted" -> r.flagged
                                     [] reviewed /\ r.status = "invalid_output" -> TRUE
                                     [] OTHER -> adjusted < Threshold
      OBVIOUS
    <2>4. PICK review : review = IF reviewed THEN r.status ELSE "none"
      OBVIOUS
    <2>5. PICK dated : dated = (filing[f].motion.dated \/ filing[f].gps.check.dated)
      OBVIOUS
    <2>6. PICK result : result = [raw |-> raw, adjusted |-> adjusted, mode |-> "model",
                                  flagged |-> flagged, review |-> review, dated |-> dated]
      OBVIOUS
    <2>7. PICK x : x = [filing[f] EXCEPT !.pc = "insert", !.result = result]
      OBVIOUS
    <2>8. x \in [pc : {"insert"}, tower : {filing[f].tower}, motion : {filing[f].motion},
                 gps : {filing[f].gps}, old : {filing[f].old}, result : {result}]
      BY <1>s, <2>7
    <2>9. filing[f].pc = "score" /\ filing' = [filing EXCEPT ![f] = x]
      BY <1>5, <2>1, <2>2, <2>3, <2>4, <2>5, <2>6, <2>7 DEF ScoreByModel, Filing, Step
    <2>10. filing[f].old => ~ filing[f].tower.counts /\ ~ filing[f].motion.counts
      BY <2>9 DEF ScoresKept, OldIsSilent
    <2>11. filing[f].old => adjusted = raw + GpsAdjustment(filing[f].gps)
      BY <2>1, <2>10, SilentAdjustsNothing
    <2>12. /\ x = FilingFields(x) /\ x.pc = "insert" /\ x.gps = filing[f].gps
           /\ x.tower = filing[f].tower /\ x.motion = filing[f].motion
           /\ x.old = filing[f].old /\ x.result = result
      BY <2>8 DEF FilingFields
    <2>13. /\ result = ResultFields(result) /\ result.mode = "model" /\ result.raw = raw
           /\ result.adjusted = adjusted /\ result.flagged = flagged /\ result.review = review
      BY <2>6 DEF ResultFields
    <2>14. result.flagged # (result.adjusted < Threshold) =>
             /\ Abs(result.adjusted - Threshold) <= Margin
             /\ result.review = "accepted" \/ (result.review = "invalid_output" /\ result.flagged)
      <3>1. CASE reviewed /\ r.status = "accepted"
        <4>1. review = "accepted" /\ Abs(adjusted - Threshold) <= Margin
          BY <2>2, <2>4, <3>1 DEF Ambiguous
        <4> QED
          BY <2>13, <4>1
      <3>2. CASE reviewed /\ r.status = "invalid_output"
        <4>1. review = "invalid_output" /\ Abs(adjusted - Threshold) <= Margin
          BY <2>2, <2>4, <3>2 DEF Ambiguous
        <4>2. flagged = TRUE
          BY <2>3, <3>2
        <4> QED
          BY <2>13, <4>1, <4>2
      <3>3. CASE ~ (reviewed /\ r.status = "accepted")
                 /\ ~ (reviewed /\ r.status = "invalid_output")
        <4>1. flagged = (adjusted < Threshold)
          BY <2>3, <3>3
        <4> QED
          BY <2>13, <4>1
      <3> QED
        BY <3>1, <3>2, <3>3
    <2> QED
      BY <2>9, <2>10, <2>11, <2>12, <2>13, <2>14, FilingStep
  <1>6. ASSUME NEW f \in Filers, NEW mode \in {"disabled", "fail-open"}, filing[f].pc = "score",
               filing' = [filing EXCEPT ![f] = [filing[f] EXCEPT !.pc = "insert",
                                                                 !.result.mode = mode]]
        PROVE ScoresKept'
    <2>1. PICK result : result = [filing[f].result EXCEPT !.mode = mode]
      OBVIOUS
    <2>2. filing[f].result = NoResult
      BY <1>6 DEF ScoresKept, OldIsSilent
    <2>3. result = [raw |-> 0, adjusted |-> 0, flagged |-> FALSE, review |-> "none",
                    mode |-> mode, dated |-> FALSE]
      <3>1. NoResult \in [raw : {0}, adjusted : {0}, flagged : {FALSE}, review : {"none"},
                          mode : {"none"}, dated : {FALSE}]
        BY DEF NoResult
      <3>2. result \in [raw : {0}, adjusted : {0}, flagged : {FALSE}, review : {"none"},
                        mode : {mode}, dated : {FALSE}]
        BY <2>1, <2>2, <3>1
      <3> QED
        BY <3>2
    <2>4. PICK x : x = [filing[f] EXCEPT !.pc = "insert", !.result.mode = mode]
      OBVIOUS
    <2>5. x \in [pc : {"insert"}, tower : {filing[f].tower}, motion : {filing[f].motion},
                 gps : {filing[f].gps}, old : {filing[f].old}, result : {result}]
      <3>1. x = [filing[f] EXCEPT !.pc = "insert", !.result = result]
        BY <2>1, <2>4, <1>s
      <3> QED
        BY <3>1, <1>s
    <2>6. filing' = [filing EXCEPT ![f] = x]
      BY <1>6, <2>4
    <2>7. filing[f].old => ~ filing[f].tower.counts /\ ~ filing[f].motion.counts
      BY <1>6 DEF ScoresKept, OldIsSilent
    <2>8. /\ x = FilingFields(x) /\ x.pc = "insert" /\ x.gps = filing[f].gps
          /\ x.tower = filing[f].tower /\ x.motion = filing[f].motion
          /\ x.old = filing[f].old /\ x.result = result
      BY <2>5 DEF FilingFields
    <2>9. result = ResultFields(result) /\ result.mode # "model"
      BY <2>3 DEF ResultFields
    <2> QED
      BY <2>6, <2>7, <2>8, <2>9, FilingStep
  <1>7. ASSUME NEW f \in Filers, NEW pc \in {"filed", "failed"},
               filing[f].pc \in {"score", "insert"},
               filing' = [filing EXCEPT ![f] = [filing[f] EXCEPT !.pc = pc]]
        PROVE ScoresKept'
    <2>1. PICK x : x = [filing[f] EXCEPT !.pc = pc]
      OBVIOUS
    <2>2. x \in [pc : {pc}, tower : {filing[f].tower}, motion : {filing[f].motion},
                 gps : {filing[f].gps}, old : {filing[f].old}, result : {filing[f].result}]
      BY <1>s, <2>1
    <2>3. filing' = [filing EXCEPT ![f] = x]
      BY <1>7, <2>1
    <2>4. /\ filing[f].old => ~ filing[f].tower.counts /\ ~ filing[f].motion.counts
          /\ filing[f].result.mode = "model" /\ filing[f].old =>
               filing[f].result.adjusted = filing[f].result.raw + GpsAdjustment(filing[f].gps)
          /\ filing[f].result.mode = "model"
             /\ filing[f].result.flagged # (filing[f].result.adjusted < Threshold) =>
               /\ Abs(filing[f].result.adjusted - Threshold) <= Margin
               /\ filing[f].result.review = "accepted"
                  \/ (filing[f].result.review = "invalid_output" /\ filing[f].result.flagged)
      BY <1>7 DEF ScoresKept, OldIsSilent, StaleIsNeutral, ReviewOnlyNearThreshold
    <2> QED
      BY <1>s, <2>2, <2>3, <2>4, FilingStep DEF FilingFields
  <1>8. ASSUME NEW f \in Filers, ScoreDisabled(f) \/ ScoreFails(f) \/ CreateScored(f)
        PROVE ScoresKept'
    <2>1. CASE ScoreDisabled(f)
      BY <2>1, <1>6 DEF ScoreDisabled, Filing, Step
    <2>2. CASE ScoreFails(f)
      BY <2>2, <1>6, <1>7 DEF ScoreFails, Filing, Step
    <2>3. CASE CreateScored(f)
      BY <2>3, <1>7 DEF CreateScored, Filing, Step
    <2> QED
      BY <1>8, <2>1, <2>2, <2>3
  <1>9. CASE LoadModel \/ UNCHANGED fraudVars
    BY <1>9, <1>1 DEF LoadModel, fraudVars
  <1> QED
    BY <1>2, <1>3, <1>4, <1>5, <1>8, <1>9 DEF ScoringNext, FraudNext, scoringVars, fraudVars

LEMMA ScoresInvariant == ScoringSpec => []ScoresKept
<1>1. ScoringInit => ScoresKept
  BY ScoresInit DEF ScoringInit
<1> QED
  BY <1>1, ScoresStep, PTL DEF ScoringSpec

(* "Missing/stale/insufficient tower data stays neutral", and so does      *)
(* motion data: what was read from an old row, or without one, moves the   *)
(* score by the GPS summary alone, whatever uploads run beside.            *)
THEOREM OldSignalsAreNeutral == ScoringSpec => []StaleIsNeutral
<1>1. ScoresKept => StaleIsNeutral
  BY DEF ScoresKept
<1> QED
  BY <1>1, ScoresInvariant, PTL

(* The language model decides near the threshold only, and clears a claim  *)
(* the model flags only by a consistent answer.                            *)
THEOREM ReviewsDecideNearThreshold == ScoringSpec => []ReviewOnlyNearThreshold
<1>1. ScoresKept => ReviewOnlyNearThreshold
  BY DEF ScoresKept
<1> QED
  BY <1>1, ScoresInvariant, PTL
-----------------------------------------------------------------------------
(***************************************************************************)
(* Types.  What the checks answer is a number, and so is what it adds.     *)
(***************************************************************************)
LEMMA VarianceTyped ==
    ASSUME NEW seen, seen \subseteq Ping, IsFiniteSet(seen)
    PROVE  Variance(seen) \in Trail
  <1> DEFINE points == {r \in seen : r.place # NoPlace}
             n == Cardinality(points)
             jumps == Cardinality({pq \in Steps(points) : Jump(pq[1], pq[2])})
             place == [r \in points |-> r.place]
             total == SumFunction(place)
             from == [r \in points |-> Abs(n * r.place - total)]
             off == SumFunction(from)
             spread == IF off > 6000 * n * n THEN 20
                       ELSE IF off > 3000 * n * n THEN 45
                       ELSE IF off > 1200 * n * n THEN 65 ELSE 85
             cap == IF 2 * jumps >= n - 1 THEN 15 ELSE IF jumps > 0 THEN 40 ELSE 100
  <1>1. points \subseteq seen /\ IsFiniteSet(points) /\ points \subseteq Ping
    BY FS_Subset
  <1>2. n \in Nat
    BY <1>1, FS_CardinalityType
  <1>3. jumps \in Nat
    BY <1>1, StepsFinite
  <1>4. \A r \in points : r.place \in Int
    BY <1>1, SignalsAssumption DEF Ping
  <1>5. DOMAIN place = points /\ \A r \in points : place[r] \in Int
    BY <1>4
  <1>6. total \in Int
    <2> HIDE DEF place
    <2> QED
      BY <1>1, <1>5, SumInt DEF SumFunction
  <1>7. DOMAIN from = points /\ \A r \in points : from[r] \in Nat
    <2> HIDE DEF total
    <2> QED
      BY <1>2, <1>4, <1>6 DEF Abs
  <1>8. off \in Nat
    <2> HIDE DEF from
    <2> QED
      BY <1>1, <1>7, SumNat DEF SumFunction
  <1>9. Variance(seen) = IF n < 3 THEN NoTrail
                         ELSE [meters |-> off \div (n * n), jumps |-> jumps, pairs |-> n - 1,
                               score |-> IF spread < cap THEN spread ELSE cap]
    BY DEF Variance
  <1>10. spread \in 0..100 /\ cap \in 0..100
    <2> HIDE DEF off, jumps, n
    <2> QED
      OBVIOUS
  <1> HIDE DEF n, jumps, off, spread, cap
  <1>11. NoTrail \in Trail
    BY DEF NoTrail, Trail
  <1>12. n >= 3 => n * n \in Nat \ {0}
    BY <1>2
  <1>13. ASSUME NEW k \in Nat \ {0} PROVE off \div k \in Nat
    BY <1>8
  <1>14. n >= 3 => off \div (n * n) \in Nat
    BY <1>12, <1>13
  <1> QED
    BY <1>2, <1>3, <1>9, <1>10, <1>11, <1>14 DEF Trail

SignalsBounded == moment \in SignalStart..SignalEnd

LEMMA SignalsBoundedInvariant == ScoringSpec => []SignalsBounded
<1>1. ScoringInit => SignalsBounded
  BY SignalsAssumption DEF ScoringInit, SignalsInit, SignalsBounded
<1>2. SignalsBounded /\ [ScoringNext]_scoringVars => SignalsBounded'
  <2> SUFFICES ASSUME SignalsBounded, [ScoringNext]_scoringVars PROVE SignalsBounded'
    OBVIOUS
  <2>1. UNCHANGED moment \/ SignalsTick
    BY DEF ScoringNext, SignalsNext, FraudNext, scoringVars, signalVars, BeginUpload, InsertPing,
           SelectTrail, UpsertSignal, WriteSignal, PurgeStale, DropUpload
  <2> QED
    BY <2>1, SignalsAssumption DEF SignalsBounded, SignalsTick
<1> QED
  BY <1>1, <1>2, PTL DEF ScoringSpec

LEMMA SignalsTyped == UploadsKept /\ RowsKept /\ SignalsBounded => SignalsTypeOK
  <1> SUFFICES ASSUME UploadsKept, RowsKept, SignalsBounded PROVE SignalsTypeOK
    OBVIOUS
  <1>1. \A c \in Calls : upload[c].trail \in Trail
    BY VarianceTyped DEF RowsKept, Measured
  <1>2. signal # NoSignal => signal.trail \in Trail /\ signal.seen \subseteq Ping
    BY VarianceTyped DEF RowsKept, Measured
  <1> QED
    BY <1>1, <1>2 DEF SignalsTypeOK, UploadsKept, UploadsTyped, RowsKept, SignalsBounded,
                      UploadSteps

(* The strongest of some cells is one of them.                             *)
LEMMA StrongestIsACell ==
    ASSUME NEW cells, IsFiniteSet(cells), cells # {}, \A c \in cells : c.dbm \in Int
    PROVE  Strongest(cells) \in cells
  <1> DEFINE P == {T \in SUBSET cells : T # {} => \E c \in T : \A d \in T : d.dbm <= c.dbm}
  <1>1. ASSUME NEW T \in SUBSET cells, \A x \in T : T \ {x} \in P PROVE T \in P
    <2> SUFFICES ASSUME T # {} PROVE \E c \in T : \A d \in T : d.dbm <= c.dbm
      OBVIOUS
    <2>1. PICK x \in T : TRUE
      OBVIOUS
    <2>2. CASE T \ {x} = {}
      BY <2>1, <2>2
    <2>3. CASE T \ {x} # {}
      <3>1. PICK c \in T \ {x} : \A d \in T \ {x} : d.dbm <= c.dbm
        BY <1>1, <2>1, <2>3
      <3>2. CASE x.dbm <= c.dbm
        BY <2>1, <3>1, <3>2
      <3>3. CASE ~ (x.dbm <= c.dbm)
        BY <2>1, <3>1, <3>3
      <3> QED
        BY <3>2, <3>3
    <2> QED
      BY <2>2, <2>3
  <1> HIDE DEF P
  <1>2. cells \in P
    BY <1>1, SubsetInduction
  <1>3. \E c \in cells : \A d \in cells : d.dbm <= c.dbm
    BY <1>2 DEF P
  <1> QED
    BY <1>3 DEF Strongest

LEMMA TowerConfidence ==
    ASSUME signal # NoSignal => signal.telemetry \in Telemetry
    PROVE  TowerCheck(signal).confidence \in Int
  <1> DEFINE tower == signal.telemetry.tower
  <1>1. CASE signal = NoSignal \/ tower = NoTower \/ Stale(signal)
    <2>1. \E status \in {"missing", "stale"} : TowerCheck(signal) = Check(status, 50, signal, FALSE)
      BY <1>1 DEF TowerCheck
    <2> QED
      BY <2>1 DEF Check
  <1>2. CASE signal # NoSignal /\ tower # NoTower /\ ~ Stale(signal)
    <2>1. tower \in Tower /\ IsFiniteSet(tower.cells)
      BY <1>2, TelemetryAssumption
    <2>2. TowerCheck(signal) =
            IF tower.cells # {}
            THEN LET c == DistanceConfidence(Strongest(tower.cells).km)
                 IN  Check(IF c >= 50 THEN "match" ELSE "mismatch", c, signal, TRUE)
            ELSE CASE tower.hint = "zone" -> Check("match_hint", 72, signal, TRUE)
                   [] tower.hint = "other" -> Check("mismatch_hint", 20, signal, TRUE)
                   [] tower.hint = "none" -> Check("insufficient", 50, signal, FALSE)
      BY <1>2 DEF TowerCheck
    <2> HIDE DEF tower
    <2>3. CASE tower.cells # {}
      <3>1. Strongest(tower.cells) \in [km : Nat, dbm : Int]
        BY <2>1, <2>3, StrongestIsACell DEF Tower
      <3>2. DistanceConfidence(Strongest(tower.cells).km) \in Int
        BY <3>1 DEF DistanceConfidence
      <3> QED
        BY <2>2, <2>3, <3>2 DEF Check
    <2>4. CASE tower.cells = {}
      <3>1. tower.hint \in {"zone", "other", "none"}
        BY <2>1 DEF Tower
      <3> QED
        BY <2>2, <2>4, <3>1 DEF Check
    <2> QED
      BY <2>3, <2>4
  <1> QED
    BY <1>1, <1>2

LEMMA ClampTyped ==
    ASSUME NEW x \in Int, NEW low \in Int, NEW high \in Int
    PROVE  Clamp(x, low, high) \in Int
  BY DEF Clamp

LEMMA MovingRatioTyped == ASSUME NEW m \in Motion PROVE MovingRatio(m) \in Int
  <1> DEFINE S == {1, m.moving + m.stationary, m.window}
  <1>1. S \in SUBSET Nat /\ S # {}
    BY DEF Motion
  <1>2. IsFiniteSet(S)
    <2>1. IsFiniteSet({1})
      BY FS_Singleton
    <2>2. IsFiniteSet({1} \cup {m.moving + m.stationary})
      BY <2>1, FS_AddElement
    <2>3. IsFiniteSet(({1} \cup {m.moving + m.stationary}) \cup {m.window})
      BY <2>2, FS_AddElement
    <2>4. S = ({1} \cup {m.moving + m.stationary}) \cup {m.window}
      OBVIOUS
    <2> QED
      BY <2>3, <2>4
  <1>3. 1 \in S
    OBVIOUS
  <1>4. MovingRatio(m) = (1000 * m.moving) \div Max(S)
    BY DEF MovingRatio
  <1> HIDE DEF S
  <1>5. Max(S) \in Nat /\ 1 <= Max(S)
    BY <1>1, <1>2, <1>3, MaxBounds
  <1>6. 1000 * m.moving \in Nat
    BY DEF Motion
  <1>7. ASSUME NEW a \in Nat, NEW b \in Nat, 1 <= b PROVE a \div b \in Int
    BY <1>7
  <1> QED
    BY <1>4, <1>5, <1>6, <1>7

LEMMA GenuineConfidenceTyped == ASSUME NEW m \in Motion PROVE GenuineConfidence(m) \in Int
  <1>1. m.distance \in Int /\ m.speed \in Int /\ MovingRatio(m) \in Int
    BY MovingRatioTyped DEF Motion
  <1> DEFINE ratio == Clamp(((MovingRatio(m) - 50) * 1000) \div 550, 0, 1000)
             distance == Clamp(((m.distance - 25) * 1000) \div 150, 0, 1000)
             speed == Clamp((m.speed * 10000) \div 132, 0, 1000)
  <1>2. ratio \in Int /\ distance \in Int /\ speed \in Int
    BY <1>1 DEF Clamp
  <1>3. GenuineConfidence(m) =
          Clamp((4500 + 3 * ratio + (3 * distance) \div 2 + speed) \div 100, 0, 100)
    BY DEF GenuineConfidence
  <1> HIDE DEF ratio, distance, speed
  <1>4. (4500 + 3 * ratio + (3 * distance) \div 2 + speed) \div 100 \in Int
    BY <1>2
  <1> QED
    BY <1>3, <1>4, ClampTyped

LEMMA MotionConfidence ==
    ASSUME signal # NoSignal => signal.telemetry \in Telemetry
    PROVE  MotionCheck(signal).confidence \in Int
  <1> DEFINE m == signal.telemetry.motion
  <1>1. CASE signal = NoSignal \/ m = NoMotion \/ Stale(signal)
    <2>1. \E status \in {"missing", "stale"} :
            MotionCheck(signal) = Check(status, 50, signal, FALSE)
      BY <1>1 DEF MotionCheck
    <2> QED
      BY <2>1 DEF Check
  <1>2. CASE signal # NoSignal /\ m # NoMotion /\ ~ Stale(signal)
    <2>1. m \in Motion
      BY <1>2, TelemetryAssumption
    <2>2. MotionCheck(signal) =
            IF m.window < 60 \/ m.samples < 12 THEN Check("insufficient", 50, signal, FALSE)
            ELSE IF m.top > 33 THEN Check("mismatch", 18, signal, TRUE)
            ELSE IF m.distance < 25 /\ MovingRatio(m) < 50 THEN Check("static", 35, signal, TRUE)
            ELSE LET c == GenuineConfidence(m)
                 IN  Check(IF c >= 55 THEN "match" ELSE "mismatch", c, signal, TRUE)
      BY <1>2 DEF MotionCheck
    <2> HIDE DEF m
    <2>3. GenuineConfidence(m) \in Int
      BY <2>1, GenuineConfidenceTyped
    <2> QED
      BY <2>2, <2>3 DEF Check
  <1> QED
    BY <1>1, <1>2

LEMMA GpsConfidence ==
    ASSUME signal # NoSignal => signal.trail \in Trail
    PROVE  GpsCheck(signal).confidence \in Int
  <1>1. CASE signal = NoSignal
    BY <1>1 DEF GpsCheck, Check
  <1>2. CASE signal # NoSignal
    BY <1>2 DEF GpsCheck, Check, Trail
  <1> QED
    BY <1>1, <1>2

LEMMA TotalTyped ==
    ASSUME NEW f \in Filers, NEW raw \in Int, NEW affinity,
           filing[f].tower.confidence \in Int, filing[f].motion.confidence \in Int,
           filing[f].gps.check.confidence \in Int
    PROVE  Total(f, raw, affinity) \in Int
  <1>1. TowerAdjustment(filing[f].tower) \in Int
    BY DEF TowerAdjustment, Bounded, Clamp
  <1>2. MotionAdjustment(filing[f].motion, filing[f].tower, affinity) \in Int
    BY DEF MotionAdjustment, Bounded, Clamp
  <1>3. GpsAdjustment(filing[f].gps) \in Int
    BY DEF GpsAdjustment, AtMost
  <1> QED
    BY <1>1, <1>2, <1>3 DEF Total

FilingSteps == {"tower", "motion", "gps", "score", "insert", "filed", "failed"}
Verdicts == {"none", "accepted", "invalid_output", "provider_failed", "unavailable"}
FilingTyped(x) ==
    /\ x.pc \in FilingSteps
    /\ x.tower.confidence \in Int /\ x.motion.confidence \in Int
    /\ x.gps.check.confidence \in Int
    /\ x.result.review \in Verdicts /\ x.result.adjusted \in Int

FilingsTyped ==
    /\ engine \in {"disabled", "missing", "loaded"}
    /\ failOpen \in BOOLEAN
    /\ \A f \in Filers : FilingTyped(filing[f])

LEMMA ReviewStatus == \A r \in Reviews : r.status \in Verdicts
  <1> SUFFICES ASSUME NEW r \in Reviews PROVE r.status \in Verdicts
    OBVIOUS
  <1>1. CASE r \in [status : {"unavailable", "provider_failed"}, flagged : {FALSE}]
    BY <1>1 DEF Verdicts
  <1>2. CASE \E p \in Payloads :
               r = [status |-> IF Accepts(p) THEN "accepted" ELSE "invalid_output",
                    flagged |-> p.flagged]
    <2>1. r.status \in {"accepted", "invalid_output"}
      BY <1>2
    <2> QED
      BY <2>1 DEF Verdicts
  <1> QED
    BY <1>1, <1>2 DEF Reviews

LEMMA FilingsInit == FraudInit => FilingsTyped
  <1> SUFFICES ASSUME FraudInit PROVE FilingsTyped
    OBVIOUS
  <1>1. \A f \in Filers : filing[f] = [pc |-> "tower", tower |-> Unread, motion |-> Unread,
                                       gps |-> NoGps, old |-> FALSE, result |-> NoResult]
    BY DEF FraudInit
  <1>2. /\ Unread.confidence = 50 /\ NoGps.check.confidence = 50
        /\ NoResult.review = "none" /\ NoResult.adjusted = 0
    BY DEF Unread, NoGps, NoResult
  <1>3. \A f \in Filers : /\ filing[f].pc = "tower"
                          /\ filing[f].tower = Unread /\ filing[f].motion = Unread
                          /\ filing[f].gps = NoGps /\ filing[f].result = NoResult
    BY <1>1
  <1>4. \A f \in Filers : FilingTyped(filing[f])
    BY <1>2, <1>3 DEF FilingTyped, FilingSteps, Verdicts
  <1> QED
    BY <1>4, FraudAssumption DEF FraudInit, FilingsTyped

LEMMA FilingsStep == ScoresKept /\ SignalsTypeOK /\ FilingsTyped /\ [ScoringNext]_scoringVars
                       => FilingsTyped'
  <1> SUFFICES ASSUME ScoresKept, SignalsTypeOK, FilingsTyped, [ScoringNext]_scoringVars
               PROVE  FilingsTyped'
    OBVIOUS
  <1> USE FraudAssumption
  <1>s. \A f \in Filers :
          /\ filing[f] \in [pc : {filing[f].pc}, tower : {filing[f].tower},
               motion : {filing[f].motion}, gps : {filing[f].gps},
               old : {filing[f].old}, result : {filing[f].result}]
          /\ filing[f].result = ResultFields(filing[f].result)
    BY DEF ScoresKept, Shaped, FilingFields
  <1>t. \A f \in Filers : FilingTyped(filing[f])
    BY DEF FilingsTyped
  <1>1. CASE UNCHANGED fraudVars
    BY <1>1 DEF FilingsTyped, fraudVars
  <1>2. CASE LoadModel
    BY <1>2 DEF FilingsTyped, LoadModel
  <1>3. ASSUME NEW f \in Filers, NEW x, filing' = [filing EXCEPT ![f] = x], FilingTyped(x),
               UNCHANGED <<engine, failOpen>>
        PROVE  FilingsTyped'
    <2>1. filing'[f] = x /\ \A g \in Filers \ {f} : filing'[g] = filing[g]
      BY <1>3, OneFiling
    <2> QED
      BY <1>3, <2>1 DEF FilingsTyped
  <1>4. ASSUME NEW f \in Filers, ReadTower(f) PROVE FilingsTyped'
    <2> DEFINE old == signal = NoSignal \/ Stale(signal)
               tower == TowerCheck(signal)
               x == [filing[f] EXCEPT !.pc = "motion", !.tower = tower, !.old = old]
    <2>1. filing' = [filing EXCEPT ![f] = x] /\ UNCHANGED <<engine, failOpen>>
      BY <1>4 DEF ReadTower, Step
    <2>2. tower.confidence \in Int
      BY TowerConfidence DEF SignalsTypeOK
    <2> HIDE DEF old, tower
    <2>3. x \in [pc : {"motion"}, tower : {tower}, motion : {filing[f].motion},
                 gps : {filing[f].gps}, old : {old}, result : {filing[f].result}]
      BY <1>s
    <2> HIDE DEF x
    <2>4. FilingTyped(x)
      BY <1>t, <2>2, <2>3 DEF FilingTyped, FilingSteps
    <2> QED
      BY <1>3, <2>1, <2>4
  <1>5. ASSUME NEW f \in Filers, ReadMotion(f) PROVE FilingsTyped'
    <2> DEFINE old == filing[f].old /\ (signal = NoSignal \/ Stale(signal))
               motion == MotionCheck(signal)
               x == [filing[f] EXCEPT !.pc = "gps", !.motion = motion, !.old = old]
    <2>1. filing' = [filing EXCEPT ![f] = x] /\ UNCHANGED <<engine, failOpen>>
      BY <1>5 DEF ReadMotion, Step
    <2>2. motion.confidence \in Int
      BY MotionConfidence DEF SignalsTypeOK
    <2> HIDE DEF old, motion
    <2>3. x \in [pc : {"gps"}, tower : {filing[f].tower}, motion : {motion},
                 gps : {filing[f].gps}, old : {old}, result : {filing[f].result}]
      BY <1>s
    <2> HIDE DEF x
    <2>4. FilingTyped(x)
      BY <1>t, <2>2, <2>3 DEF FilingTyped, FilingSteps
    <2> QED
      BY <1>3, <2>1, <2>4
  <1>6. ASSUME NEW f \in Filers, ReadGps(f) PROVE FilingsTyped'
    <2> DEFINE gps == IF signal = NoSignal THEN NoGps
                      ELSE [check |-> GpsCheck(signal), meters |-> signal.trail.meters,
                            jumps |-> signal.trail.jumps, pairs |-> signal.trail.pairs]
               x == [filing[f] EXCEPT !.pc = "score", !.gps = gps]
    <2>1. filing' = [filing EXCEPT ![f] = x] /\ UNCHANGED <<engine, failOpen>>
      BY <1>6 DEF ReadGps, Step
    <2>2. gps.check.confidence \in Int
      <3>1. GpsCheck(signal).confidence \in Int
        BY GpsConfidence DEF SignalsTypeOK
      <3>2. NoGps.check.confidence = 50
        BY DEF NoGps, Unread
      <3> QED
        BY <3>1, <3>2
    <2> HIDE DEF gps
    <2>3. x \in [pc : {"score"}, tower : {filing[f].tower}, motion : {filing[f].motion},
                 gps : {gps}, old : {filing[f].old}, result : {filing[f].result}]
      BY <1>s
    <2> HIDE DEF x
    <2>4. FilingTyped(x)
      BY <1>t, <2>2, <2>3 DEF FilingTyped, FilingSteps
    <2> QED
      BY <1>3, <2>1, <2>4
  <1>7. ASSUME NEW f \in Filers, NEW raw \in RawScores, NEW a \in Affinities,
               NEW c \in TriggerConfidences, NEW r \in Reviews, ScoreByModel(f, raw, a, c, r)
        PROVE  FilingsTyped'
    <2> DEFINE adjusted == Total(f, raw, a)
               reviewed == Ambiguous(adjusted, c)
               flagged == CASE reviewed /\ r.status = "accepted" -> r.flagged
                            [] reviewed /\ r.status = "invalid_output" -> TRUE
                            [] OTHER -> adjusted < Threshold
               review == IF reviewed THEN r.status ELSE "none"
               dated == filing[f].motion.dated \/ filing[f].gps.check.dated
               result == [raw |-> raw, adjusted |-> adjusted, mode |-> "model",
                          flagged |-> flagged, review |-> review, dated |-> dated]
    <2>a. /\ filing' = [filing EXCEPT ![f] =
                          [filing[f] EXCEPT !.pc = "insert", !.result = result]]
          /\ UNCHANGED <<engine, failOpen>>
      BY <1>7 DEF ScoreByModel, Step
    <2>b. review \in {r.status, "none"}
      OBVIOUS
    <2> HIDE DEF adjusted, flagged, review, dated
    <2>1. /\ filing' = [filing EXCEPT ![f] =
                          [filing[f] EXCEPT !.pc = "insert", !.result = result]]
          /\ result.adjusted = Total(f, raw, a)
          /\ result.review \in {r.status, "none"}
          /\ UNCHANGED <<engine, failOpen>>
      BY <2>a, <2>b DEF adjusted
    <2> HIDE DEF result
    <2>2. result.adjusted \in Int
      BY <1>t, <2>1, TotalTyped DEF FilingTyped
    <2>3. result.review \in Verdicts
      BY <2>1, ReviewStatus DEF Verdicts
    <2> DEFINE x == [filing[f] EXCEPT !.pc = "insert", !.result = result]
    <2>4. x \in [pc : {"insert"}, tower : {filing[f].tower}, motion : {filing[f].motion},
                 gps : {filing[f].gps}, old : {filing[f].old}, result : {result}]
      BY <1>s
    <2>5. filing' = [filing EXCEPT ![f] = x]
      BY <2>1
    <2> HIDE DEF x
    <2>6. FilingTyped(x)
      BY <1>t, <2>2, <2>3, <2>4 DEF FilingTyped, FilingSteps
    <2> QED
      BY <1>3, <2>1, <2>5, <2>6
  <1>8. ASSUME NEW f \in Filers, NEW pc \in FilingSteps, NEW mode,
               \/ filing' = [filing EXCEPT ![f] = [filing[f] EXCEPT !.pc = pc]]
               \/ filing' = [filing EXCEPT ![f] = [filing[f] EXCEPT !.pc = pc,
                                                                    !.result.mode = mode]],
               UNCHANGED <<engine, failOpen>>
        PROVE  FilingsTyped'
    <2> DEFINE result == [filing[f].result EXCEPT !.mode = mode]
    <2>1. result.adjusted = filing[f].result.adjusted /\ result.review = filing[f].result.review
      BY <1>s DEF ResultFields
    <2>2. PICK x : /\ filing' = [filing EXCEPT ![f] = x]
                   /\ \/ x = [filing[f] EXCEPT !.pc = pc]
                      \/ x = [filing[f] EXCEPT !.pc = pc, !.result = result]
      BY <1>8, <1>s
    <2> HIDE DEF result
    <2>3. x \in [pc : {pc}, tower : {filing[f].tower}, motion : {filing[f].motion},
                 gps : {filing[f].gps}, old : {filing[f].old}, result : {filing[f].result, result}]
      BY <1>s, <2>2
    <2>4. FilingTyped(x)
      BY <1>t, <2>1, <2>3 DEF FilingTyped
    <2> QED
      BY <1>3, <1>8, <2>2, <2>4
  <1>9. ASSUME NEW f \in Filers, ScoreDisabled(f) \/ ScoreFails(f) \/ CreateScored(f)
        PROVE  FilingsTyped'
    <2>1. CASE ScoreDisabled(f)
      BY <2>1, <1>8 DEF ScoreDisabled, Step, FilingSteps
    <2>2. CASE ScoreFails(f)
      BY <2>2, <1>8 DEF ScoreFails, Step, FilingSteps
    <2>3. CASE CreateScored(f)
      BY <2>3, <1>8 DEF CreateScored, Step, FilingSteps
    <2> QED
      BY <1>9, <2>1, <2>2, <2>3
  <1> QED
    BY <1>1, <1>2, <1>4, <1>5, <1>6, <1>7, <1>9 DEF ScoringNext, FraudNext, scoringVars

(* A worker's row, its trail and what an upload carries have their types,  *)
(* whatever pings are stored, and so has every claim's score.              *)
THEOREM ScoringTyped == ScoringSpec => [](SignalsTypeOK /\ FraudTypeOK)
<1>1. ScoringSpec => []SignalsTypeOK
  BY RowsInvariant, SignalsBoundedInvariant, SignalsTyped, PTL
<1>2. ScoringInit => FilingsTyped
  BY FilingsInit DEF ScoringInit
<1>3. ScoringSpec => []FilingsTyped
  BY <1>1, <1>2, FilingsStep, ScoresInvariant, PTL DEF ScoringSpec
<1>4. FilingsTyped => FraudTypeOK
  BY DEF FilingsTyped, FilingTyped, FraudTypeOK, FilingSteps, Verdicts
<1> QED
  BY <1>1, <1>3, <1>4, PTL
=============================================================================
