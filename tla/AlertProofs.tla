---------------------------- MODULE AlertProofs ----------------------------
(***************************************************************************)
(* What gives a zone an alert: the reports of its workers and the readings *)
(* the monitor has stored.  For any number of reports, workers, words, kinds *)
(* of readings, polls and restarts, and however similar texts are.         *)
(***************************************************************************)
EXTENDS ZoneLock, Triggers, FiniteFacts

(***************************************************************************)
(* Reports.  The proof looks at who made a report, never at what is compared. *)
(***************************************************************************)
Confirmed(i) == reports[i].claimed /\ reports[i].status = "auto_confirmed"

(* The reports a request has matched exist and are other workers', and so  *)
(* are those a confirmation is based on.                                   *)
MatchesKept ==
    /\ ZoneLockTypeOK
    /\ \A i \in ReportIds : reporting[i].pc = "new" <=> ~ ReportExists(i)
    /\ \A i \in ReportIds : \A j \in reporting[i].match \cup supporters[i] :
         /\ ReportExists(i) /\ ReportExists(j)
         /\ reports[j].worker # reports[i].worker
    /\ \A i \in ReportIds : reporting[i].pc \in {"read", "write", "mark", "force"} =>
         reporting[i].match # {}

(* A request is past its write of the count when its matches back it; the  *)
(* others that back it then have marked themselves and it.                 *)
ConfirmationsKept ==
    /\ \A i \in ReportIds :
         ReportExists(i) /\ reports[i].status = "auto_confirmed" => supporters[i] # {}
    /\ \A i \in ReportIds : reporting[i].pc \in {"mark", "force"} =>
         reporting[i].match \subseteq supporters[i]
    /\ \A i \in ReportIds : reporting[i].pc = "mark" =>
         \A j \in supporters[i] \ reporting[i].match : Confirmed(j)
    /\ \A i \in ReportIds : reporting[i].pc = "force" \/ i \in forced =>
         \A j \in supporters[i] \cup {i} : Confirmed(j)
    /\ \A i \in forced : reporting[i].pc = "done"

-----------------------------------------------------------------------------
LEMMA WordsOfTokens ==
    ASSUME NEW text \in SUBSET Tokens
    PROVE  Classified(text) \in SUBSET Words
  BY DEF Classified, ExtractKeywords, Words

LEMMA MatchesInit == ZoneLockInit => MatchesKept
  BY ZoneLockAssumption DEF ZoneLockInit, MatchesKept, ZoneLockTypeOK, Reporting, ReportExists

LEMMA MatchesStep == MatchesKept /\ [ZoneLockNext]_reportVars => MatchesKept'
  <1> SUFFICES ASSUME MatchesKept, [ZoneLockNext]_reportVars PROVE MatchesKept'
    OBVIOUS
  <1> USE ZoneLockAssumption, NoReportAssumption
      DEF MatchesKept, ZoneLockTypeOK, ReportExists
  <1>1. CASE ReportTick
    <2>1. UNCHANGED <<reports, reporting, forced, supporters>> /\ reportNow' \in 0..ReportMaxTime
      BY <1>1 DEF ReportTick
    <2> QED
      BY <2>1
  <1>2. ASSUME NEW i \in ReportIds, NEW w \in ReportWorkers, NEW text \in SUBSET Tokens,
               CreateReport(i, w, text)
        PROVE MatchesKept'
    <2> DEFINE row == [worker |-> w, words |-> Classified(text), at |-> reportNow,
                       status |-> "pending", count |-> 1, claimed |-> FALSE]
    <2>1. row \in Report
      BY WordsOfTokens DEF Report
    <2>2. /\ ~ ReportExists(i) /\ reports' = [reports EXCEPT ![i] = row]
          /\ reporting' = [reporting EXCEPT ![i] = [pc |-> "list", match |-> {}, seen |-> 0]]
          /\ UNCHANGED <<reportNow, forced, supporters>>
      BY <1>2 DEF CreateReport, Resume
    <2>3. [pc |-> "list", match |-> {}, seen |-> 0] \in Reporting
      BY DEF Reporting
    <2> HIDE DEF row
    <2>4. /\ reports' \in [ReportIds -> Report \cup {NoReport}]
          /\ reports'[i] = row /\ row # NoReport
          /\ \A j \in ReportIds \ {i} : reports'[j] = reports[j]
      BY <2>1, <2>2
    <2>5. /\ reporting' \in [ReportIds -> Reporting]
          /\ reporting'[i].pc = "list" /\ reporting'[i].match = {}
          /\ \A j \in ReportIds \ {i} : reporting'[j] = reporting[j]
      BY <2>2, <2>3
    <2> QED
      BY <2>2, <2>4, <2>5
  <1>3. ASSUME NEW i \in ReportIds, ListReports(i) PROVE MatchesKept'
    <2> DEFINE match == {j \in ReportIds : Corroborates(i, j)}
               pc == IF match = {} THEN "done" ELSE "read"
    <2>1. /\ reporting[i].pc = "list" /\ UNCHANGED <<reportNow, reports, forced, supporters>>
          /\ reporting' = [reporting EXCEPT ![i] = [pc |-> pc, match |-> match, seen |-> 0]]
      BY <1>3 DEF ListReports, Resume, Reached
    <2>2. \A j \in match : ReportExists(j) /\ reports[j].worker # reports[i].worker
      BY DEF Corroborates
    <2>3. match \subseteq ReportIds
      OBVIOUS
    <2>4. [pc |-> pc, match |-> match, seen |-> 0] \in Reporting
      BY <2>3 DEF Reporting
    <2>5. pc # "new" /\ (pc = "read" => match # {}) /\ pc \notin {"write", "mark", "force"}
      OBVIOUS
    <2> HIDE DEF match, pc
    <2> QED
      BY <2>1, <2>2, <2>4, <2>5
  <1>4. ASSUME NEW i \in ReportIds, ReadCount(i) PROVE MatchesKept'
    <2>1. reports[i] \in Report
      BY <1>4 DEF ReadCount, Reached
    <2>2. reports[i].count \in Nat
      BY <2>1 DEF Report
    <2> QED
      BY <1>4, <2>2 DEF ReadCount, Reached, Resume, Reporting
  <1>5. ASSUME NEW i \in ReportIds, WriteCount(i) PROVE MatchesKept'
    <2> DEFINE status == IF reporting[i].seen + 1 >= 2 THEN "auto_confirmed"
                         ELSE reports[i].status
    <2>1. /\ reporting[i].pc = "write" /\ UNCHANGED <<reportNow, forced>>
          /\ reports' = [reports EXCEPT ![i].count = reporting[i].seen + 1, ![i].status = status]
          /\ supporters' = [supporters EXCEPT ![i] = reporting[i].match]
          /\ reporting' = [reporting EXCEPT
               ![i] = [pc |-> "mark", match |-> reporting[i].match, seen |-> 0]]
      BY <1>5 DEF WriteCount, Reached, Resume
    <2>2. reports[i] \in Report /\ reporting[i].seen \in Nat
      BY <2>1 DEF Reporting
    <2>a. reports'[i] = [reports[i] EXCEPT !.count = reporting[i].seen + 1, !.status = status]
      BY <2>1
    <2>b. status \in {"pending", "auto_confirmed"}
      BY <2>2 DEF Report
    <2> HIDE DEF status
    <2>3. reports'[i] \in Report /\ reports'[i].worker = reports[i].worker
      <3>1. reporting[i].seen + 1 \in Nat
        BY <2>2
      <3> QED
        BY <3>1, <2>a, <2>b, <2>2 DEF Report
    <2>4. \A j \in ReportIds \ {i} : reports'[j] = reports[j]
      BY <2>1
    <2>5. reports' \in [ReportIds -> Report \cup {NoReport}]
      BY <2>1, <2>3, <2>4
    <2>6. [pc |-> "mark", match |-> reporting[i].match, seen |-> 0] \in Reporting
      BY DEF Reporting
    <2>7. /\ reporting' \in [ReportIds -> Reporting]
          /\ supporters' \in [ReportIds -> SUBSET ReportIds]
      BY <2>1, <2>6 DEF Reporting
    <2>8. \A j \in ReportIds : /\ reports'[j] = NoReport <=> reports[j] = NoReport
                               /\ reports'[j].worker = reports[j].worker
      BY <2>2, <2>3, <2>4
    <2>9. \A j \in ReportIds :
            /\ reporting'[j].match = reporting[j].match
            /\ supporters'[j] \in {reporting[j].match, supporters[j]}
            /\ reporting'[j].pc # reporting[j].pc =>
                 j = i /\ reporting'[j].pc = "mark"
      BY <2>1
    <2>10. \A j \in ReportIds : \A k \in reporting'[j].match \cup supporters'[j] :
             k \in ReportIds /\ k \in reporting[j].match \cup supporters[j]
      BY <2>9 DEF Reporting
    <2> QED
      <3>1. ZoneLockTypeOK'
        BY <2>1, <2>5, <2>7
      <3>2. \A j \in ReportIds : reporting'[j].pc = "new" <=> ~ ReportExists(j)'
        BY <2>1, <2>8, <2>9
      <3>3. \A j \in ReportIds : \A k \in reporting'[j].match \cup supporters'[j] :
              /\ ReportExists(j)' /\ ReportExists(k)'
              /\ reports'[k].worker # reports'[j].worker
        BY <2>8, <2>10
      <3>4. \A j \in ReportIds : reporting'[j].pc \in {"read", "write", "mark", "force"} =>
              reporting'[j].match # {}
        <4>1. \A j \in ReportIds :
                /\ reporting'[j].match = reporting[j].match
                /\ reporting'[j].pc # reporting[j].pc => j = i
          BY <2>9
        <4>2. reporting[i].match # {}
          BY <2>1
        <4> QED
          BY <4>1, <4>2
      <3> QED
        BY <3>1, <3>2, <3>3, <3>4
  <1>6. ASSUME NEW i \in ReportIds, MarkClaimed(i) PROVE MatchesKept'
    <2> DEFINE match == reporting[i].match
    <2>1. /\ reporting[i].pc = "mark" /\ UNCHANGED <<reportNow, forced>>
          /\ reports' = [j \in ReportIds |-> IF j \in match \cup {i}
               THEN [reports[j] EXCEPT !.claimed = TRUE, !.status = "auto_confirmed"]
               ELSE reports[j]]
          /\ supporters' = [j \in ReportIds |->
               IF j \in match THEN supporters[j] \cup {i} ELSE supporters[j]]
          /\ reporting' = [reporting EXCEPT
               ![i] = [pc |-> "force", match |-> match, seen |-> 0]]
      BY <1>6 DEF MarkClaimed, Reached, Resume
    <2>2. match \subseteq ReportIds /\ \A j \in match \cup {i} : reports[j] \in Report
      BY <2>1 DEF Reporting
    <2>3. \A j \in match \cup {i} : reports'[j] \in Report /\ reports'[j].worker = reports[j].worker
      BY <2>1, <2>2 DEF Report
    <2>4. \A j \in ReportIds \ (match \cup {i}) : reports'[j] = reports[j]
      BY <2>1
    <2>5. reports' \in [ReportIds -> Report \cup {NoReport}]
      BY <2>1, <2>3, <2>4
    <2>6. [pc |-> "force", match |-> match, seen |-> 0] \in Reporting
      BY <2>2 DEF Reporting
    <2>7. /\ reporting' \in [ReportIds -> Reporting]
          /\ supporters' \in [ReportIds -> SUBSET ReportIds]
      BY <2>1, <2>6
    <2>8. \A j \in ReportIds : /\ reports'[j] = NoReport <=> reports[j] = NoReport
                               /\ reports'[j].worker = reports[j].worker
      BY <2>2, <2>3, <2>4
    <2>9. \A j \in ReportIds :
            /\ reporting'[j].match = reporting[j].match
            /\ \/ supporters'[j] = supporters[j]
               \/ j \in match /\ supporters'[j] = supporters[j] \cup {i}
            /\ reporting'[j].pc # reporting[j].pc =>
                 j = i /\ reporting'[j].pc = "force"
      BY <2>1
    <2>10. \A j \in ReportIds : \A k \in reporting'[j].match \cup supporters'[j] :
             /\ k \in ReportIds
             /\ ReportExists(j) /\ ReportExists(k) /\ reports[j].worker # reports[k].worker
      <3> TAKE j \in ReportIds
      <3> TAKE k \in reporting'[j].match \cup supporters'[j]
      <3>1. CASE k \in reporting[j].match \cup supporters[j]
        BY <3>1 DEF Reporting
      <3>2. CASE k = i /\ j \in match
        BY <3>2
      <3>3. /\ reporting'[j].match = reporting[j].match
            /\ \/ supporters'[j] = supporters[j]
               \/ j \in match /\ supporters'[j] = supporters[j] \cup {i}
        BY <2>9
      <3> QED
        BY <3>1, <3>2, <3>3 DEF Reporting
    <2> HIDE DEF match
    <2> QED
      <3>1. ZoneLockTypeOK'
        BY <2>1, <2>5, <2>7
      <3>2. \A j \in ReportIds : reporting'[j].pc = "new" <=> ~ ReportExists(j)'
        BY <2>1, <2>8, <2>9
      <3>3. \A j \in ReportIds : \A k \in reporting'[j].match \cup supporters'[j] :
              /\ ReportExists(j)' /\ ReportExists(k)'
              /\ reports'[k].worker # reports'[j].worker
        BY <2>8, <2>10
      <3>4. \A j \in ReportIds : reporting'[j].pc \in {"read", "write", "mark", "force"} =>
              reporting'[j].match # {}
        <4>1. \A j \in ReportIds :
                /\ reporting'[j].match = reporting[j].match
                /\ reporting'[j].pc # reporting[j].pc => j = i
          BY <2>9
        <4>2. reporting[i].match # {}
          BY <2>1
        <4> QED
          BY <4>1, <4>2
      <3> QED
        BY <3>1, <3>2, <3>3, <3>4
  <1>7. ASSUME NEW i \in ReportIds, ForceZone(i) PROVE MatchesKept'
    BY <1>7 DEF ForceZone, Reached, Resume, Reporting
  <1>8. ASSUME NEW i \in ReportIds, DropReport(i) PROVE MatchesKept'
    BY <1>8 DEF DropReport, Resume, Reporting
  <1>9. CASE UNCHANGED reportVars
    BY <1>9 DEF reportVars
  <1> QED
    BY <1>1, <1>2, <1>3, <1>4, <1>5, <1>6, <1>7, <1>8, <1>9 DEF ZoneLockNext

-----------------------------------------------------------------------------
LEMMA ConfirmationsInit == ZoneLockInit => ConfirmationsKept
  BY ZoneLockAssumption DEF ZoneLockInit, ConfirmationsKept, ReportExists

LEMMA ConfirmationsStep ==
    MatchesKept /\ ConfirmationsKept /\ [ZoneLockNext]_reportVars => ConfirmationsKept'
  <1> SUFFICES ASSUME MatchesKept, ConfirmationsKept, [ZoneLockNext]_reportVars
               PROVE ConfirmationsKept'
    OBVIOUS
  <1> USE ZoneLockAssumption DEF ConfirmationsKept, ReportExists, Confirmed
  <1>t. /\ reports \in [ReportIds -> Report \cup {NoReport}]
        /\ reporting \in [ReportIds -> Reporting]
        /\ supporters \in [ReportIds -> SUBSET ReportIds]
        /\ forced \subseteq ReportIds
    BY DEF MatchesKept, ZoneLockTypeOK
  <1>1. CASE ReportTick
    BY <1>1 DEF ReportTick
  <1>2. ASSUME NEW i \in ReportIds, NEW w \in ReportWorkers, NEW text \in SUBSET Tokens,
               CreateReport(i, w, text)
        PROVE ConfirmationsKept'
    <2>1. /\ reports[i] = NoReport /\ UNCHANGED <<forced, supporters>>
          /\ \A j \in ReportIds \ {i} :
               reports'[j] = reports[j] /\ reporting'[j] = reporting[j]
          /\ reports'[i].status = "pending" /\ reporting'[i].pc = "list"
      BY <1>2, <1>t DEF CreateReport, Resume
    <2>2. reporting[i].pc = "new" /\ supporters[i] = {} /\ i \notin forced
      BY <2>1, <1>t DEF MatchesKept
    <2>3. \A j \in ReportIds : i \notin supporters[j]
      BY <2>1, <1>t DEF MatchesKept
    <2> QED
      BY <2>1, <2>2, <2>3, <1>t
  <1>3. ASSUME NEW i \in ReportIds, ListReports(i) PROVE ConfirmationsKept'
    <2>1. /\ reporting[i].pc = "list" /\ UNCHANGED <<reports, forced, supporters>>
          /\ reporting'[i].pc \in {"done", "read"}
          /\ \A j \in ReportIds \ {i} : reporting'[j] = reporting[j]
      BY <1>3, <1>t DEF ListReports, Resume, Reached
    <2> QED
      BY <2>1, <1>t
  <1>4. ASSUME NEW i \in ReportIds, ReadCount(i) PROVE ConfirmationsKept'
    BY <1>4, <1>t DEF ReadCount, Reached, Resume
  <1>5. ASSUME NEW i \in ReportIds, WriteCount(i) PROVE ConfirmationsKept'
    <2>1. /\ reporting[i].pc = "write" /\ UNCHANGED forced
          /\ \A j \in ReportIds \ {i} : /\ reports'[j] = reports[j]
                                         /\ reporting'[j] = reporting[j]
                                         /\ supporters'[j] = supporters[j]
          /\ supporters'[i] = reporting[i].match
          /\ reporting'[i].pc = "mark" /\ reporting'[i].match = reporting[i].match
      BY <1>5, <1>t DEF WriteCount, Reached, Resume
    <2>2. reports[i] \in Report /\ reporting[i].match # {}
      BY <2>1, <1>t DEF MatchesKept
    <2>3. /\ reports'[i].claimed = reports[i].claimed
          /\ reports'[i].status \in {"auto_confirmed", reports[i].status}
      BY <1>5, <1>t, <2>2 DEF WriteCount, Report
    <2>4. \A j \in ReportIds : Confirmed(j) => Confirmed(j)'
      BY <2>1, <2>3
    <2>5. i \notin forced
      BY <2>1
    <2>6. \A j \in ReportIds : reports'[j] # NoReport /\ reports'[j].status = "auto_confirmed"
            => supporters'[j] # {}
      BY <2>1, <2>2
    <2>7. \A j \in ReportIds : reporting'[j].pc \in {"mark", "force"} =>
            reporting'[j].match \subseteq supporters'[j]
      BY <2>1
    <2>8. \A j \in ReportIds : reporting'[j].pc = "mark" =>
            \A k \in supporters'[j] \ reporting'[j].match : Confirmed(k)'
      <3> SUFFICES ASSUME NEW j \in ReportIds, reporting'[j].pc = "mark",
                          NEW k \in supporters'[j] \ reporting'[j].match
                   PROVE Confirmed(k)'
        OBVIOUS
      <3>1. j # i
        BY <2>1
      <3>2. reporting'[j] = reporting[j] /\ supporters'[j] = supporters[j]
        BY <3>1, <2>1
      <3>3. k \in ReportIds
        BY <3>2, <1>t
      <3> QED
        BY <3>2, <3>3, <2>4
    <2>9. \A j \in ReportIds : reporting'[j].pc = "force" \/ j \in forced' =>
            \A k \in supporters'[j] \cup {j} : Confirmed(k)'
      <3> SUFFICES ASSUME NEW j \in ReportIds, reporting'[j].pc = "force" \/ j \in forced',
                          NEW k \in supporters'[j] \cup {j}
                   PROVE Confirmed(k)'
        OBVIOUS
      <3>1. j # i
        BY <2>1, <2>5
      <3>2. reporting'[j] = reporting[j] /\ supporters'[j] = supporters[j] /\ forced' = forced
        BY <3>1, <2>1
      <3>3. k \in ReportIds
        BY <3>2, <1>t
      <3> QED
        BY <3>2, <3>3, <2>4
    <2>10. \A j \in forced' : reporting'[j].pc = "done"
      BY <2>1, <2>5, <1>t
    <2> QED
      BY <2>6, <2>7, <2>8, <2>9, <2>10
  <1>6. ASSUME NEW i \in ReportIds, MarkClaimed(i) PROVE ConfirmationsKept'
    <2>1. PICK match \in SUBSET ReportIds : match = reporting[i].match
      BY <1>t DEF Reporting
    <2>2. /\ reporting[i].pc = "mark" /\ UNCHANGED forced /\ match \subseteq supporters[i]
          /\ i \notin forced
          /\ \A j \in supporters[i] \ match : Confirmed(j)
      BY <1>6, <2>1 DEF MarkClaimed, Reached
    <2>3. /\ reporting'[i].pc = "force" /\ reporting'[i].match = match
          /\ \A j \in ReportIds \ {i} : reporting'[j] = reporting[j]
      BY <1>6, <2>1, <1>t DEF MarkClaimed, Resume
    <2>4. /\ \A j \in match : supporters'[j] = supporters[j] \cup {i}
          /\ \A j \in ReportIds \ match : supporters'[j] = supporters[j]
      BY <1>6, <2>1 DEF MarkClaimed
    <2>5. i \notin match /\ \A j \in match \cup {i} : reports[j] \in Report
      BY <2>1, <2>2, <1>t DEF MatchesKept
    <2>6. \A j \in match \cup {i} : Confirmed(j)'
      <3> SUFFICES ASSUME NEW j \in match \cup {i} PROVE Confirmed(j)'
        OBVIOUS
      <3>1. reports'[j] = [reports[j] EXCEPT !.claimed = TRUE, !.status = "auto_confirmed"]
        BY <1>6, <2>1 DEF MarkClaimed
      <3>2. reports[j] \in Report
        BY <2>5
      <3> QED
        BY <3>1, <3>2 DEF Report
    <2>7. \A j \in ReportIds \ (match \cup {i}) : reports'[j] = reports[j]
      BY <1>6, <2>1 DEF MarkClaimed
    <2>8. \A j \in ReportIds : Confirmed(j) => Confirmed(j)'
      BY <2>6, <2>7
    <2>9. supporters'[i] = supporters[i] /\ match # {}
      BY <2>1, <2>2, <2>4, <2>5 DEF MatchesKept
    <2>10. \A j \in ReportIds : reports'[j] # NoReport /\ reports'[j].status = "auto_confirmed"
             => supporters'[j] # {}
      BY <2>2, <2>4, <2>7, <2>9, <1>t
    <2>11. \A j \in ReportIds : reporting'[j].pc \in {"mark", "force"} =>
             reporting'[j].match \subseteq supporters'[j]
      BY <2>1, <2>2, <2>3, <2>4, <1>t
    <2>12. \A j \in ReportIds : reporting'[j].pc = "mark" =>
             \A k \in supporters'[j] \ reporting'[j].match : Confirmed(k)'
      <3> SUFFICES ASSUME NEW j \in ReportIds, reporting'[j].pc = "mark",
                          NEW k \in supporters'[j] \ reporting'[j].match
                   PROVE Confirmed(k)'
        OBVIOUS
      <3>1. j # i /\ reporting'[j] = reporting[j]
        BY <2>3
      <3>2. k = i \/ k \in supporters[j]
        BY <2>4, <1>t
      <3>3. k \in ReportIds
        BY <3>2, <1>t
      <3> QED
        BY <3>1, <3>2, <3>3, <2>6, <2>8
    <2>13. \A j \in ReportIds : reporting'[j].pc = "force" \/ j \in forced' =>
             \A k \in supporters'[j] \cup {j} : Confirmed(k)'
      <3> SUFFICES ASSUME NEW j \in ReportIds, reporting'[j].pc = "force" \/ j \in forced',
                          NEW k \in supporters'[j] \cup {j}
                   PROVE Confirmed(k)'
        OBVIOUS
      <3>1. CASE j = i
        BY <3>1, <2>2, <2>6, <2>8, <2>9, <1>t
      <3>2. CASE j # i
        <4>1. reporting[j].pc = "force" \/ j \in forced
          BY <3>2, <2>2, <2>3
        <4>2. CASE j \in match
          <5>1. k = i \/ k \in supporters[j] \cup {j}
            BY <4>2, <2>4
          <5> QED
            BY <4>1, <5>1, <2>6, <2>8, <1>t
        <4>3. CASE j \notin match
          <5>1. k \in supporters[j] \cup {j}
            BY <4>3, <2>4
          <5> QED
            BY <4>1, <5>1, <2>8, <1>t
        <4> QED
          BY <4>2, <4>3
      <3> QED
        BY <3>1, <3>2
    <2>14. \A j \in forced' : reporting'[j].pc = "done"
      BY <2>2, <2>3, <1>t
    <2> QED
      BY <2>10, <2>11, <2>12, <2>13, <2>14
  <1>7. ASSUME NEW i \in ReportIds, ForceZone(i) PROVE ConfirmationsKept'
    BY <1>7, <1>t DEF ForceZone, Reached, Resume
  <1>8. ASSUME NEW i \in ReportIds, DropReport(i) PROVE ConfirmationsKept'
    BY <1>8, <1>t DEF DropReport, Resume
  <1>9. CASE UNCHANGED reportVars
    BY <1>9 DEF reportVars
  <1> QED
    BY <1>1, <1>2, <1>3, <1>4, <1>5, <1>6, <1>7, <1>8, <1>9 DEF ZoneLockNext

(* Every report keeps its matches and its type at each step.               *)
LEMMA MatchesHold == ZoneLockSpec => []MatchesKept
  BY MatchesInit, MatchesStep, PTL DEF ZoneLockSpec

(* A confirmed report is backed by one of another worker, and a request    *)
(* that forces the trigger leaves none of the reports it counted           *)
(* unconfirmed or unmarked, however many reports are under way.            *)
THEOREM ConfirmationsNeedTwoWorkers == ZoneLockSpec => []ConfirmedByTwo
<1>1. ZoneLockInit => MatchesKept /\ ConfirmationsKept
  BY MatchesInit, ConfirmationsInit
<1>2. MatchesKept /\ ConfirmationsKept /\ [ZoneLockNext]_reportVars
        => MatchesKept' /\ ConfirmationsKept'
  BY MatchesStep, ConfirmationsStep
<1>3. MatchesKept /\ ConfirmationsKept => ConfirmedByTwo
  BY DEF MatchesKept, ConfirmationsKept, ConfirmedByTwo, Confirmed
<1> QED
  BY <1>1, <1>2, <1>3, PTL DEF ZoneLockSpec

-----------------------------------------------------------------------------
(***************************************************************************)
(* Sustained alerts.  Readings are ordered by poll; a later one has a      *)
(* later or the same tick, and lies further from it by the restarts in     *)
(* between, of which there are finitely many.                              *)
(***************************************************************************)
Ordered(rs) == \A r, q \in rs :
    /\ r.poll = q.poll => r = q
    /\ r.poll < q.poll => r.at <= q.at /\ r.poll - r.at <= q.poll - q.at

ReadingsOf(rs) ==
    /\ rs \subseteq Reading /\ IsFiniteSet(rs)
    /\ \A r \in rs : /\ r.at <= tick /\ r.at <= r.poll /\ r.poll - r.at <= restarts
                     /\ ~polled => r.poll < ThisPoll
    /\ Ordered(rs)

AlertTypes == {"none", "rain", "zonelock", "aqi", "traffic", "heat"}

ReadingsKept ==
    /\ tick \in 0..MaxTick /\ polled \in BOOLEAN /\ restarts \in 0..MaxRestarts
    /\ \A k \in ToSet(Kinds) : ReadingsOf(readings[k])
    /\ live = NoState \/ live.type \in AlertTypes

(* As many readings as ticks, and at most one more for each restart: of    *)
(* the readings of one tick the first stands for the tick, and the others  *)
(* differ in the restarts before them.                                     *)
LEMMA TicksOfReadings ==
    ASSUME NEW rs, rs \subseteq Reading, IsFiniteSet(rs), Ordered(rs), NEW n \in Nat,
           \A r \in rs : r.at <= r.poll /\ r.poll - r.at <= n
    PROVE  /\ IsFiniteSet({r.at : r \in rs})
           /\ Cardinality(rs) <= Cardinality({r.at : r \in rs}) + n
  <1> DEFINE ats == {r.at : r \in rs}
             firsts == {r \in rs : \A q \in rs : q.at = r.at => q.poll >= r.poll}
             others == {r \in rs : \E q \in rs : q.at = r.at /\ q.poll < r.poll}
  <1>1. \A r \in rs : r.at \in Nat /\ r.poll \in Nat
    BY DEF Reading
  <1>2. IsFiniteSet(ats)
    <2>1. [r \in rs |-> r.at] \in Surjection(rs, ats)
      BY DEF Surjection
    <2> QED
      BY <2>1, FS_Surjection
  <1>3. IsFiniteSet(firsts) /\ IsFiniteSet(others)
    BY FS_Subset
  <1>4. rs = firsts \cup others /\ firsts \cap others = {}
    BY <1>1
  <1>5. Cardinality(firsts) <= Cardinality(ats)
    <2>1. \A r, q \in firsts : r.at = q.at => r = q
      <3> SUFFICES ASSUME NEW r \in firsts, NEW q \in firsts, r.at = q.at PROVE r = q
        OBVIOUS
      <3>1. r.poll = q.poll
        BY <1>1
      <3> QED
        BY <3>1 DEF Ordered
    <2>2. PICK f : f = [r \in firsts |-> r.at]
      OBVIOUS
    <2>3. f \in Injection(firsts, ats)
      BY <2>1, <2>2 DEF Injection, IsInjective
    <2> QED
      BY <1>2, <2>3, FS_Injection
  <1>6. Cardinality(others) <= n
    <2>1. \A r \in others : r.poll - r.at \in 1..n
      <3> SUFFICES ASSUME NEW r \in others PROVE r.poll - r.at \in 1..n
        OBVIOUS
      <3>1. PICK q \in rs : q.at = r.at /\ q.poll < r.poll
        OBVIOUS
      <3> QED
        BY <1>1, <3>1
    <2>2. ASSUME NEW r \in others, NEW q \in others, r.poll < q.poll
          PROVE  r.poll - r.at # q.poll - q.at
      <3> SUFFICES ASSUME r.poll - r.at = q.poll - q.at PROVE FALSE
        OBVIOUS
      <3>1. r.at < q.at
        BY <1>1, <2>2
      <3>2. PICK p \in rs : p.at = q.at /\ p.poll < q.poll
        OBVIOUS
      <3>3. ~ (p.poll < r.poll) /\ p.poll # r.poll
        BY <1>1, <3>1, <3>2 DEF Ordered
      <3>4. r.poll - r.at <= p.poll - p.at
        BY <1>1, <3>3 DEF Ordered
      <3> QED
        BY <1>1, <3>2, <3>4
    <2>3. \A r, q \in others : r.poll - r.at = q.poll - q.at => r = q
      <3> SUFFICES ASSUME NEW r \in others, NEW q \in others, r.poll - r.at = q.poll - q.at
                   PROVE  r = q
        OBVIOUS
      <3>1. r.poll = q.poll
        BY <1>1, <2>2
      <3> QED
        BY <3>1 DEF Ordered
    <2>4. PICK f : f = [r \in others |-> r.poll - r.at]
      OBVIOUS
    <2> HIDE DEF others
    <2>5. f \in Injection(others, 1..n)
      BY <2>1, <2>3, <2>4 DEF Injection, IsInjective
    <2>6. IsFiniteSet(1..n) /\ Cardinality(1..n) = n
      BY FS_Interval
    <2> QED
      BY <2>5, <2>6, FS_Injection
  <1> HIDE DEF ats, firsts, others
  <1>7. /\ Cardinality(ats) \in Nat /\ Cardinality(firsts) \in Nat
        /\ Cardinality(others) \in Nat
    BY <1>2, <1>3, FS_CardinalityType
  <1>8. Cardinality(rs) = Cardinality(firsts) + Cardinality(others)
    <2>1. Cardinality(firsts \cap others) = 0
      BY <1>4, FS_EmptySet
    <2>2. Cardinality(firsts \cup others) =
            Cardinality(firsts) + Cardinality(others) - Cardinality(firsts \cap others)
      BY <1>3, FS_Union
    <2> QED
      BY <1>4, <1>7, <2>1, <2>2
  <1>9. Cardinality(rs) <= Cardinality(ats) + n
    BY <1>5, <1>6, <1>7, <1>8
  <1> QED
    BY <1>2, <1>9 DEF ats

(* As many readings after one as polls, at most.                           *)
LEMMA ReadingsSince ==
    ASSUME NEW rs, rs \subseteq Reading, Ordered(rs), NEW c \in Nat, NEW last \in Nat,
           \A r \in rs : c < r.poll /\ r.poll <= last
    PROVE  c + Cardinality(rs) <= last \/ rs = {}
  <1>1. \A r \in rs : r.poll \in (c + 1)..last
    BY DEF Reading
  <1>2. PICK f : f = [r \in rs |-> r.poll]
    OBVIOUS
  <1>3. f \in Injection(rs, (c + 1)..last)
    BY <1>1, <1>2 DEF Injection, IsInjective, Ordered
  <1>4. /\ IsFiniteSet((c + 1)..last)
        /\ Cardinality((c + 1)..last) = IF c + 1 > last THEN 0 ELSE last - (c + 1) + 1
    BY FS_Interval
  <1>5. IsFiniteSet(rs) /\ Cardinality(rs) <= Cardinality((c + 1)..last)
    BY <1>3, <1>4, FS_Injection
  <1>6. Cardinality(rs) \in Nat
    BY <1>5, FS_CardinalityType
  <1>7. CASE c + 1 > last
    BY <1>1, <1>7
  <1>8. CASE ~ (c + 1 > last)
    BY <1>4, <1>5, <1>6, <1>8
  <1> QED
    BY <1>7, <1>8

LEMMA RequiredTyped ==
    ASSUME NEW k \in ToSet(Kinds)
    PROVE  /\ WindowPolls[k] \in Nat /\ Required(k) \in Nat \ {0}
           /\ WindowPolls[k] # 0 => Required(k) <= WindowPolls[k]
           /\ WindowPolls[k] = 0 => Required(k) = 1
  BY TriggersAssumption DEF Required, AtLeastOne

LEMMA KindsTyped ==
    /\ ToSet(Kinds) \subseteq {"aqi", "traffic", "heat"}
    /\ Len(Kinds) \in Nat /\ DOMAIN Kinds = 1..Len(Kinds)
    /\ \A i \in DOMAIN Kinds : Kinds[i] \in ToSet(Kinds)
  BY TriggersAssumption DEF ToSet

LEMMA StaticAlertTyped ==
    ASSUME NEW risks, risks \subseteq {"rain", "aqi", "traffic"}
    PROVE  /\ StaticAlert(risks) \in {"none", "rain", "aqi", "traffic"}
           /\ risks = {} => StaticAlert(risks) = "none"
  <1>1. CASE "rain" \in risks
    BY <1>1 DEF StaticAlert
  <1>2. CASE "rain" \notin risks /\ "aqi" \in risks
    BY <1>2 DEF StaticAlert
  <1>3. CASE risks = {"traffic"}
    BY <1>3 DEF StaticAlert
  <1>4. CASE risks = {}
    BY <1>4 DEF StaticAlert
  <1> QED
    BY <1>1, <1>2, <1>3, <1>4

(* A poll stores its reading after all others.                             *)
LEMMA StoredKept ==
    ASSUME ReadingsKept, ~polled, NEW k \in ToSet(Kinds), NEW answer \in Answers
    PROVE  /\ Stored(k, answer) \subseteq Reading /\ IsFiniteSet(Stored(k, answer))
           /\ \A r \in Stored(k, answer) : /\ r.at <= tick /\ r.at <= r.poll
                                           /\ r.poll - r.at <= restarts
           /\ Ordered(Stored(k, answer))
  <1> USE DEF ReadingsKept, ReadingsOf
  <1>1. CASE answer = "none"
    BY <1>1 DEF Stored
  <1>2. CASE answer # "none"
    <2>1. PICK new \in Reading : new = [poll |-> ThisPoll, at |-> tick, beyond |-> answer = "beyond"]
      <3>1. ThisPoll \in Nat /\ tick \in Nat
        BY TriggersAssumption DEF ThisPoll
      <3>2. [poll |-> ThisPoll, at |-> tick, beyond |-> answer = "beyond"] \in Reading
        BY <3>1 DEF Reading
      <3> QED
        BY <3>2
    <2>2. Stored(k, answer) = readings[k] \cup {new}
      BY <1>2, <2>1 DEF Stored
    <2>3. new.poll = tick + restarts /\ new.at = tick
      BY <2>1 DEF ThisPoll
    <2>4. IsFiniteSet(readings[k] \cup {new})
      BY FS_AddElement
    <2>5. \A r \in readings[k] : r.poll < new.poll
      BY <2>1
    <2>6. \A r \in readings[k] : r.poll \in Nat /\ r.at \in Nat
      BY DEF Reading
    <2>7. Ordered(readings[k] \cup {new})
      <3> SUFFICES ASSUME NEW r \in readings[k] \cup {new}, NEW q \in readings[k] \cup {new}
                   PROVE  /\ r.poll = q.poll => r = q
                          /\ r.poll < q.poll => r.at <= q.at /\ r.poll - r.at <= q.poll - q.at
        BY DEF Ordered
      <3>1. CASE r = new /\ q = new
        BY <2>3, <3>1
      <3>2. CASE r \in readings[k] /\ q = new
        BY <2>3, <2>5, <2>6, <3>2
      <3>3. CASE r = new /\ q \in readings[k]
        BY <2>3, <2>5, <2>6, <3>3
      <3>4. CASE r \in readings[k] /\ q \in readings[k]
        BY <3>4 DEF Ordered
      <3> QED
        BY <3>1, <3>2, <3>3, <3>4
    <2>8. \A r \in readings[k] \cup {new} : r.at <= tick /\ r.at <= r.poll /\ r.poll - r.at <= restarts
      BY <2>3
    <2> QED
      BY <2>2, <2>4, <2>7, <2>8
  <1> QED
    BY <1>1, <1>2

-----------------------------------------------------------------------------
LEMMA ReadingsInit == TriggersInit => ReadingsKept
  <1> SUFFICES ASSUME TriggersInit PROVE ReadingsKept
    OBVIOUS
  <1>1. \A k \in ToSet(Kinds) : readings[k] = {}
    BY DEF TriggersInit
  <1>2. ReadingsOf({})
    BY FS_EmptySet DEF ReadingsOf, Ordered
  <1> QED
    <2>1. \A k \in ToSet(Kinds) : ReadingsOf(readings[k])
      BY <1>1, <1>2
    <2>2. tick \in 0..MaxTick /\ polled \in BOOLEAN /\ restarts \in 0..MaxRestarts
      <3>1. MaxTick \in Nat /\ MaxRestarts \in Nat
        BY TriggersAssumption
      <3>2. tick = 0 /\ restarts = 0
        BY DEF TriggersInit
      <3>3. tick \in 0..MaxTick /\ restarts \in 0..MaxRestarts
        BY <3>1, <3>2
      <3>4. polled \in BOOLEAN
        BY DEF TriggersInit
      <3> QED
        BY <3>3, <3>4
    <2> QED
      BY <2>1, <2>2 DEF TriggersInit, ReadingsKept

LEMMA ReadingsStep == ReadingsKept /\ [TriggersNext]_triggerVars => ReadingsKept'
  <1> SUFFICES ASSUME ReadingsKept, [TriggersNext]_triggerVars PROVE ReadingsKept'
    OBVIOUS
  <1> USE TriggersAssumption
  <1>t. /\ tick \in 0..MaxTick /\ polled \in BOOLEAN /\ restarts \in 0..MaxRestarts
        /\ \A k \in ToSet(Kinds) : ReadingsOf(readings[k])
        /\ live = NoState \/ live.type \in AlertTypes
    BY DEF ReadingsKept
  <1>f. ForcedTypes \subseteq AlertTypes
    BY DEF AlertTypes
  <1>1. ASSUME TriggersTick PROVE ReadingsKept'
    <2>1. ASSUME NEW k \in ToSet(Kinds) PROVE ReadingsOf(readings[k])'
      <3>1. readings'[k] \subseteq readings[k]
        BY <1>1 DEF TriggersTick
      <3>2. IsFiniteSet(readings'[k])
        BY <1>t, <3>1, FS_Subset DEF ReadingsOf
      <3>3. \A r \in readings[k] : r.at \in Nat /\ r.poll \in Nat
        BY <1>t DEF ReadingsOf, Reading
      <3>4. \A r \in readings'[k] : /\ r.at <= tick' /\ r.at <= r.poll
                                    /\ r.poll - r.at <= restarts' /\ r.poll < ThisPoll'
        BY <1>1, <1>t, <3>1, <3>3 DEF ReadingsOf, TriggersTick, ThisPoll
      <3> QED
        BY <1>t, <3>1, <3>2, <3>4 DEF ReadingsOf, Ordered
    <2> QED
      <3>1. /\ tick' \in 0..MaxTick /\ polled' \in BOOLEAN /\ restarts' \in 0..MaxRestarts
            /\ live' = NoState \/ live'.type \in AlertTypes
        <4>1. MaxTick \in Nat /\ tick \in 0..MaxTick /\ tick < MaxTick /\ tick' = tick + 1
          BY <1>1, <1>t DEF TriggersTick
        <4>2. tick' \in 0..MaxTick
          BY <4>1
        <4>3. polled' \in BOOLEAN /\ restarts' \in 0..MaxRestarts
          BY <1>1, <1>t DEF TriggersTick
        <4>4. live' = NoState \/ live'.type \in AlertTypes
          BY <1>1, <1>t DEF TriggersTick
        <4> QED
          BY <4>2, <4>3, <4>4
      <3> QED
        BY <2>1, <3>1 DEF ReadingsKept
  <1>2. ASSUME UNCHANGED <<tick, readings, restarts>>, polled' \in BOOLEAN,
               ~polled' => ~polled, live' = live \/ live'.type \in AlertTypes
        PROVE  ReadingsKept'
    <2>1. ASSUME NEW k \in ToSet(Kinds) PROVE ReadingsOf(readings[k])'
      BY <1>2, <1>t DEF ReadingsOf, Ordered, ThisPoll
    <2> QED
      BY <1>2, <1>t, <2>1 DEF ReadingsKept
  <1>3. CASE PollRain
    BY <1>2, <1>3, <1>t DEF PollRain, Alert, AlertTypes
  <1>4. ASSUME NEW answers \in [ToSet(Kinds) -> Answers], NEW news \in BOOLEAN,
               NEW edge \in BOOLEAN, PollKinds(answers, news, edge)
        PROVE  ReadingsKept'
    <2>1. /\ ~polled /\ polled' = TRUE /\ UNCHANGED <<tick, restarts>>
          /\ \A k \in ToSet(Kinds) : readings'[k] \in {Stored(k, answers[k]), readings[k]}
      BY <1>4 DEF PollKinds
    <2>2. ASSUME NEW k \in ToSet(Kinds) PROVE ReadingsOf(readings[k])'
      <3>1. CASE readings'[k] = Stored(k, answers[k])
        <4>1. PICK answer \in Answers : answer = answers[k]
          OBVIOUS
        <4> QED
          BY <2>1, <3>1, <4>1, StoredKept DEF ReadingsOf, Ordered
      <3>2. CASE readings'[k] = readings[k]
        BY <1>t, <2>1, <3>2 DEF ReadingsOf, Ordered
      <3> QED
        BY <2>1, <3>1, <3>2
    <2>3. live'.type \in AlertTypes
      <3> DEFINE alerting == {i \in DOMAIN Kinds : Alerts(Kinds[i], answers[Kinds[i]], edge)}
                 first == IF alerting = {} THEN Len(Kinds)
                          ELSE CHOOSE i \in alerting : \A j \in alerting : i <= j
      <3>1. live'.type = IF alerting # {} THEN Kinds[first]
                         ELSE IF news THEN "zonelock" ELSE StaticAlert(Risks)
        BY <1>4 DEF PollKinds, Alert
      <3>2. alerting # {} => first \in alerting
        <4>1. alerting \in SUBSET Nat
          BY KindsTyped
        <4> QED
          BY <4>1, LeastNat
      <3>3. alerting # {} => Kinds[first] \in {"aqi", "traffic", "heat"}
        BY <3>2, KindsTyped
      <3> HIDE DEF first, alerting
      <3> QED
        BY <3>1, <3>3, StaticAlertTyped DEF AlertTypes
    <2> QED
      BY <1>t, <2>1, <2>2, <2>3 DEF ReadingsKept
  <1>5. ASSUME NEW type \in ForcedTypes, ForceAlert(type) PROVE ReadingsKept'
    <2>1. live'.type = type
      BY <1>5 DEF ForceAlert, Alert
    <2> QED
      BY <1>2, <1>5, <1>f, <1>t, <2>1 DEF ForceAlert
  <1>6. ASSUME RestartMonitor PROVE ReadingsKept'
    <2>1. ASSUME NEW k \in ToSet(Kinds) PROVE ReadingsOf(readings[k])'
      <3>1. \A r \in readings[k] : r.at \in Nat /\ r.poll \in Nat
        BY <1>t DEF ReadingsOf, Reading
      <3> QED
        BY <1>6, <1>t, <3>1 DEF ReadingsOf, Ordered, RestartMonitor, ThisPoll
    <2> QED
      <3>1. /\ tick' \in 0..MaxTick /\ polled' \in BOOLEAN /\ restarts' \in 0..MaxRestarts
            /\ live' = NoState
        <4>1. /\ MaxRestarts \in Nat /\ restarts \in 0..MaxRestarts
              /\ restarts < MaxRestarts /\ restarts' = restarts + 1
          BY <1>6, <1>t DEF RestartMonitor
        <4>2. restarts' \in 0..MaxRestarts
          BY <4>1
        <4>3. tick' \in 0..MaxTick /\ live' = NoState
          BY <1>6, <1>t DEF RestartMonitor
        <4>4. polled' \in BOOLEAN
          BY <1>6 DEF RestartMonitor
        <4> QED
          BY <4>2, <4>3, <4>4
      <3> QED
        BY <2>1, <3>1 DEF ReadingsKept
  <1>7. CASE UNCHANGED triggerVars
    BY <1>2, <1>7, <1>t DEF triggerVars
  <1> QED
    BY <1>1, <1>3, <1>4, <1>5, <1>6, <1>7 DEF TriggersNext

LEMMA ReadingsInvariant == TriggersSpec => []ReadingsKept
  BY ReadingsInit, ReadingsStep, PTL DEF TriggersSpec

-----------------------------------------------------------------------------
(* The poll that raises an alert has seen its window.                      *)
LEMMA AlertIsSustained ==
    ASSUME ReadingsKept, NEW k \in ToSet(Kinds), NEW rs, NEW edge \in BOOLEAN,
           rs \subseteq Reading, IsFiniteSet(rs), Ordered(rs),
           \A r \in rs : r.at <= tick /\ r.at <= r.poll /\ r.poll - r.at <= restarts,
           Sustained(k, Within(k, rs, edge)),
           NEW since, since = {q \in rs : q.at >= tick - WindowPolls[k]}
    PROVE  /\ Cardinality({r.at : r \in {q \in since : q.beyond}}) + restarts >= Required(k)
           /\ \A c \in since : ~ c.beyond => c.at <= tick - Required(k) + restarts
  <1> DEFINE window == Within(k, rs, edge)
             newest == Newest(window, Required(k))
             ats(S) == {r.at : r \in S}
  <1>t. /\ tick \in Nat /\ restarts \in Nat
        /\ \A r \in rs : r.at \in Nat /\ r.poll \in Nat
    BY TriggersAssumption DEF ReadingsKept, Reading
  <1>n. /\ WindowPolls[k] \in Nat /\ Required(k) \in Nat \ {0}
        /\ WindowPolls[k] # 0 => Required(k) <= WindowPolls[k]
        /\ WindowPolls[k] = 0 => Required(k) = 1
    BY RequiredTyped
  <1>1. Cardinality(newest) >= Required(k) /\ \A r \in newest : r.beyond
    BY DEF Sustained
  <1>2. window \subseteq since /\ newest \subseteq window
    BY <1>t, <1>n DEF Within, Newest
  <1>w. window \subseteq Reading /\ IsFiniteSet(window) /\ Ordered(window)
    <2>1. window \subseteq rs
      BY DEF Within
    <2> QED
      BY <2>1, FS_Subset DEF Ordered
  <1>n2. newest \subseteq Reading /\ IsFiniteSet(newest) /\ Ordered(newest)
    BY <1>w, <1>2, FS_Subset DEF Ordered
  <1>3. Cardinality(ats({q \in since : q.beyond})) + restarts >= Required(k)
    <2>1. newest \subseteq {q \in since : q.beyond}
      BY <1>1, <1>2
    <2>2. IsFiniteSet(ats(newest)) /\ Cardinality(newest) <= Cardinality(ats(newest)) + restarts
      <3>1. \A r \in newest : r.at <= r.poll /\ r.poll - r.at <= restarts
        BY <1>2
      <3> HIDE DEF newest
      <3> QED
        BY <1>t, <1>n2, <3>1, TicksOfReadings
    <2>3. PICK all : all = {q \in since : q.beyond}
      OBVIOUS
    <2>4. all \subseteq Reading /\ IsFiniteSet(all)
      BY <2>3, FS_Subset
    <2>5. IsFiniteSet(ats(all))
      <3>1. [r \in all |-> r.at] \in Surjection(all, ats(all))
        BY DEF Surjection
      <3> QED
        BY <2>4, <3>1, FS_Surjection
    <2>6. ats(newest) \subseteq ats(all)
      BY <2>1, <2>3
    <2> HIDE DEF ats, newest
    <2>7. Cardinality(ats(newest)) <= Cardinality(ats(all))
      BY <2>5, <2>6, FS_Subset
    <2>8. /\ Cardinality(ats(newest)) \in Nat /\ Cardinality(ats(all)) \in Nat
          /\ Cardinality(newest) \in Nat
      BY <2>2, <2>5, <1>n2, FS_CardinalityType
    <2> QED
      BY <1>1, <1>n, <1>t, <2>2, <2>3, <2>7, <2>8
  <1>4. ASSUME NEW c \in since, ~ c.beyond PROVE c.at <= tick - Required(k) + restarts
    <2>1. CASE c \notin window
      <3>1. c.at = tick - WindowPolls[k] /\ edge = FALSE
        <4>1. c \in rs /\ c.at \in Nat /\ c.at >= tick - WindowPolls[k]
          BY <1>t
        <4>2. ~ (c.at > tick - WindowPolls[k]) /\ ~ (edge /\ c.at = tick - WindowPolls[k])
          BY <2>1, <4>1 DEF Within
        <4>3. c.at = tick - WindowPolls[k]
          BY <1>t, <1>n, <4>1, <4>2
        <4> QED
          BY <4>2, <4>3
      <3>2. WindowPolls[k] # 0
        <4> SUFFICES ASSUME WindowPolls[k] = 0 PROVE FALSE
          OBVIOUS
        <4>1. window = {}
          BY <1>t, <3>1 DEF Within
        <4>2. newest = {}
          BY <1>2, <4>1
        <4> HIDE DEF newest
        <4> QED
          BY <1>1, <1>n, <4>2, FS_EmptySet
      <3> QED
        BY <1>t, <1>n, <3>1, <3>2
    <2>2. CASE c \in window
      <3> DEFINE later == {q \in window : q.poll > c.poll}
      <3>1. c \notin newest
        BY <1>1, <1>4
      <3>2. ~ (Cardinality(later) < Required(k))
        BY <2>2, <3>1 DEF Newest
      <3>3. later \subseteq Reading /\ IsFiniteSet(later) /\ Ordered(later)
        BY <1>w, FS_Subset DEF Ordered
      <3>4. Cardinality(later) \in Nat
        BY <3>3, FS_CardinalityType
      <3>5. later # {}
        <4> SUFFICES ASSUME later = {} PROVE FALSE
          OBVIOUS
        <4> HIDE DEF later
        <4>1. Cardinality(later) = 0
          BY FS_EmptySet
        <4> QED
          BY <1>n, <3>2, <4>1
      <3>6. \A r \in later : c.poll < r.poll /\ r.poll <= tick + restarts
        BY <1>t, <1>2
      <3>7. c.poll \in Nat /\ c.at \in Nat /\ c.at <= c.poll /\ tick + restarts \in Nat
        BY <1>t
      <3> HIDE DEF later
      <3>8. c.poll + Cardinality(later) <= tick + restarts
        BY <3>3, <3>5, <3>6, <3>7, ReadingsSince
      <3> QED
        BY <1>t, <1>n, <3>2, <3>4, <3>7, <3>8
    <2> QED
      BY <2>1, <2>2
  <1> QED
    BY <1>3, <1>4

LEMMA SustainedStep ==
    ReadingsKept /\ SustainedForHours /\ [TriggersNext]_triggerVars => SustainedForHours'
  <1> SUFFICES ASSUME ReadingsKept, SustainedForHours, [TriggersNext]_triggerVars
               PROVE  SustainedForHours'
    OBVIOUS
  <1>1. CASE TriggersTick \/ RestartMonitor
    BY <1>1 DEF TriggersTick, RestartMonitor, SustainedForHours
  <1>2. CASE PollRain
    <2>1. live'.type = "rain"
      BY <1>2 DEF PollRain, Alert
    <2> QED
      BY <2>1, KindsTyped DEF SustainedForHours
  <1>3. ASSUME NEW type \in ForcedTypes, ForceAlert(type) PROVE SustainedForHours'
    <2>1. live'.source = "manual"
      BY <1>3 DEF ForceAlert, Alert
    <2> QED
      BY <2>1 DEF SustainedForHours
  <1>4. CASE UNCHANGED triggerVars
    BY <1>4 DEF triggerVars, SustainedForHours
  <1>5. ASSUME NEW answers \in [ToSet(Kinds) -> Answers], NEW news \in BOOLEAN,
               NEW edge \in BOOLEAN, PollKinds(answers, news, edge)
        PROVE  SustainedForHours'
    <2> DEFINE alerting == {i \in DOMAIN Kinds : Alerts(Kinds[i], answers[Kinds[i]], edge)}
               first == IF alerting = {} THEN Len(Kinds)
                        ELSE CHOOSE i \in alerting : \A j \in alerting : i <= j
    <2> SUFFICES ASSUME live'.type \in ToSet(Kinds), Risks = {},
                        NEW k \in ToSet(Kinds), k = live'.type, NEW since,
                        since = {q \in readings'[k] : q.at >= tick - WindowPolls[k]}
                 PROVE  /\ Cardinality({r.at : r \in {q \in since : q.beyond}}) + restarts
                             >= Required(k)
                        /\ \A c \in since : ~ c.beyond => c.at <= tick - Required(k) + restarts
      <3>1. UNCHANGED <<tick, restarts>>
        BY <1>5 DEF PollKinds
      <3>2. SUFFICES ASSUME live'.type \in ToSet(Kinds), Risks = {}
                     PROVE
             LET of(beyond) == {r.at : r \in {q \in readings'[live'.type] :
                              q.beyond = beyond /\ q.at >= tick - WindowPolls[live'.type]}}
             IN  /\ Cardinality(of(TRUE)) + restarts >= Required(live'.type)
                 /\ \A t \in of(FALSE) : t <= tick - Required(live'.type) + restarts
        BY <3>1 DEF SustainedForHours, Required
      <3>3. PICK k \in ToSet(Kinds) : k = live'.type
        BY <3>2
      <3> DEFINE since == {q \in readings'[k] : q.at >= tick - WindowPolls[k]}
      <3>4. /\ Cardinality({r.at : r \in {q \in since : q.beyond}}) + restarts >= Required(k)
            /\ \A c \in since : ~ c.beyond => c.at <= tick - Required(k) + restarts
        BY <3>2, <3>3
      <3> QED
        BY <3>3, <3>4
    <2>1. live'.type = IF alerting # {} THEN Kinds[first]
                       ELSE IF news THEN "zonelock" ELSE StaticAlert(Risks)
      BY <1>5 DEF PollKinds, Alert
    <2>2. alerting # {}
      <3>1. StaticAlert(Risks) = "none"
        BY StaticAlertTyped
      <3> HIDE DEF first, alerting
      <3> QED
        BY <2>1, <3>1, KindsTyped
    <2>3. first \in alerting
      <3>1. alerting \in SUBSET Nat
        BY KindsTyped
      <3> QED
        BY <2>2, <3>1, LeastNat
    <2>4. Kinds[first] = k /\ first \in 1..first
      BY <2>1, <2>2, <2>3, KindsTyped
    <2>5. readings'[k] = Stored(k, answers[k])
      BY <1>5, <2>4 DEF PollKinds
    <2>6. Sustained(k, Within(k, Stored(k, answers[k]), edge))
      BY <2>3, <2>4 DEF Alerts
    <2>7. PICK answer \in Answers : answer = answers[k]
      OBVIOUS
    <2>8. ~polled
      BY <1>5 DEF PollKinds
    <2> QED
      BY <2>5, <2>6, <2>7, <2>8, StoredKept, AlertIsSustained
  <1> QED
    BY <1>1, <1>2, <1>3, <1>4, <1>5 DEF TriggersNext

(* "AQI > 250 sustained 4 hours": when a poll raises the alert of a kind,  *)
(* answers beyond the threshold were stored in all but Slack of the polls  *)
(* its window takes and none within it since, but for one poll a restart.  *)
(* It holds for windows and slacks of any length and for however many      *)
(* outages, alerts of other kinds, forced triggers and restarts.           *)
THEOREM AlertsAreSustained == TriggersSpec => []SustainedForHours
<1>1. TriggersInit => SustainedForHours
  BY DEF TriggersInit, SustainedForHours
<1> QED
  BY <1>1, ReadingsInvariant, SustainedStep, PTL DEF TriggersSpec

(* Readings and alerts have their types.                                   *)
THEOREM TriggersTyped == TriggersSpec => []TriggersTypeOK
<1>1. ReadingsKept => TriggersTypeOK
  BY DEF ReadingsKept, ReadingsOf, TriggersTypeOK, AlertTypes
<1> QED
  BY <1>1, ReadingsInvariant, PTL
=============================================================================
