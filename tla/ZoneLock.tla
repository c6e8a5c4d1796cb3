------------------------------ MODULE ZoneLock ------------------------------
(***************************************************************************)
(* Workers' reports of a curfew, bandh or strike in a zone: report_zonelock *)
(* of api/triggers.py, zonelock_nlp.py and the zonelock_reports rows of    *)
(* one zone.  A text is the set of its tokens.  Every database statement   *)
(* of a request is a step of its own; force_trigger_for_zone is one step   *)
(* here, what it does to claims is in Claims.                              *)
(***************************************************************************)
EXTENDS Integers, FiniteSets

CONSTANTS
    ReportIds,       \* rows of zonelock_reports, numbered as they are made
    ReportWorkers,   \* workers of the zone
    Tokens,          \* words of reports that _tokenize keeps
    CategoryOf,      \* the category a token belongs to, or NoCategory
    TicksOfDay, ReportWindow,   \* ticks of a UTC day and of the 30 minutes
    ReportMaxTime,   \* bound of time
    NoCategory, NoReport

ASSUME ZoneLockAssumption ==
    /\ ReportIds \subseteq Nat
    /\ TicksOfDay \in Nat \ {0} /\ ReportMaxTime \in Nat
    /\ ReportWindow \in 0..TicksOfDay - 1

VARIABLES
    reportNow,
    reports,    \* the rows
    reporting,  \* the progress of the request that made each row
    forced,     \* reports whose request has forced the trigger
    supporters  \* history: what each confirmation was based on

reportVars == <<reportNow, reports, reporting, forced, supporters>>

Words == Tokens \cup {CategoryOf[t] : t \in Tokens}
Report == [worker : ReportWorkers, words : SUBSET Words,
           at : 0..ReportMaxTime, status : {"pending", "auto_confirmed"},
           count : Nat, claimed : BOOLEAN]
Reporting == [pc : {"new", "list", "read", "write", "mark", "force", "done", "dropped"},
              match : SUBSET ReportIds, seen : Nat]

ASSUME NoReportAssumption == NoReport \notin Report

ZoneLockTypeOK ==
    /\ reportNow \in 0..ReportMaxTime
    /\ reports \in [ReportIds -> Report \cup {NoReport}]
    /\ reporting \in [ReportIds -> Reporting]
    /\ forced \subseteq ReportIds
    /\ supporters \in [ReportIds -> SUBSET ReportIds]

ZoneLockInit ==
    /\ reportNow = 0
    /\ reports = [i \in ReportIds |-> NoReport]
    /\ reporting = [i \in ReportIds |-> [pc |-> "new", match |-> {}, seen |-> 0]]
    /\ forced = {}
    /\ supporters = [i \in ReportIds |-> {}]

ReportTick ==
    /\ reportNow < ReportMaxTime
    /\ reportNow' = reportNow + 1
    /\ UNCHANGED <<reports, reporting, forced, supporters>>

-----------------------------------------------------------------------------
(***************************************************************************)
(* zonelock_nlp.  Categories are tokens too: a found one joins the words.  *)
(***************************************************************************)
ExtractKeywords(text) ==
    text \cup {CategoryOf[t] : t \in {u \in text : CategoryOf[u] # NoCategory}}

(* Keywords are kept only when the text names some category.               *)
Classified(text) ==
    IF \E t \in text : CategoryOf[t] # NoCategory THEN ExtractKeywords(text) ELSE {}

(* The Jaccard index reaches 0.3.                                          *)
Similar(left, right) ==
    /\ left # {} /\ right # {}
    /\ 10 * Cardinality(left \cap right) >= 3 * Cardinality(left \cup right)

(* str(created_at) has a blank where the cutoff's isoformat has a "T", and *)
(* a blank sorts first: a report of the cutoff's own date is never recent. *)
DayOf(t) == t \div TicksOfDay
WithinWindow(at, now) == now >= ReportWindow => DayOf(at) > DayOf(now - ReportWindow)

ReportExists(i) == reports[i] # NoReport

(* Mutant of Corroborates: the worker's own earlier reports count.         *)
Corroborates_Own(i, j) ==
    /\ ReportExists(j) /\ j # i
    /\ WithinWindow(reports[j].at, reportNow)
    /\ \/ Similar(reports[i].words, reports[j].words)
       \/ reports[i].words = {}

(* A text that names no category is taken to agree with every report.      *)
Corroborates(i, j) ==
    /\ ReportExists(j) /\ j # i
    /\ WithinWindow(reports[j].at, reportNow)
    /\ reports[j].worker # reports[i].worker
    /\ \/ Similar(reports[i].words, reports[j].words)
       \/ reports[i].words = {}

-----------------------------------------------------------------------------
(***************************************************************************)
(* report_zonelock                                                         *)
(***************************************************************************)
Reached(i, pc) == reporting[i].pc = pc
Resume(i, pc, match, seen) ==
    reporting' = [reporting EXCEPT ![i] = [pc |-> pc, match |-> match, seen |-> seen]]

CreateReport(i, w, text) ==
    /\ \A j \in ReportIds : ReportExists(j) <=> j < i
    /\ reports' = [reports EXCEPT ![i] =
           [worker |-> w, words |-> Classified(text), at |-> reportNow,
            status |-> "pending", count |-> 1, claimed |-> FALSE]]
    /\ Resume(i, "list", {}, 0)
    /\ UNCHANGED <<reportNow, forced, supporters>>

ListReports(i) ==
    /\ Reached(i, "list")
    /\ LET match == {j \in ReportIds : Corroborates(i, j)}
       IN  Resume(i, IF match = {} THEN "done" ELSE "read", match, 0)
    /\ UNCHANGED <<reportNow, reports, forced, supporters>>

(* increment_zonelock_report_verification, read and write.                 *)
ReadCount(i) ==
    /\ Reached(i, "read")
    /\ Resume(i, "write", reporting[i].match, reports[i].count)
    /\ UNCHANGED <<reportNow, reports, forced, supporters>>

WriteCount(i) ==
    /\ Reached(i, "write")
    /\ LET count == reporting[i].seen + 1 IN
         reports' = [reports EXCEPT ![i].count = count,
              ![i].status = IF count >= 2 THEN "auto_confirmed" ELSE @]
    /\ supporters' = [supporters EXCEPT ![i] = reporting[i].match]
    /\ Resume(i, "mark", reporting[i].match, 0)
    /\ UNCHANGED <<reportNow, forced>>

(* mark_zonelock_reports_auto_claimed                                      *)
MarkClaimed(i) ==
    /\ Reached(i, "mark")
    /\ LET match == reporting[i].match IN
         /\ reports' = [j \in ReportIds |->
                IF j \in match \cup {i}
                THEN [reports[j] EXCEPT !.claimed = TRUE, !.status = "auto_confirmed"]
                ELSE reports[j]]
         /\ supporters' = [j \in ReportIds |->
                IF j \in match THEN supporters[j] \cup {i} ELSE supporters[j]]
         /\ Resume(i, "force", match, 0)
    /\ UNCHANGED <<reportNow, forced>>

ForceZone(i) ==
    /\ Reached(i, "force")
    /\ forced' = forced \cup {i}
    /\ Resume(i, "done", reporting[i].match, 0)
    /\ UNCHANGED <<reportNow, reports, supporters>>

(* An exception or the end of the process between two statements.          *)
DropReport(i) ==
    /\ reporting[i].pc \in {"list", "read", "write", "mark", "force"}
    /\ Resume(i, "dropped", {}, 0)
    /\ UNCHANGED <<reportNow, reports, forced, supporters>>

ZoneLockNext ==
    \/ ReportTick
    \/ \E i \in ReportIds :
         \/ \E w \in ReportWorkers, text \in SUBSET Tokens : CreateReport(i, w, text)
         \/ ListReports(i) \/ ReadCount(i) \/ WriteCount(i)
         \/ MarkClaimed(i) \/ ForceZone(i) \/ DropReport(i)

ZoneLockSpec == ZoneLockInit /\ [][ZoneLockNext]_reportVars

-----------------------------------------------------------------------------
(***************************************************************************)
(* Properties                                                              *)
(***************************************************************************)
(* "Auto-confirms if 2+ workers report same event": a confirmed report is  *)
(* backed by one of another worker, and a request that forces the trigger  *)
(* leaves none of the reports it counted unconfirmed or unmarked, however  *)
(* the statements of two reports interleave.                               *)
ConfirmedByTwo == \A i \in ReportIds : ReportExists(i) =>
    /\ reports[i].status = "auto_confirmed" =>
         \E j \in supporters[i] : reports[j].worker # reports[i].worker
    /\ i \in forced => \A j \in supporters[i] \cup {i} :
         reports[j].claimed /\ reports[j].status = "auto_confirmed"

(* The rest of the same sentence, "within 30 minutes": when two workers'   *)
(* similar reports are at most the window apart and both requests have run *)
(* to their end, the later one is confirmed.                               *)
CorroboratedIsConfirmed == \A i, j \in ReportIds :
    /\ j < i /\ Reached(i, "done") /\ Reached(j, "done")
    /\ reports[i].worker # reports[j].worker
    /\ Similar(reports[i].words, reports[j].words)
    /\ reportNow - reports[j].at <= ReportWindow
    => reports[i].status = "auto_confirmed"
=============================================================================
