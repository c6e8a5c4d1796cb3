---------------------------- MODULE ClaimsProofs ----------------------------
(***************************************************************************)
(* What holds of claims and payouts for every number of claims, workers,   *)
(* admins and threads.  The invariant is proved in layers: Typed, then     *)
(* Refs (what a row or a thread names exists), then one layer for each     *)
(* property, which a step preserves given the layers before it.            *)
(***************************************************************************)
EXTENDS Claims, FiniteSetTheorems, TLAPS

Busy ==
    /\ \A p \in Payers : payer[p].pc # "idle" => payer[p].claim \in ClaimIds
    /\ \A x \in Escalators :
          escalator[x].pc # "idle" => escalator[x].claim \in ClaimIds
    /\ \A p \in Admins : review[p] # NoReview =>
          review[p].escalation \in
            {NoEscalation} \cup {e \in EscalationIds : escalation[e] # NoEscalation}

Typed == TypeOK /\ Busy

-----------------------------------------------------------------------------
LEMMA TypesInit == Init => Typed
  BY ClockAssumption DEF Init, Typed, TypeOK, Busy, IdlePayer, IdleEscalator,
     PayerState, EscalatorState, Statuses, Payers

(* The helpers that write a thread's state or a claim keep their types.    *)
LEMMA PayerType ==
    ASSUME Typed, NEW p \in Payers, NEW c \in ClaimIds \cup {NoClaim},
           NEW t \in TransferIds \cup {NoTransfer},
           NEW pc \in {"idle", "reload", "check", "pay", "link", "block"},
           PayerAt(p, pc, c, t), pc # "idle" => c \in ClaimIds
    PROVE  /\ payer' \in [Payers -> PayerState]
           /\ \A q \in Payers : payer'[q].pc # "idle" => payer'[q].claim \in ClaimIds
  <1>1. [pc |-> pc, claim |-> c, transfer |-> t] \in PayerState
    BY DEF PayerState
  <1> QED
    BY <1>1 DEF PayerAt, Typed, TypeOK, Busy

LEMMA EscalatorType ==
    ASSUME Typed, NEW x \in Escalators, NEW c \in ClaimIds \cup {NoClaim},
           NEW pc \in {"idle", "flag", "insert"}, EscalatorAt(x, pc, c),
           pc # "idle" => c \in ClaimIds
    PROVE  /\ escalator' \in [Escalators -> EscalatorState]
           /\ \A y \in Escalators :
                 escalator'[y].pc # "idle" => escalator'[y].claim \in ClaimIds
  <1>1. [pc |-> pc, claim |-> c] \in EscalatorState
    BY DEF EscalatorState
  <1> QED
    BY <1>1 DEF EscalatorAt, Typed, TypeOK, Busy

LEMMA DemoteType ==
    ASSUME Typed, NEW c \in ClaimIds, NEW st \in Statuses, Demote(c, st)
    PROVE  status' \in [ClaimIds -> Statuses] /\ demoted' \subseteq ClaimIds
  BY DEF Typed, TypeOK, Demote

LEMMA NewRowType ==
    ASSUME Typed, NEW c \in ClaimIds, NEW w \in Workers, NEW k \in Types,
           NEW src \in {"auto", "forced", "manual"}, NEW st \in Statuses,
           NewRow(c, w, k, src, st)
    PROVE  /\ row' \in [ClaimIds -> Row \cup {NoRow}]
           /\ status' \in [ClaimIds -> Statuses]
  <1>1. now \in Nat
    BY ClockAssumption DEF Typed, TypeOK
  <1>2. [worker |-> w, type |-> k, at |-> now, source |-> src] \in Row
    BY <1>1 DEF Row
  <1> QED
    BY <1>2 DEF NewRow, Typed, TypeOK

LEMMA TypesStep == Typed /\ [Next]_vars => Typed'
  <1> SUFFICES ASSUME Typed, [Next]_vars
               PROVE  Typed'
    OBVIOUS
  <1> USE DEF Typed
  <1>1. CASE Tick
    BY <1>1, ClockAssumption DEF Tick, TypeOK, Busy, tables, threads, history
  <1>2. ASSUME NEW s \in Submitters, NEW w \in Workers, SubmitCheck(s, w)
        PROVE  Typed'
    BY <1>2 DEF SubmitCheck, TypeOK, Busy, tables, threads, history
  <1>3. ASSUME NEW s \in Submitters, NEW c \in ClaimIds, NEW k \in Types,
               SubmitInsert(s, c, k)
        PROVE  Typed'
    <2>1. submitter[s] \in Workers
      BY <1>3 DEF SubmitInsert, TypeOK
    <2>2. /\ row' \in [ClaimIds -> Row \cup {NoRow}]
          /\ status' \in [ClaimIds -> Statuses]
      BY <1>3, <2>1, NewRowType DEF SubmitInsert, Statuses
    <2> QED
      BY <1>3, <2>2 DEF SubmitInsert, TypeOK, Busy, history
  <1>4. ASSUME NEW p \in Monitors, NEW w \in Workers, NEW k \in Types,
               NEW h \in BOOLEAN, ScanWorker(p, w, k, h)
        PROVE  Typed'
    <2>1. [worker |-> w, type |-> k, hold |-> h \/ CapReached(w, now)] \in Scan
      BY DEF Scan, CapReached
    <2>2. scan' \in [Autos -> Scan \cup {NoScan}]
      BY <1>4, <2>1 DEF ScanWorker, TypeOK, Autos
    <2> QED
      BY <1>4, <2>2 DEF ScanWorker, TypeOK, Busy, tables, history
  <1>5. ASSUME NEW p \in Forcers, NEW w \in Workers, NEW k \in Types,
               NEW h \in BOOLEAN, ForceWorker(p, w, k, h)
        PROVE  Typed'
    <2>1. [worker |-> w, type |-> k, hold |-> h] \in Scan
      BY DEF Scan
    <2>2. scan' \in [Autos -> Scan \cup {NoScan}]
      BY <1>5, <2>1 DEF ForceWorker, TypeOK, Autos
    <2> QED
      BY <1>5, <2>2 DEF ForceWorker, TypeOK, Busy, tables, history
  <1>6. ASSUME NEW p \in Autos, NEW c \in ClaimIds, InsertClaim(p, c)
        PROVE  Typed'
    <2>1. /\ p \in Payers /\ scan[p] \in Scan
          /\ scan' = [scan EXCEPT ![p] = NoScan]
      BY <1>6 DEF InsertClaim, TypeOK, Payers
    <2>2. scan[p].worker \in Workers /\ scan[p].type \in Types
      BY <2>1 DEF Scan
    <2>3. /\ row' \in [ClaimIds -> Row \cup {NoRow}]
          /\ status' \in [ClaimIds -> Statuses]
      BY <1>6, <2>2, NewRowType DEF InsertClaim, Statuses
    <2>4. /\ payer' \in [Payers -> PayerState]
          /\ \A q \in Payers : payer'[q].pc # "idle" => payer'[q].claim \in ClaimIds
      <3>1. CASE scan[p].hold
        BY <1>6, <3>1 DEF InsertClaim, TypeOK, Busy
      <3>2. CASE ~ scan[p].hold
        BY <1>6, <2>1, <3>2, PayerType DEF InsertClaim
      <3> QED
        BY <3>1, <3>2
    <2> QED
      BY <1>6, <2>1, <2>3, <2>4 DEF InsertClaim, TypeOK, Busy, history
  <1>7. ASSUME NEW p \in Payers, Reload(p)
        PROVE  Typed'
    <2>1. /\ payer[p].claim \in ClaimIds
          /\ payer[p].transfer \in TransferIds \cup {NoTransfer}
      BY <1>7 DEF Reload, TypeOK, Busy, PayerState
    <2>2. /\ payer' \in [Payers -> PayerState]
          /\ \A q \in Payers : payer'[q].pc # "idle" => payer'[q].claim \in ClaimIds
      BY <1>7, <2>1, PayerType DEF Reload
    <2> QED
      BY <1>7, <2>1, <2>2 DEF Reload, TypeOK, Busy, tables, threads, history
  <1>8. ASSUME NEW p \in Payers, CheckPass(p)
        PROVE  Typed'
    <2>1. /\ payer[p].claim \in ClaimIds
          /\ payer[p].transfer \in TransferIds \cup {NoTransfer}
      BY <1>8 DEF CheckPass, TypeOK, Busy, PayerState
    <2>2. /\ payer' \in [Payers -> PayerState]
          /\ \A q \in Payers : payer'[q].pc # "idle" => payer'[q].claim \in ClaimIds
      BY <1>8, <2>1, PayerType DEF CheckPass
    <2> QED
      BY <1>8, <2>1, <2>2 DEF CheckPass, TypeOK, Busy, tables, threads, history
  <1>9. ASSUME NEW p \in Payers, RefuseAccount(p)
        PROVE  Typed'
    <2>1. /\ payer[p].claim \in ClaimIds
          /\ payer[p].transfer \in TransferIds \cup {NoTransfer}
      BY <1>9 DEF RefuseAccount, TypeOK, Busy, PayerState
    <2>2. /\ payer' \in [Payers -> PayerState]
          /\ \A q \in Payers : payer'[q].pc # "idle" => payer'[q].claim \in ClaimIds
      BY <1>9, <2>1, PayerType DEF RefuseAccount
    <2> QED
      BY <1>9, <2>1, <2>2 DEF RefuseAccount, TypeOK, Busy, tables, threads, history
  <1>10. ASSUME NEW p \in Payers, RefuseByCap(p)
        PROVE  Typed'
    <2>1. /\ payer[p].claim \in ClaimIds
          /\ payer[p].transfer \in TransferIds \cup {NoTransfer}
      BY <1>10 DEF RefuseByCap, TypeOK, Busy, PayerState
    <2>2. /\ payer' \in [Payers -> PayerState]
          /\ \A q \in Payers : payer'[q].pc # "idle" => payer'[q].claim \in ClaimIds
      BY <1>10, <2>1, PayerType DEF RefuseByCap
    <2> QED
      BY <1>10, <2>1, <2>2 DEF RefuseByCap, TypeOK, Busy, tables, threads, history
  <1>11. ASSUME NEW p \in Payers, NEW t \in TransferIds, Pay(p, t)
        PROVE  Typed'
    <2>1. /\ payer[p].claim \in ClaimIds
          /\ payer[p].transfer \in TransferIds \cup {NoTransfer}
      BY <1>11 DEF Pay, TypeOK, Busy, PayerState
    <2>2. /\ payer' \in [Payers -> PayerState]
          /\ \A q \in Payers : payer'[q].pc # "idle" => payer'[q].claim \in ClaimIds
      BY <1>11, <2>1, PayerType DEF Pay
    <2> QED
      BY <1>11, <2>1, <2>2 DEF Pay, TypeOK, Busy, tables, threads, history
  <1>12. ASSUME NEW p \in Payers, Link(p)
        PROVE  Typed'
    <2>1. /\ payer[p].claim \in ClaimIds
          /\ payer[p].transfer \in TransferIds \cup {NoTransfer}
      BY <1>12 DEF Link, TypeOK, Busy, PayerState
    <2>2. /\ payer' \in [Payers -> PayerState]
          /\ \A q \in Payers : payer'[q].pc # "idle" => payer'[q].claim \in ClaimIds
      BY <1>12, <2>1, PayerType DEF Link
    <2> QED
      BY <1>12, <2>1, <2>2 DEF Link, TypeOK, Busy, tables, threads, history
  <1>13. ASSUME NEW p \in Payers, Block(p)
        PROVE  Typed'
    <2>1. /\ payer[p].claim \in ClaimIds
          /\ payer[p].transfer \in TransferIds \cup {NoTransfer}
      BY <1>13 DEF Block, TypeOK, Busy, PayerState
    <2>2. /\ payer' \in [Payers -> PayerState]
          /\ \A q \in Payers : payer'[q].pc # "idle" => payer'[q].claim \in ClaimIds
      BY <1>13, <2>1, PayerType DEF Block
    <2>3. status' \in [ClaimIds -> Statuses] /\ demoted' \subseteq ClaimIds
      BY <1>13, <2>1, DemoteType DEF Block, Statuses
    <2> QED
      BY <1>13, <2>2, <2>3 DEF Block, TypeOK, Busy
  <1>14. ASSUME NEW p \in Admins, NEW c \in ClaimIds,
                NEW e \in EscalationIds \cup {NoEscalation}, Approve(p, c, e)
        PROVE  Typed'
    <2>1. status' \in [ClaimIds -> Statuses] /\ overlapped' \subseteq ClaimIds
      BY <1>14 DEF Approve, TypeOK, Statuses
    <2>2. /\ payer' \in [Payers -> PayerState]
          /\ \A q \in Payers : payer'[q].pc # "idle" => payer'[q].claim \in ClaimIds
      BY <1>14, PayerType DEF Approve, Payers
    <2>3. e \in {NoEscalation} \cup {f \in EscalationIds : escalation[f] # NoEscalation}
      BY <1>14 DEF Approve, MayReview, EscalationsOf
    <2>4. /\ review' = [review EXCEPT ![p] = [escalation |-> e, verdict |-> "resolved"]]
          /\ [escalation |-> e, verdict |-> "resolved"] \in Review
      BY <1>14 DEF Approve, Review
    <2> QED
      BY <1>14, <2>1, <2>2, <2>3, <2>4 DEF Approve, TypeOK, Busy
  <1>15. ASSUME NEW p \in Admins, NEW c \in ClaimIds,
                NEW e \in EscalationIds \cup {NoEscalation}, Reject(p, c, e)
        PROVE  Typed'
    <2>1. status' \in [ClaimIds -> Statuses] /\ demoted' \subseteq ClaimIds
      BY <1>15, DemoteType DEF Reject, Statuses
    <2>3. e \in {NoEscalation} \cup {f \in EscalationIds : escalation[f] # NoEscalation}
      BY <1>15 DEF Reject, MayReview, EscalationsOf
    <2>4. /\ review' = [review EXCEPT ![p] = [escalation |-> e, verdict |-> "rejected"]]
          /\ [escalation |-> e, verdict |-> "rejected"] \in Review
      BY <1>15 DEF Reject, Review
    <2> QED
      BY <1>15, <2>1, <2>3, <2>4 DEF Reject, TypeOK, Busy
  <1>16. ASSUME NEW p \in Admins, NEW c \in ClaimIds, Hold(p, c)
        PROVE  Typed'
    <2>1. status' \in [ClaimIds -> Statuses] /\ demoted' \subseteq ClaimIds
      BY <1>16, DemoteType DEF Hold, Statuses
    <2> QED
      BY <1>16, <2>1 DEF Hold, TypeOK, Busy, threads
  <1>17. ASSUME NEW p \in Admins, Close(p)
        PROVE  Typed'
    <2>1. /\ review[p] \in Review
          /\ \/ review[p].escalation = NoEscalation
             \/ /\ review[p].escalation \in EscalationIds
                /\ escalation[review[p].escalation] \in Escalation
      BY <1>17 DEF Close, TypeOK, Busy
    <2>2. review[p].escalation # NoEscalation =>
            [claim |-> escalation[review[p].escalation].claim,
             status |-> review[p].verdict] \in Escalation
      BY <2>1 DEF Review, Escalation
    <2>3. /\ escalation' \in [EscalationIds -> Escalation \cup {NoEscalation}]
          /\ \A e \in EscalationIds :
                escalation[e] # NoEscalation => escalation'[e] # NoEscalation
      BY <1>17, <2>2, NullsAssumption DEF Close, TypeOK
    <2>4. /\ review' \in [Admins -> Review \cup {NoReview}]
          /\ \A q \in Admins : review'[q] \in {NoReview, review[q]}
          /\ UNCHANGED <<now, row, status, linked, transfer, scan, payer,
                        submitter, escalator, history>>
      BY <1>17 DEF Close, TypeOK
    <2> QED
      BY <2>3, <2>4 DEF TypeOK, Busy, history
  <1>18. ASSUME NEW x \in Escalators, NEW c \in ClaimIds, EscalateCheck(x, c)
        PROVE  Typed'
    <2>1. /\ escalator' \in [Escalators -> EscalatorState]
          /\ \A y \in Escalators :
                escalator'[y].pc # "idle" => escalator'[y].claim \in ClaimIds
      BY <1>18, EscalatorType DEF EscalateCheck
    <2> QED
      BY <1>18, <2>1 DEF EscalateCheck, TypeOK, Busy, tables, history
  <1>19. ASSUME NEW x \in Escalators, EscalateFlag(x)
        PROVE  Typed'
    <2>1. escalator[x].claim \in ClaimIds
      BY <1>19 DEF EscalateFlag, Busy
    <2>2. /\ escalator' \in [Escalators -> EscalatorState]
          /\ \A y \in Escalators :
                escalator'[y].pc # "idle" => escalator'[y].claim \in ClaimIds
      BY <1>19, <2>1, EscalatorType DEF EscalateFlag
    <2>3. status' \in [ClaimIds -> Statuses] /\ demoted' \subseteq ClaimIds
      BY <1>19, <2>1, DemoteType DEF EscalateFlag, Statuses
    <2> QED
      BY <1>19, <2>2, <2>3 DEF EscalateFlag, TypeOK, Busy
  <1>20. ASSUME NEW x \in Escalators, NEW e \in EscalationIds,
                EscalateInsert(x, e)
        PROVE  Typed'
    <2>1. escalator[x].claim \in ClaimIds
      BY <1>20 DEF EscalateInsert, Busy
    <2>2. /\ escalator' \in [Escalators -> EscalatorState]
          /\ \A y \in Escalators :
                escalator'[y].pc # "idle" => escalator'[y].claim \in ClaimIds
      BY <1>20, EscalatorType DEF EscalateInsert
    <2>3. [claim |-> escalator[x].claim, status |-> "pending_review"] \in Escalation
      BY <2>1 DEF Escalation
    <2>4. /\ escalation' \in [EscalationIds -> Escalation \cup {NoEscalation}]
          /\ \A f \in EscalationIds :
                escalation[f] # NoEscalation => escalation'[f] # NoEscalation
      BY <1>20, <2>3, NullsAssumption DEF EscalateInsert, TypeOK
    <2>5. UNCHANGED <<now, row, status, linked, transfer, scan, payer, review,
                      submitter, history>>
      BY <1>20 DEF EscalateInsert
    <2> QED
      BY <2>2, <2>4, <2>5 DEF TypeOK, Busy, history
  <1>21. ASSUME NEW p \in Payers, CrashPayer(p)
        PROVE  Typed'
    <2>1. /\ payer[p].claim \in ClaimIds
          /\ payer[p].transfer \in TransferIds \cup {NoTransfer}
      BY <1>21 DEF CrashPayer, TypeOK, Busy, PayerState
    <2>2. /\ payer' \in [Payers -> PayerState]
          /\ \A q \in Payers : payer'[q].pc # "idle" => payer'[q].claim \in ClaimIds
      BY <1>21, PayerType DEF CrashPayer
    <2>3. /\ review' \in [Admins -> Review \cup {NoReview}]
          /\ \A q \in Admins : review'[q] \in {NoReview, review[q]}
      BY <1>21 DEF CrashPayer, TypeOK
    <2> QED
      BY <1>21, <2>1, <2>2, <2>3 DEF CrashPayer, TypeOK, Busy, tables
  <1>22. ASSUME NEW p \in Autos, CrashScan(p)
        PROVE  Typed'
    BY <1>22 DEF CrashScan, TypeOK, Busy, tables, threads, history
  <1>23. ASSUME NEW p \in Admins, CrashReview(p)
        PROVE  Typed'
    BY <1>23 DEF CrashReview, TypeOK, Busy, tables, threads, history
  <1>24. ASSUME NEW x \in Escalators, CrashEscalator(x)
        PROVE  Typed'
    <2>1. escalator[x].claim \in ClaimIds
      BY <1>24 DEF CrashEscalator, Busy
    <2>2. /\ escalator' \in [Escalators -> EscalatorState]
          /\ \A y \in Escalators :
                escalator'[y].pc # "idle" => escalator'[y].claim \in ClaimIds
      BY <1>24, EscalatorType DEF CrashEscalator
    <2> QED
      BY <1>24, <2>1, <2>2 DEF CrashEscalator, TypeOK, Busy, tables
  <1>25. CASE UNCHANGED vars
    BY <1>25 DEF vars, TypeOK, Busy, tables, threads, history
  <1> QED
    BY <1>1, <1>2, <1>3, <1>4, <1>5, <1>6, <1>7, <1>8, <1>9, <1>10, <1>11,
       <1>12, <1>13, <1>14, <1>15, <1>16, <1>17, <1>18, <1>19, <1>20, <1>21,
       <1>22, <1>23, <1>24, <1>25
       DEF Next, MonitorStep, ForcerStep, PayoutStep, AdminStep, SubmitterStep,
           EscalatorStep, Autos, Payers

-----------------------------------------------------------------------------
(***************************************************************************)
(* Refs: what a row or a thread names exists.                              *)
(***************************************************************************)
Refs ==
    /\ \A c \in ClaimIds : Exists(c) => row[c].at <= now
    /\ \A p \in Payers : payer[p].pc # "idle" => Exists(payer[p].claim)
    /\ \A p \in Payers : payer[p].pc = "link" =>
          /\ payer[p].transfer \in TransferIds
          /\ transfer[payer[p].transfer] = payer[p].claim
    /\ \A p \in Autos : scan[p] # NoScan => payer[p].pc = "idle"
    /\ \A x \in Escalators : escalator[x].pc # "idle" => Exists(escalator[x].claim)
    /\ \A t \in TransferIds : transfer[t] # NoClaim => Exists(transfer[t])
    /\ \A e \in EscalationIds :
          escalation[e] # NoEscalation => Exists(escalation[e].claim)

LEMMA RefsInit == Init => Refs
  BY DEF Init, Refs, Exists, IdlePayer, IdleEscalator, Autos

(* A new row disturbs nothing that Refs says of the rows there are.        *)
LEMMA NewRowKeeps ==
    ASSUME Typed, NEW c \in ClaimIds, NEW w \in Workers, NEW k \in Types,
           NEW src \in {"auto", "forced", "manual"}, NEW st \in Statuses,
           NewRow(c, w, k, src, st)
    PROVE  /\ ~ Exists(c) /\ Exists(c)'
           /\ row'[c].worker = w /\ row'[c].type = k
           /\ row'[c].at = now /\ row'[c].source = src
           /\ \A d \in ClaimIds : d # c => row'[d] = row[d]
  <1>1. now \in Nat
    BY ClockAssumption DEF Typed, TypeOK
  <1>2. [worker |-> w, type |-> k, at |-> now, source |-> src] \in Row
    BY <1>1 DEF Row
  <1> QED
    BY <1>2, NullsAssumption DEF NewRow, Exists, Typed, TypeOK

LEMMA RefsStep == Typed /\ Typed' /\ Refs /\ [Next]_vars => Refs'
  <1> SUFFICES ASSUME Typed, Typed', Refs, [Next]_vars
               PROVE  Refs'
    OBVIOUS
  <1> USE DEF Refs
  <1>0. now \in Nat /\ \A c \in ClaimIds : Exists(c) => row[c].at \in Nat
    BY ClockAssumption DEF Typed, TypeOK, Exists, Row
  <1>1. CASE Tick
    BY <1>1, <1>0 DEF Tick, Exists, tables, threads
  <1>2. ASSUME NEW s \in Submitters, NEW w \in Workers, SubmitCheck(s, w)
        PROVE  Refs'
    BY <1>2 DEF SubmitCheck, Exists, tables, Typed, TypeOK
  <1>3. ASSUME NEW s \in Submitters, NEW c \in ClaimIds, NEW k \in Types,
               SubmitInsert(s, c, k)
        PROVE  Refs'
    <2>1. submitter[s] \in Workers
      BY <1>3 DEF SubmitInsert, Typed, TypeOK
    <2>2. /\ ~ Exists(c) /\ Exists(c)' /\ row'[c].at = now
          /\ \A d \in ClaimIds : d # c => row'[d] = row[d]
      BY <1>3, <2>1, NewRowKeeps DEF SubmitInsert, Statuses
    <2>3. UNCHANGED <<now, transfer, escalation, payer, escalator, scan>>
      BY <1>3 DEF SubmitInsert
    <2>4. \A d \in ClaimIds : Exists(d) => Exists(d)'
      BY <2>2 DEF Exists
    <2> QED
      <3>1. \A d \in ClaimIds : Exists(d)' => row'[d].at <= now'
        BY <2>2, <2>3, <1>0 DEF Exists
      <3> QED
        BY <2>3, <2>4, <3>1 DEF Typed, TypeOK, Busy, Escalation
  <1>4. ASSUME NEW p \in Monitors, NEW w \in Workers, NEW k \in Types,
               NEW h \in BOOLEAN, ScanWorker(p, w, k, h)
        PROVE  Refs'
    BY <1>4 DEF ScanWorker, Exists, tables, Typed, TypeOK
  <1>5. ASSUME NEW p \in Forcers, NEW w \in Workers, NEW k \in Types,
               NEW h \in BOOLEAN, ForceWorker(p, w, k, h)
        PROVE  Refs'
    BY <1>5 DEF ForceWorker, Exists, tables, Typed, TypeOK
  <1>6. ASSUME NEW p \in Autos, NEW c \in ClaimIds, InsertClaim(p, c)
        PROVE  Refs'
    <2>1. /\ p \in Payers /\ scan[p] \in Scan
      BY <1>6 DEF InsertClaim, Typed, TypeOK, Payers
    <2>2. scan[p].worker \in Workers /\ scan[p].type \in Types
      BY <2>1 DEF Scan
    <2>3. /\ ~ Exists(c) /\ Exists(c)' /\ row'[c].at = now
          /\ \A d \in ClaimIds : d # c => row'[d] = row[d]
      BY <1>6, <2>2, NewRowKeeps DEF InsertClaim, Statuses
    <2>4. /\ UNCHANGED <<now, transfer, escalation, escalator>>
          /\ \/ payer' = payer
             \/ payer' = [payer EXCEPT ![p] = [pc |-> "check", claim |-> c,
                                              transfer |-> NoTransfer]]
      BY <1>6 DEF InsertClaim, PayerAt
    <2>5. \A d \in ClaimIds : Exists(d) => Exists(d)'
      BY <2>3 DEF Exists
    <2>6. \A d \in ClaimIds : Exists(d)' => row'[d].at <= now'
      BY <2>3, <2>4, <1>0 DEF Exists
    <2>7. \A q \in Payers :
             /\ payer'[q].pc # "idle" => row'[payer'[q].claim] # NoRow
             /\ payer'[q].pc = "link" => payer'[q] = payer[q]
      BY <2>1, <2>3, <2>4, <2>5 DEF Typed, TypeOK, Busy, Exists
    <2>8. \A x \in Escalators :
             escalator[x].pc # "idle" => Exists(escalator[x].claim)'
      BY <2>4, <2>5 DEF Typed, Busy, Exists
    <2>9. \A t \in TransferIds : transfer[t] # NoClaim => Exists(transfer[t])'
      BY <2>4, <2>5 DEF Typed, TypeOK, Exists
    <2>10. \A e \in EscalationIds :
              escalation[e] # NoEscalation => Exists(escalation[e].claim)'
      BY <2>4, <2>5 DEF Typed, TypeOK, Escalation, Exists
    <2>11. \A q \in Autos : scan'[q] # NoScan => payer'[q].pc = "idle"
      BY <1>6, <2>1, <2>4 DEF InsertClaim, Typed, TypeOK, Payers
    <2> QED
      BY <2>4, <2>6, <2>7, <2>8, <2>9, <2>10, <2>11 DEF Exists
  <1>7. ASSUME NEW p \in Payers, Reload(p)
        PROVE  Refs'
    <2>1. /\ UNCHANGED <<now, row, transfer, escalation, scan, escalator>>
          /\ payer[p].pc = "reload"
          /\ \/ payer' = [payer EXCEPT ![p] =
                    [pc |-> "idle", claim |-> NoClaim, transfer |-> NoTransfer]]
             \/ payer' = [payer EXCEPT ![p] =
                    [pc |-> "check", claim |-> payer[p].claim,
                     transfer |-> NoTransfer]]
      BY <1>7 DEF Reload, PayerAt, tables
    <2>2. \A q \in Payers :
             /\ q # p => payer'[q] = payer[q]
             /\ q = p => \/ payer'[q].pc = "idle"
                         \/ /\ payer'[q].pc = "check"
                            /\ payer'[q].claim = payer[p].claim
      BY <2>1 DEF Typed, TypeOK
    <2> QED
      BY <2>1, <2>2 DEF Exists, Payers
  <1>8. ASSUME NEW p \in Payers, CheckPass(p)
        PROVE  Refs'
    BY <1>8, NullsAssumption, ThreadAssumption DEF CheckPass, PayerAt, Exists, tables,
       Typed, TypeOK, Busy, Autos
  <1>9. ASSUME NEW p \in Payers, RefuseAccount(p)
        PROVE  Refs'
    BY <1>9, NullsAssumption, ThreadAssumption DEF RefuseAccount, PayerAt, Exists, tables,
       Typed, TypeOK, Busy, Autos
  <1>10. ASSUME NEW p \in Payers, RefuseByCap(p)
        PROVE  Refs'
    BY <1>10, NullsAssumption, ThreadAssumption DEF RefuseByCap, PayerAt, Exists, tables,
       Typed, TypeOK, Busy, Autos
  <1>11. ASSUME NEW p \in Payers, NEW t \in TransferIds, Pay(p, t)
        PROVE  Refs'
    BY <1>11, NullsAssumption, ThreadAssumption DEF Pay, PayerAt, Exists, tables,
       Typed, TypeOK, Busy, Autos
  <1>12. ASSUME NEW p \in Payers, Link(p)
        PROVE  Refs'
    BY <1>12, NullsAssumption, ThreadAssumption DEF Link, PayerAt, Exists, tables,
       Typed, TypeOK, Busy, Autos
  <1>13. ASSUME NEW p \in Payers, Block(p)
        PROVE  Refs'
    BY <1>13, NullsAssumption, ThreadAssumption DEF Block, Demote, PayerAt, Exists, tables,
       Typed, TypeOK, Busy, Autos
  <1>14. ASSUME NEW p \in Admins, NEW c \in ClaimIds,
                NEW e \in EscalationIds \cup {NoEscalation}, Approve(p, c, e)
        PROVE  Refs'
    BY <1>14, NullsAssumption, ThreadAssumption DEF Approve, MayReview, Payers, PayerAt, Exists, tables,
       Typed, TypeOK, Busy, Autos
  <1>15. ASSUME NEW p \in Admins, NEW c \in ClaimIds,
                NEW e \in EscalationIds \cup {NoEscalation}, Reject(p, c, e)
        PROVE  Refs'
    BY <1>15 DEF Reject, Exists, threads
  <1>16. ASSUME NEW p \in Admins, NEW c \in ClaimIds, Hold(p, c)
        PROVE  Refs'
    BY <1>16 DEF Hold, Exists, threads
  <1>17. ASSUME NEW p \in Admins, Close(p)
        PROVE  Refs'
    <2>1. \A e \in EscalationIds : escalation'[e] # NoEscalation =>
             /\ escalation[e] # NoEscalation
             /\ escalation'[e].claim = escalation[e].claim
      BY <1>17 DEF Close, Typed, TypeOK, Busy
    <2>2. UNCHANGED <<now, row, transfer, payer, escalator, scan>>
      BY <1>17 DEF Close
    <2> QED
      BY <2>1, <2>2 DEF Exists
  <1>18. ASSUME NEW x \in Escalators, NEW c \in ClaimIds, EscalateCheck(x, c)
        PROVE  Refs'
    BY <1>18 DEF EscalateCheck, EscalatorAt, Exists, tables, Typed, TypeOK, Busy
  <1>19. ASSUME NEW x \in Escalators, EscalateFlag(x)
        PROVE  Refs'
    BY <1>19 DEF EscalateFlag, EscalatorAt, Exists, tables, Typed, TypeOK, Busy
  <1>20. ASSUME NEW x \in Escalators, NEW e \in EscalationIds,
                EscalateInsert(x, e)
        PROVE  Refs'
    BY <1>20 DEF EscalateInsert, EscalatorAt, Exists, Typed, TypeOK, Busy
  <1>21. ASSUME NEW p \in Payers, CrashPayer(p)
        PROVE  Refs'
    BY <1>21, NullsAssumption, ThreadAssumption DEF CrashPayer, PayerAt, Exists, tables,
       Typed, TypeOK, Busy, Autos
  <1>22. ASSUME NEW p \in Autos, CrashScan(p)
        PROVE  Refs'
    BY <1>22 DEF CrashScan, Exists, tables, Typed, TypeOK
  <1>23. ASSUME NEW p \in Admins, CrashReview(p)
        PROVE  Refs'
    BY <1>23 DEF CrashReview, Exists, tables, Typed, TypeOK
  <1>24. ASSUME NEW x \in Escalators, CrashEscalator(x)
        PROVE  Refs'
    BY <1>24 DEF CrashEscalator, EscalatorAt, Exists, tables, Typed, TypeOK, Busy
  <1>25. CASE UNCHANGED vars
    BY <1>25 DEF vars, tables, threads, Exists
  <1> QED
    BY <1>1, <1>2, <1>3, <1>4, <1>5, <1>6, <1>7, <1>8, <1>9, <1>10, <1>11,
       <1>12, <1>13, <1>14, <1>15, <1>16, <1>17, <1>18, <1>19, <1>20, <1>21,
       <1>22, <1>23, <1>24, <1>25
       DEF Next, MonitorStep, ForcerStep, PayoutStep, AdminStep, SubmitterStep,
           EscalatorStep, Autos, Payers

-----------------------------------------------------------------------------
(***************************************************************************)
(* OnePayout: outside the overlapped claims at most one payout is at work, *)
(* it has not found a transfer, and a transfer that is not linked yet is   *)
(* in that payout's hands.                                                 *)
(***************************************************************************)
InPayout(p, c) ==
    payer[p].pc \in {"reload", "check", "pay", "link"} /\ payer[p].claim = c

OnePayout == \A c \in ClaimIds \ overlapped :
    /\ \A p, q \in Payers : InPayout(p, c) /\ InPayout(q, c) => p = q
    /\ \A p \in Payers :
          payer[p].pc \in {"check", "pay"} /\ payer[p].claim = c => ~ Paid(c)
    /\ Paid(c) => \/ linked[c] # NoTransfer
                  \/ \E p \in Payers : payer[p].pc = "link" /\ payer[p].claim = c

LEMMA OnePayoutInit == Init => OnePayout /\ PaidOnce
  BY NullsAssumption DEF Init, OnePayout, PaidOnce, InPayout, Paid, IdlePayer

LEMMA OnePayoutStep ==
    Typed /\ Refs /\ OnePayout /\ PaidOnce /\ [Next]_vars => OnePayout' /\ PaidOnce'
  <1> DEFINE Goal == OnePayout /\ PaidOnce
  <1> SUFFICES ASSUME Typed, Refs, Goal, [Next]_vars
               PROVE  Goal'
    OBVIOUS
  <1> USE DEF OnePayout, PaidOnce, InPayout, Paid
  <1>1. CASE Tick
    BY <1>1 DEF Tick, tables, threads, history
  <1>2. ASSUME NEW s \in Submitters, NEW w \in Workers, SubmitCheck(s, w)
        PROVE  Goal'
    BY <1>2 DEF SubmitCheck, tables, threads, history
  <1>3. ASSUME NEW s \in Submitters, NEW c \in ClaimIds, NEW k \in Types,
               SubmitInsert(s, c, k)
        PROVE  Goal'
    BY <1>3 DEF SubmitInsert, tables, threads, history
  <1>4. ASSUME NEW p \in Monitors, NEW w \in Workers, NEW k \in Types,
               NEW h \in BOOLEAN, ScanWorker(p, w, k, h)
        PROVE  Goal'
    BY <1>4 DEF ScanWorker, tables, threads, history
  <1>5. ASSUME NEW p \in Forcers, NEW w \in Workers, NEW k \in Types,
               NEW h \in BOOLEAN, ForceWorker(p, w, k, h)
        PROVE  Goal'
    BY <1>5 DEF ForceWorker, tables, threads, history
  <1>6. ASSUME NEW p \in Autos, NEW c \in ClaimIds, InsertClaim(p, c)
        PROVE  Goal'
    <2>1. /\ p \in Payers /\ ~ Exists(c)
          /\ \/ payer' = payer
             \/ payer' = [payer EXCEPT ![p] = [pc |-> "check", claim |-> c,
                                              transfer |-> NoTransfer]]
          /\ UNCHANGED <<transfer, linked, overlapped>>
      BY <1>6 DEF InsertClaim, NewRow, PayerAt, Payers, Exists, history
    <2>2. ~ Paid(c) /\ \A q \in Payers : payer[q].pc # "idle" => payer[q].claim # c
      BY <2>1, NullsAssumption DEF Refs
    <2>3. payer[p].pc = "idle"
      BY <1>6 DEF InsertClaim, Refs
    <2> QED
      <3> USE DEF Typed, TypeOK
      <3>1. PaidOnce'
        BY <2>1
      <3>2. OnePayout'
        <4> SUFFICES ASSUME NEW d \in ClaimIds \ overlapped
                     PROVE  /\ \A q, r \in Payers :
                                  InPayout(q, d)' /\ InPayout(r, d)' => q = r
                            /\ \A q \in Payers :
                                  /\ payer'[q].pc \in {"check", "pay"}
                                  /\ payer'[q].claim = d
                                  => ~ Paid(d)
                            /\ Paid(d) =>
                                 \/ linked[d] # NoTransfer
                                 \/ \E q \in Payers :
                                      payer'[q].pc = "link" /\ payer'[q].claim = d
          BY <2>1
        <4>1. CASE d = c
          BY <2>1, <2>2, <2>3, <4>1
        <4>2. CASE d # c
          <5>1. \A q \in Payers :
                   payer'[q] # payer[q] =>
                     payer'[q].claim = c /\ payer'[q].pc = "check"
            BY <2>1
          <5>2. \A q \in Payers : payer[q].pc = "link" => payer'[q] = payer[q]
            BY <2>1, <2>3
          <5> QED
            BY <4>2, <5>1, <5>2
        <4> QED
          BY <4>1, <4>2
      <3> QED
        BY <3>1, <3>2
  <1>7. ASSUME NEW p \in Payers, Reload(p)
        PROVE  Goal'
    BY <1>7, NullsAssumption DEF Reload, PayerAt, tables, history, Typed, TypeOK, Busy
  <1>8. ASSUME NEW p \in Payers, CheckPass(p)
        PROVE  Goal'
    BY <1>8, NullsAssumption DEF CheckPass, PayerAt, tables, history, Typed, TypeOK, Busy
  <1>9. ASSUME NEW p \in Payers, RefuseAccount(p)
        PROVE  Goal'
    BY <1>9, NullsAssumption DEF RefuseAccount, PayerAt, tables, history, Typed, TypeOK, Busy
  <1>10. ASSUME NEW p \in Payers, RefuseByCap(p)
        PROVE  Goal'
    BY <1>10, NullsAssumption DEF RefuseByCap, PayerAt, tables, history, Typed, TypeOK, Busy
  <1>11. ASSUME NEW p \in Payers, NEW t \in TransferIds, Pay(p, t)
        PROVE  Goal'
    <2>1. /\ payer[p].claim \in ClaimIds /\ InPayout(p, payer[p].claim)
          /\ payer' = [payer EXCEPT ![p] =
                 [pc |-> "link", claim |-> payer[p].claim, transfer |-> t]]
          /\ transfer' = [transfer EXCEPT ![t] = payer[p].claim]
          /\ transfer[t] = NoClaim
          /\ UNCHANGED <<linked, overlapped>>
      BY <1>11 DEF Pay, PayerAt, history, Typed, Busy
    <2>2. payer[p].claim \notin overlapped => ~ Paid(payer[p].claim)
      BY <1>11 DEF Pay, Typed, Busy
    <2>3. \A d \in ClaimIds : d # payer[p].claim =>
             \A u \in TransferIds : transfer'[u] = d <=> transfer[u] = d
      BY <2>1, NullsAssumption DEF Typed, TypeOK
    <2>4. PaidOnce'
      BY <2>1, <2>2, <2>3 DEF Typed, TypeOK
    <2>5. ASSUME NEW d \in ClaimIds \ overlapped
          PROVE  /\ \A q, r \in Payers : InPayout(q, d)' /\ InPayout(r, d)' => q = r
                 /\ \A q \in Payers :
                       payer'[q].pc \in {"check", "pay"} /\ payer'[q].claim = d => ~ Paid(d)'
                 /\ Paid(d)' =>
                      \/ linked[d] # NoTransfer
                      \/ \E q \in Payers : payer'[q].pc = "link" /\ payer'[q].claim = d
      <3>1. \A q, r \in Payers : InPayout(q, d)' /\ InPayout(r, d)' => q = r
        BY <2>1 DEF Typed, TypeOK
      <3>2. CASE d = payer[p].claim
        BY <2>1, <3>1, <3>2 DEF Typed, TypeOK
      <3>3. CASE d # payer[p].claim
        BY <2>1, <2>3, <3>1, <3>3 DEF Typed, TypeOK
      <3> QED
        BY <3>2, <3>3
    <2> QED
      BY <2>1, <2>4, <2>5
  <1>12. ASSUME NEW p \in Payers, Link(p)
        PROVE  Goal'
    <2>1. /\ payer[p].claim \in ClaimIds /\ payer[p].transfer # NoTransfer
          /\ payer' = [payer EXCEPT ![p] =
                 [pc |-> "idle", claim |-> NoClaim, transfer |-> NoTransfer]]
          /\ linked' = [linked EXCEPT ![payer[p].claim] = payer[p].transfer]
          /\ UNCHANGED <<transfer, overlapped>>
      BY <1>12, NullsAssumption DEF Link, PayerAt, history, Refs, Typed, Busy
    <2> QED
      BY <2>1 DEF Typed, TypeOK
  <1>13. ASSUME NEW p \in Payers, Block(p)
        PROVE  Goal'
    BY <1>13, NullsAssumption DEF Block, PayerAt, tables, history, Typed, TypeOK, Busy
  <1>14. ASSUME NEW p \in Admins, NEW c \in ClaimIds,
                NEW e \in EscalationIds \cup {NoEscalation}, Approve(p, c, e)
        PROVE  Goal'
    <2>1. /\ p \in Payers /\ payer[p].pc = "idle"
          /\ payer' = [payer EXCEPT ![p] =
                 [pc |-> "reload", claim |-> c, transfer |-> NoTransfer]]
          /\ overlapped' = IF Paying(c) THEN overlapped \cup {c} ELSE overlapped
          /\ UNCHANGED <<transfer, linked>>
      BY <1>14 DEF Approve, MayReview, PayerAt, Payers
    <2>2. c \notin overlapped' => \A q \in Payers : ~ InPayout(q, c)
      BY <2>1 DEF Paying
    <2>3. overlapped \subseteq overlapped'
      BY <2>1
    <2> QED
      BY <2>1, <2>2, <2>3 DEF Typed, TypeOK
  <1>15. ASSUME NEW p \in Admins, NEW c \in ClaimIds,
                NEW e \in EscalationIds \cup {NoEscalation}, Reject(p, c, e)
        PROVE  Goal'
    BY <1>15 DEF Reject
  <1>16. ASSUME NEW p \in Admins, NEW c \in ClaimIds, Hold(p, c)
        PROVE  Goal'
    BY <1>16 DEF Hold, tables, threads, history
  <1>17. ASSUME NEW p \in Admins, Close(p)
        PROVE  Goal'
    BY <1>17 DEF Close, tables, threads, history
  <1>18. ASSUME NEW x \in Escalators, NEW c \in ClaimIds, EscalateCheck(x, c)
        PROVE  Goal'
    BY <1>18 DEF EscalateCheck, tables, threads, history
  <1>19. ASSUME NEW x \in Escalators, EscalateFlag(x)
        PROVE  Goal'
    BY <1>19 DEF EscalateFlag, tables, threads, history
  <1>20. ASSUME NEW x \in Escalators, NEW e \in EscalationIds,
                EscalateInsert(x, e)
        PROVE  Goal'
    BY <1>20 DEF EscalateInsert, tables, threads, history
  <1>21. ASSUME NEW p \in Payers, CrashPayer(p)
        PROVE  Goal'
    BY <1>21, NullsAssumption DEF CrashPayer, PayerAt, tables, Typed, TypeOK, Busy
  <1>22. ASSUME NEW p \in Autos, CrashScan(p)
        PROVE  Goal'
    BY <1>22 DEF CrashScan, tables, threads, history
  <1>23. ASSUME NEW p \in Admins, CrashReview(p)
        PROVE  Goal'
    BY <1>23 DEF CrashReview, tables, threads, history
  <1>24. ASSUME NEW x \in Escalators, CrashEscalator(x)
        PROVE  Goal'
    BY <1>24 DEF CrashEscalator, tables, threads, history
  <1>25. CASE UNCHANGED vars
    BY <1>25 DEF vars, tables, threads, history
  <1> QED
    BY <1>1, <1>2, <1>3, <1>4, <1>5, <1>6, <1>7, <1>8, <1>9, <1>10, <1>11,
       <1>12, <1>13, <1>14, <1>15, <1>16, <1>17, <1>18, <1>19, <1>20, <1>21,
       <1>22, <1>23, <1>24, <1>25
       DEF Next, MonitorStep, ForcerStep, PayoutStep, AdminStep, SubmitterStep,
           EscalatorStep, Autos, Payers

-----------------------------------------------------------------------------
(***************************************************************************)
(* SettledIsBacked is inductive as it stands.                              *)
(***************************************************************************)
LEMMA BackedInit == Init => SettledIsBacked
  BY DEF Init, SettledIsBacked

LEMMA BackedStep ==
    Typed /\ Refs /\ SettledIsBacked /\ [Next]_vars => SettledIsBacked'
  <1> SUFFICES ASSUME Typed, Refs, SettledIsBacked, [Next]_vars
               PROVE  SettledIsBacked'
    OBVIOUS
  <1> USE DEF SettledIsBacked
  <1>1. CASE Tick
    BY <1>1 DEF Tick, tables, threads, history
  <1>2. ASSUME NEW s \in Submitters, NEW w \in Workers, SubmitCheck(s, w)
        PROVE  SettledIsBacked'
    BY <1>2 DEF SubmitCheck, tables, threads, history
  <1>3. ASSUME NEW s \in Submitters, NEW c \in ClaimIds, NEW k \in Types,
               SubmitInsert(s, c, k)
        PROVE  SettledIsBacked'
    BY <1>3 DEF SubmitInsert, NewRow, history, Typed, TypeOK
  <1>4. ASSUME NEW p \in Monitors, NEW w \in Workers, NEW k \in Types,
               NEW h \in BOOLEAN, ScanWorker(p, w, k, h)
        PROVE  SettledIsBacked'
    BY <1>4 DEF ScanWorker, tables, threads, history
  <1>5. ASSUME NEW p \in Forcers, NEW w \in Workers, NEW k \in Types,
               NEW h \in BOOLEAN, ForceWorker(p, w, k, h)
        PROVE  SettledIsBacked'
    BY <1>5 DEF ForceWorker, tables, threads, history
  <1>6. ASSUME NEW p \in Autos, NEW c \in ClaimIds, InsertClaim(p, c)
        PROVE  SettledIsBacked'
    <2>1. /\ p \in Payers /\ payer[p].pc = "idle"
          /\ status' = [status EXCEPT ![c] =
                 IF scan[p].hold THEN "in_review" ELSE "settled"]
          /\ IF scan[p].hold THEN payer' = payer
             ELSE payer' = [payer EXCEPT ![p] =
                 [pc |-> "check", claim |-> c, transfer |-> NoTransfer]]
          /\ UNCHANGED <<linked, abandoned>>
      BY <1>6 DEF InsertClaim, NewRow, PayerAt, Refs, Payers, history
    <2> QED
      BY <2>1 DEF Typed, TypeOK
  <1>7. ASSUME NEW p \in Payers, Reload(p)
        PROVE  SettledIsBacked'
    BY <1>7, NullsAssumption DEF Reload, PayerAt, tables, history, Typed, TypeOK, Busy,
       PayerState
  <1>8. ASSUME NEW p \in Payers, CheckPass(p)
        PROVE  SettledIsBacked'
    BY <1>8, NullsAssumption DEF CheckPass, PayerAt, tables, history, Typed, TypeOK, Busy,
       PayerState
  <1>9. ASSUME NEW p \in Payers, RefuseAccount(p)
        PROVE  SettledIsBacked'
    BY <1>9, NullsAssumption DEF RefuseAccount, PayerAt, tables, history, Typed, TypeOK, Busy,
       PayerState
  <1>10. ASSUME NEW p \in Payers, RefuseByCap(p)
        PROVE  SettledIsBacked'
    BY <1>10, NullsAssumption DEF RefuseByCap, PayerAt, tables, history, Typed, TypeOK, Busy,
       PayerState
  <1>11. ASSUME NEW p \in Payers, NEW t \in TransferIds, Pay(p, t)
        PROVE  SettledIsBacked'
    BY <1>11, NullsAssumption DEF Pay, PayerAt, tables, history, Typed, TypeOK, Busy,
       PayerState
  <1>12. ASSUME NEW p \in Payers, Link(p)
        PROVE  SettledIsBacked'
    <2>1. /\ payer[p].claim \in ClaimIds /\ payer[p].transfer # NoTransfer
          /\ payer' = [payer EXCEPT ![p] =
                 [pc |-> "idle", claim |-> NoClaim, transfer |-> NoTransfer]]
          /\ linked' = [linked EXCEPT ![payer[p].claim] = payer[p].transfer]
          /\ UNCHANGED <<status, abandoned>>
      BY <1>12, NullsAssumption DEF Link, PayerAt, history, Refs, Typed, Busy
    <2> QED
      BY <2>1 DEF Typed, TypeOK
  <1>13. ASSUME NEW p \in Payers, Block(p)
        PROVE  SettledIsBacked'
    BY <1>13 DEF Block, Demote, PayerAt, Typed, TypeOK, Busy
  <1>14. ASSUME NEW p \in Admins, NEW c \in ClaimIds,
                NEW e \in EscalationIds \cup {NoEscalation}, Approve(p, c, e)
        PROVE  SettledIsBacked'
    BY <1>14 DEF Approve, MayReview, PayerAt, Payers, Typed, TypeOK
  <1>15. ASSUME NEW p \in Admins, NEW c \in ClaimIds,
                NEW e \in EscalationIds \cup {NoEscalation}, Reject(p, c, e)
        PROVE  SettledIsBacked'
    BY <1>15 DEF Reject, Demote, threads, Typed, TypeOK
  <1>16. ASSUME NEW p \in Admins, NEW c \in ClaimIds, Hold(p, c)
        PROVE  SettledIsBacked'
    BY <1>16 DEF Hold, Demote, threads, Typed, TypeOK
  <1>17. ASSUME NEW p \in Admins, Close(p)
        PROVE  SettledIsBacked'
    BY <1>17 DEF Close, tables, threads, history
  <1>18. ASSUME NEW x \in Escalators, NEW c \in ClaimIds, EscalateCheck(x, c)
        PROVE  SettledIsBacked'
    BY <1>18 DEF EscalateCheck, tables, threads, history
  <1>19. ASSUME NEW x \in Escalators, EscalateFlag(x)
        PROVE  SettledIsBacked'
    BY <1>19 DEF EscalateFlag, Demote, threads, Typed, TypeOK
  <1>20. ASSUME NEW x \in Escalators, NEW e \in EscalationIds,
                EscalateInsert(x, e)
        PROVE  SettledIsBacked'
    BY <1>20 DEF EscalateInsert, tables, threads, history
  <1>21. ASSUME NEW p \in Payers, CrashPayer(p)
        PROVE  SettledIsBacked'
    BY <1>21 DEF CrashPayer, PayerAt, tables, Typed, TypeOK, Busy
  <1>22. ASSUME NEW p \in Autos, CrashScan(p)
        PROVE  SettledIsBacked'
    BY <1>22 DEF CrashScan, tables, threads, history
  <1>23. ASSUME NEW p \in Admins, CrashReview(p)
        PROVE  SettledIsBacked'
    BY <1>23 DEF CrashReview, tables, threads, history
  <1>24. ASSUME NEW x \in Escalators, CrashEscalator(x)
        PROVE  SettledIsBacked'
    BY <1>24 DEF CrashEscalator, tables
  <1>25. CASE UNCHANGED vars
    BY <1>25 DEF vars, tables, threads, history
  <1> QED
    BY <1>1, <1>2, <1>3, <1>4, <1>5, <1>6, <1>7, <1>8, <1>9, <1>10, <1>11,
       <1>12, <1>13, <1>14, <1>15, <1>16, <1>17, <1>18, <1>19, <1>20, <1>21,
       <1>22, <1>23, <1>24, <1>25
       DEF Next, MonitorStep, ForcerStep, PayoutStep, AdminStep, SubmitterStep,
           EscalatorStep, Autos, Payers

-----------------------------------------------------------------------------
(***************************************************************************)
(* Queued: an escalated claim has an escalation about to be inserted, or   *)
(* an open one that no unfinished review names.                            *)
(***************************************************************************)
Untouched(e) == \A p \in Admins : review[p] # NoReview => review[p].escalation # e

Queued == \A c \in ClaimIds \ abandoned :
    status[c] = "escalated" =>
      \/ \E x \in Escalators :
           escalator[x].pc = "insert" /\ escalator[x].claim = c
      \/ \E e \in EscalationIds :
           /\ escalation[e] # NoEscalation
           /\ escalation[e].claim = c
           /\ escalation[e].status = "pending_review"
           /\ Untouched(e)

LEMMA QueuedInit == Init => Queued
  BY DEF Init, Queued

LEMMA QueuedStep == Typed /\ Queued /\ [Next]_vars => Queued'
  <1> SUFFICES ASSUME Typed, Queued, [Next]_vars
               PROVE  Queued'
    OBVIOUS
  <1> USE DEF Queued, Untouched
  <1>1. CASE Tick
    BY <1>1 DEF Tick, tables, threads, history
  <1>2. ASSUME NEW s \in Submitters, NEW w \in Workers, SubmitCheck(s, w)
        PROVE  Queued'
    BY <1>2 DEF SubmitCheck, tables, threads, history
  <1>3. ASSUME NEW s \in Submitters, NEW c \in ClaimIds, NEW k \in Types,
               SubmitInsert(s, c, k)
        PROVE  Queued'
    BY <1>3 DEF SubmitInsert, NewRow, history, Typed, TypeOK
  <1>4. ASSUME NEW p \in Monitors, NEW w \in Workers, NEW k \in Types,
               NEW h \in BOOLEAN, ScanWorker(p, w, k, h)
        PROVE  Queued'
    BY <1>4 DEF ScanWorker, tables, threads, history
  <1>5. ASSUME NEW p \in Forcers, NEW w \in Workers, NEW k \in Types,
               NEW h \in BOOLEAN, ForceWorker(p, w, k, h)
        PROVE  Queued'
    BY <1>5 DEF ForceWorker, tables, threads, history
  <1>6. ASSUME NEW p \in Autos, NEW c \in ClaimIds, InsertClaim(p, c)
        PROVE  Queued'
    BY <1>6 DEF InsertClaim, NewRow, history, Typed, TypeOK
  <1>7. ASSUME NEW p \in Payers, Reload(p)
        PROVE  Queued'
    BY <1>7 DEF Reload, tables, threads, history
  <1>8. ASSUME NEW p \in Payers, CheckPass(p)
        PROVE  Queued'
    BY <1>8 DEF CheckPass, tables, threads, history
  <1>9. ASSUME NEW p \in Payers, RefuseAccount(p)
        PROVE  Queued'
    BY <1>9 DEF RefuseAccount, tables, threads, history
  <1>10. ASSUME NEW p \in Payers, RefuseByCap(p)
        PROVE  Queued'
    BY <1>10 DEF RefuseByCap, tables, threads, history
  <1>11. ASSUME NEW p \in Payers, NEW t \in TransferIds, Pay(p, t)
        PROVE  Queued'
    BY <1>11 DEF Pay, tables, threads, history
  <1>12. ASSUME NEW p \in Payers, Link(p)
        PROVE  Queued'
    BY <1>12 DEF Link, tables, threads, history
  <1>13. ASSUME NEW p \in Payers, Block(p)
        PROVE  Queued'
    BY <1>13 DEF Block, Demote, Typed, TypeOK, Busy
  <1>14. ASSUME NEW p \in Admins, NEW c \in ClaimIds,
                NEW e \in EscalationIds \cup {NoEscalation}, Approve(p, c, e)
        PROVE  Queued'
    <2>1. /\ status' = [status EXCEPT ![c] = "settled"]
          /\ review' = [review EXCEPT ![p] =
                 [escalation |-> e, verdict |-> "resolved"]]
          /\ UNCHANGED <<escalation, escalator, abandoned>>
      BY <1>14 DEF Approve
    <2>2. e \in EscalationIds => escalation[e].claim = c
      BY <1>14, NullsAssumption DEF Approve, MayReview, EscalationsOf
    <2>3. ASSUME NEW d \in ClaimIds \ {c}, NEW f \in EscalationIds, Untouched(f),
                 escalation[f].claim = d
          PROVE  Untouched(f)'
      BY <2>1, <2>2, <2>3 DEF Typed, TypeOK
    <2>4. status'[c] # "escalated" /\ \A d \in ClaimIds \ {c} : status'[d] = status[d]
      BY <2>1 DEF Typed, TypeOK
    <2> HIDE DEF Untouched
    <2> QED
      BY <2>1, <2>3, <2>4
  <1>15. ASSUME NEW p \in Admins, NEW c \in ClaimIds,
                NEW e \in EscalationIds \cup {NoEscalation}, Reject(p, c, e)
        PROVE  Queued'
    <2>1. /\ status' = [status EXCEPT ![c] = "rejected"]
          /\ review' = [review EXCEPT ![p] =
                 [escalation |-> e, verdict |-> "rejected"]]
          /\ UNCHANGED <<escalation, escalator, abandoned>>
      BY <1>15 DEF Reject, Demote
    <2>2. e \in EscalationIds => escalation[e].claim = c
      BY <1>15, NullsAssumption DEF Reject, MayReview, EscalationsOf
    <2>3. ASSUME NEW d \in ClaimIds \ {c}, NEW f \in EscalationIds, Untouched(f),
                 escalation[f].claim = d
          PROVE  Untouched(f)'
      BY <2>1, <2>2, <2>3 DEF Typed, TypeOK
    <2>4. status'[c] # "escalated" /\ \A d \in ClaimIds \ {c} : status'[d] = status[d]
      BY <2>1 DEF Typed, TypeOK
    <2> HIDE DEF Untouched
    <2> QED
      BY <2>1, <2>3, <2>4
  <1>16. ASSUME NEW p \in Admins, NEW c \in ClaimIds, Hold(p, c)
        PROVE  Queued'
    BY <1>16 DEF Hold, Demote, threads, Typed, TypeOK
  <1>17. ASSUME NEW p \in Admins, Close(p)
        PROVE  Queued'
    <2>1. /\ review[p] # NoReview
          /\ review' = [review EXCEPT ![p] = NoReview]
          /\ UNCHANGED <<status, escalator, abandoned>>
      BY <1>17 DEF Close, history
    <2>2. ASSUME NEW f \in EscalationIds, Untouched(f)
          PROVE  escalation'[f] = escalation[f] /\ Untouched(f)'
      <3>1. review[p].escalation # f
        BY <2>1, <2>2
      <3>2. escalation'[f] = escalation[f]
        BY <1>17, <3>1 DEF Close, Typed, TypeOK
      <3>3. Untouched(f)'
        BY <2>1, <2>2 DEF Typed, TypeOK
      <3> QED
        BY <3>2, <3>3
    <2> HIDE DEF Untouched
    <2> QED
      BY <2>1, <2>2
  <1>18. ASSUME NEW x \in Escalators, NEW c \in ClaimIds, EscalateCheck(x, c)
        PROVE  Queued'
    BY <1>18 DEF EscalateCheck, EscalatorAt, tables, history, Typed, TypeOK
  <1>19. ASSUME NEW x \in Escalators, EscalateFlag(x)
        PROVE  Queued'
    <2>1. /\ escalator[x].pc = "flag" /\ escalator[x].claim \in ClaimIds
          /\ status' = [status EXCEPT ![escalator[x].claim] = "escalated"]
          /\ escalator' = [escalator EXCEPT ![x] =
                 [pc |-> "insert", claim |-> escalator[x].claim]]
          /\ UNCHANGED <<escalation, review, abandoned>>
      BY <1>19 DEF EscalateFlag, Demote, EscalatorAt, Typed, Busy
    <2> QED
      BY <2>1 DEF Typed, TypeOK
  <1>20. ASSUME NEW x \in Escalators, NEW e \in EscalationIds,
                EscalateInsert(x, e)
        PROVE  Queued'
    <2>1. /\ escalator[x].pc = "insert" /\ escalator[x].claim \in ClaimIds
          /\ escalation[e] = NoEscalation
          /\ escalation' = [escalation EXCEPT ![e] =
                 [claim |-> escalator[x].claim, status |-> "pending_review"]]
          /\ escalator' = [escalator EXCEPT ![x] = [pc |-> "idle", claim |-> NoClaim]]
          /\ UNCHANGED <<status, review, abandoned>>
      BY <1>20 DEF EscalateInsert, EscalatorAt, Typed, Busy, history
    <2>2. Untouched(e)
      BY <2>1, NullsAssumption DEF Typed, Busy
    <2>3. /\ escalation'[e] # NoEscalation /\ escalation'[e].claim = escalator[x].claim
          /\ escalation'[e].status = "pending_review"
      <3>1. [claim |-> escalator[x].claim, status |-> "pending_review"] \in Escalation
        BY <2>1 DEF Escalation
      <3> QED
        BY <2>1, <3>1, NullsAssumption DEF Typed, TypeOK
    <2>4. \A f \in EscalationIds : Untouched(f) => Untouched(f)'
      BY <2>1
    <2>5. \A f \in EscalationIds \ {e} : escalation'[f] = escalation[f]
      BY <2>1 DEF Typed, TypeOK
    <2> HIDE DEF Untouched
    <2> SUFFICES ASSUME NEW c \in ClaimIds \ abandoned, status[c] = "escalated"
                 PROVE  \/ \E y \in Escalators :
                              escalator'[y].pc = "insert" /\ escalator'[y].claim = c
                        \/ \E f \in EscalationIds :
                              /\ escalation'[f] # NoEscalation
                              /\ escalation'[f].claim = c
                              /\ escalation'[f].status = "pending_review"
                              /\ Untouched(f)'
      BY <2>1
    <2>6. CASE c = escalator[x].claim
      BY <2>2, <2>3, <2>4, <2>6
    <2>7. CASE c # escalator[x].claim
      <3>1. CASE \E y \in Escalators :
                   escalator[y].pc = "insert" /\ escalator[y].claim = c
        BY <2>1, <2>7, <3>1 DEF Typed, TypeOK
      <3>2. CASE \E f \in EscalationIds :
                   /\ escalation[f] # NoEscalation
                   /\ escalation[f].claim = c
                   /\ escalation[f].status = "pending_review"
                   /\ Untouched(f)
        BY <2>1, <2>4, <2>5, <3>2
      <3> QED
        BY <3>1, <3>2
    <2> QED
      BY <2>6, <2>7
  <1>21. ASSUME NEW p \in Payers, CrashPayer(p)
        PROVE  Queued'
    <2>1. /\ UNCHANGED <<status, escalation, escalator>>
          /\ abandoned \subseteq abandoned'
          /\ \A q \in Admins : review'[q] \in {NoReview, review[q]}
      BY <1>21 DEF CrashPayer, tables, Typed, TypeOK
    <2> QED
      BY <2>1
  <1>22. ASSUME NEW p \in Autos, CrashScan(p)
        PROVE  Queued'
    BY <1>22 DEF CrashScan, tables, threads, history
  <1>23. ASSUME NEW p \in Admins, CrashReview(p)
        PROVE  Queued'
    <2>1. /\ UNCHANGED <<status, escalation, escalator, abandoned>>
          /\ \A q \in Admins : review'[q] \in {NoReview, review[q]}
      BY <1>23 DEF CrashReview, tables, history, Typed, TypeOK
    <2> QED
      BY <2>1
  <1>24. ASSUME NEW x \in Escalators, CrashEscalator(x)
        PROVE  Queued'
    BY <1>24 DEF CrashEscalator, EscalatorAt, tables, Typed, TypeOK, Busy
  <1>25. CASE UNCHANGED vars
    BY <1>25 DEF vars, tables, threads, history
  <1> QED
    BY <1>1, <1>2, <1>3, <1>4, <1>5, <1>6, <1>7, <1>8, <1>9, <1>10, <1>11,
       <1>12, <1>13, <1>14, <1>15, <1>16, <1>17, <1>18, <1>19, <1>20, <1>21,
       <1>22, <1>23, <1>24, <1>25
       DEF Next, MonitorStep, ForcerStep, PayoutStep, AdminStep, SubmitterStep,
           EscalatorStep, Autos, Payers

-----------------------------------------------------------------------------
(***************************************************************************)
(* Spaced: what the monitor read before an insert is still so, because     *)
(* there is one monitor and nobody else writes source = 'auto'.            *)
(***************************************************************************)
Clear(w, k) == \A c \in ClaimIds :
    Exists(c) /\ row[c].source = "auto" /\ row[c].worker = w /\ row[c].type = k
      => now - row[c].at > Window

Spaced ==
    /\ AutoClaimsSpaced
    /\ \A m \in Monitors : scan[m] # NoScan => Clear(scan[m].worker, scan[m].type)

LEMMA SpacedInit == Init => Spaced
  BY DEF Init, Spaced, AutoClaimsSpaced, Exists, Autos

LEMMA SpacedStep == Typed /\ Refs /\ Spaced /\ [Next]_vars => Spaced'
  <1> SUFFICES ASSUME Typed, Refs, Spaced, [Next]_vars
               PROVE  Spaced'
    OBVIOUS
  <1>0. /\ now \in Nat /\ Window \in Nat
        /\ \A c \in ClaimIds : Exists(c) => row[c].at \in Nat /\ row[c].at <= now
    BY ClockAssumption DEF Typed, TypeOK, Exists, Row, Refs
  <1> USE DEF Spaced, AutoClaimsSpaced, Clear
  <1>1. CASE Tick
    BY <1>1, <1>0 DEF Tick, Exists, tables, threads
  <1>2. ASSUME NEW s \in Submitters, NEW w \in Workers, SubmitCheck(s, w)
        PROVE  Spaced'
    BY <1>2 DEF SubmitCheck, Exists, tables, threads
  <1>3. ASSUME NEW s \in Submitters, NEW c \in ClaimIds, NEW k \in Types,
               SubmitInsert(s, c, k)
        PROVE  Spaced'
    <2>1. submitter[s] \in Workers
      BY <1>3 DEF SubmitInsert, Typed, TypeOK
    <2>2. /\ row'[c].source = "manual" /\ \A d \in ClaimIds : d # c => row'[d] = row[d]
      BY <1>3, <2>1, NewRowKeeps DEF SubmitInsert, Statuses
    <2>3. UNCHANGED <<now, scan>>
      BY <1>3 DEF SubmitInsert
    <2> QED
      BY <2>2, <2>3 DEF Exists
  <1>4. ASSUME NEW p \in Monitors, NEW w \in Workers, NEW k \in Types,
               NEW h \in BOOLEAN, ScanWorker(p, w, k, h)
        PROVE  Spaced'
    <2>1. /\ scan' = [scan EXCEPT ![p] =
                 [worker |-> w, type |-> k, hold |-> h \/ CapReached(w, now)]]
          /\ UNCHANGED <<now, row>>
      BY <1>4 DEF ScanWorker, tables
    <2>2. Clear(w, k)
      BY <1>4, <1>0 DEF ScanWorker, RecentAuto
    <2>3. p \in Autos /\ \A m \in Monitors : m = p
      BY SchedulerAssumption DEF Autos
    <2> QED
      BY <2>1, <2>2, <2>3 DEF Typed, TypeOK, Exists
  <1>5. ASSUME NEW p \in Forcers, NEW w \in Workers, NEW k \in Types,
               NEW h \in BOOLEAN, ForceWorker(p, w, k, h)
        PROVE  Spaced'
    <2>1. \A m \in Monitors : scan'[m] = scan[m]
      BY <1>5, ThreadAssumption DEF ForceWorker, Typed, TypeOK, Autos
    <2>2. UNCHANGED <<now, row>>
      BY <1>5 DEF ForceWorker, tables
    <2> QED
      BY <2>1, <2>2 DEF Exists
  <1>6. ASSUME NEW p \in Autos, NEW c \in ClaimIds, InsertClaim(p, c)
        PROVE  Spaced'
    <2>1. scan[p] \in Scan /\ scan[p] # NoScan
          /\ scan' = [scan EXCEPT ![p] = NoScan] /\ now' = now
      BY <1>6 DEF InsertClaim, Typed, TypeOK
    <2>2. scan[p].worker \in Workers /\ scan[p].type \in Types
      BY <2>1 DEF Scan
    <2>3. /\ row'[c].worker = scan[p].worker /\ row'[c].type = scan[p].type
          /\ row'[c].at = now
          /\ row'[c].source = IF p \in Monitors THEN "auto" ELSE "forced"
          /\ \A d \in ClaimIds : d # c => row'[d] = row[d]
      BY <1>6, <2>2, NewRowKeeps DEF InsertClaim, Statuses
    <2>4. CASE p \in Monitors
      <3>1. Clear(scan[p].worker, scan[p].type)
        BY <2>1, <2>4
      <3>2. \A m \in Monitors : scan'[m] = NoScan
        BY <2>1, <2>4, SchedulerAssumption DEF Typed, TypeOK
      <3>3. \A d \in ClaimIds \ {c} :
               /\ Exists(d)' /\ row'[d].source = "auto"
               /\ row'[d].worker = row'[c].worker /\ row'[d].type = row'[c].type
               => row'[c].at - row'[d].at > Window
        BY <2>3, <3>1 DEF Exists
      <3>4. AutoClaimsSpaced'
        <4> SUFFICES ASSUME NEW a \in ClaimIds, NEW b \in ClaimIds, a # b,
                            Exists(a)', Exists(b)',
                            row'[a].source = "auto", row'[b].source = "auto",
                            row'[a].worker = row'[b].worker,
                            row'[a].type = row'[b].type
                     PROVE  \/ row'[a].at - row'[b].at > Window
                            \/ row'[b].at - row'[a].at > Window
          OBVIOUS
        <4>1. CASE a = c
          BY <3>3, <4>1
        <4>2. CASE b = c
          BY <3>3, <4>2
        <4>3. CASE a # c /\ b # c
          BY <2>3, <4>3 DEF Exists
        <4> QED
          BY <4>1, <4>2, <4>3
      <3> QED
        BY <3>2, <3>4
    <2>5. CASE p \notin Monitors
      <3>1. \A m \in Monitors : scan'[m] = scan[m]
        BY <2>1, <2>5 DEF Typed, TypeOK, Autos
      <3>2. row'[c].source = "forced"
        BY <2>3, <2>5
      <3> QED
        BY <2>1, <2>3, <3>1, <3>2 DEF Exists
    <2> QED
      BY <2>4, <2>5
  <1>7. ASSUME NEW p \in Payers, Reload(p)
        PROVE  Spaced'
    BY <1>7 DEF Reload, Exists, tables, threads
  <1>8. ASSUME NEW p \in Payers, CheckPass(p)
        PROVE  Spaced'
    BY <1>8 DEF CheckPass, Exists, tables, threads
  <1>9. ASSUME NEW p \in Payers, RefuseAccount(p)
        PROVE  Spaced'
    BY <1>9 DEF RefuseAccount, Exists, tables, threads
  <1>10. ASSUME NEW p \in Payers, RefuseByCap(p)
        PROVE  Spaced'
    BY <1>10 DEF RefuseByCap, Exists, tables, threads
  <1>11. ASSUME NEW p \in Payers, NEW t \in TransferIds, Pay(p, t)
        PROVE  Spaced'
    BY <1>11 DEF Pay, Exists, tables, threads
  <1>12. ASSUME NEW p \in Payers, Link(p)
        PROVE  Spaced'
    BY <1>12 DEF Link, Exists, tables, threads
  <1>13. ASSUME NEW p \in Payers, Block(p)
        PROVE  Spaced'
    BY <1>13 DEF Block, Exists, tables, threads
  <1>14. ASSUME NEW p \in Admins, NEW c \in ClaimIds,
                NEW e \in EscalationIds \cup {NoEscalation}, Approve(p, c, e)
        PROVE  Spaced'
    BY <1>14 DEF Approve, Exists, tables, threads
  <1>15. ASSUME NEW p \in Admins, NEW c \in ClaimIds,
                NEW e \in EscalationIds \cup {NoEscalation}, Reject(p, c, e)
        PROVE  Spaced'
    BY <1>15 DEF Reject, Exists, tables, threads
  <1>16. ASSUME NEW p \in Admins, NEW c \in ClaimIds, Hold(p, c)
        PROVE  Spaced'
    BY <1>16 DEF Hold, Exists, tables, threads
  <1>17. ASSUME NEW p \in Admins, Close(p)
        PROVE  Spaced'
    BY <1>17 DEF Close, Exists, tables, threads
  <1>18. ASSUME NEW x \in Escalators, NEW c \in ClaimIds, EscalateCheck(x, c)
        PROVE  Spaced'
    BY <1>18 DEF EscalateCheck, Exists, tables, threads
  <1>19. ASSUME NEW x \in Escalators, EscalateFlag(x)
        PROVE  Spaced'
    BY <1>19 DEF EscalateFlag, Exists, tables, threads
  <1>20. ASSUME NEW x \in Escalators, NEW e \in EscalationIds,
                EscalateInsert(x, e)
        PROVE  Spaced'
    BY <1>20 DEF EscalateInsert, Exists, tables, threads
  <1>21. ASSUME NEW p \in Payers, CrashPayer(p)
        PROVE  Spaced'
    BY <1>21 DEF CrashPayer, Exists, tables, threads
  <1>22. ASSUME NEW p \in Autos, CrashScan(p)
        PROVE  Spaced'
    BY <1>22 DEF CrashScan, Exists, tables, Typed, TypeOK
  <1>23. ASSUME NEW p \in Admins, CrashReview(p)
        PROVE  Spaced'
    BY <1>23 DEF CrashReview, Exists, tables, threads
  <1>24. ASSUME NEW x \in Escalators, CrashEscalator(x)
        PROVE  Spaced'
    BY <1>24 DEF CrashEscalator, Exists, tables, threads
  <1>25. CASE UNCHANGED vars
    BY <1>25 DEF vars, tables, threads, Exists
  <1> QED
    BY <1>1, <1>2, <1>3, <1>4, <1>5, <1>6, <1>7, <1>8, <1>9, <1>10, <1>11,
       <1>12, <1>13, <1>14, <1>15, <1>16, <1>17, <1>18, <1>19, <1>20, <1>21,
       <1>22, <1>23, <1>24, <1>25
       DEF Next, MonitorStep, ForcerStep, PayoutStep, AdminStep, SubmitterStep,
           EscalatorStep, Autos, Payers

-----------------------------------------------------------------------------
(***************************************************************************)
(* StaysSettled: a claim that is paid, or whose payout is at work, reads   *)
(* "settled" unless it is among the demoted ones.                          *)
(***************************************************************************)
StaysSettled == \A c \in ClaimIds \ demoted :
    Paid(c) \/ Paying(c) => status[c] = "settled"

LEMMA StaysSettledInit == Init => StaysSettled
  BY NullsAssumption DEF Init, StaysSettled, Paid, Paying, IdlePayer

LEMMA StaysSettledStep ==
    Typed /\ Refs /\ StaysSettled /\ [Next]_vars => StaysSettled'
  <1> SUFFICES ASSUME Typed, Refs, StaysSettled, [Next]_vars
               PROVE  StaysSettled'
    OBVIOUS
  <1> USE DEF StaysSettled, Paid, Paying
  <1>1. CASE Tick
    BY <1>1 DEF Tick, tables, threads, history
  <1>2. ASSUME NEW s \in Submitters, NEW w \in Workers, SubmitCheck(s, w)
        PROVE  StaysSettled'
    BY <1>2 DEF SubmitCheck, tables, threads, history
  <1>3. ASSUME NEW s \in Submitters, NEW c \in ClaimIds, NEW k \in Types,
               SubmitInsert(s, c, k)
        PROVE  StaysSettled'
    <2>1. ~ Paid(c) /\ ~ Paying(c)
      BY <1>3, NullsAssumption DEF SubmitInsert, NewRow, Refs, Exists
    <2>2. UNCHANGED <<transfer, payer, demoted>>
      BY <1>3 DEF SubmitInsert, history
    <2>3. \A d \in ClaimIds \ {c} : status'[d] = status[d]
      BY <1>3 DEF SubmitInsert, NewRow, Typed, TypeOK
    <2> QED
      BY <2>1, <2>2, <2>3
  <1>4. ASSUME NEW p \in Monitors, NEW w \in Workers, NEW k \in Types,
               NEW h \in BOOLEAN, ScanWorker(p, w, k, h)
        PROVE  StaysSettled'
    BY <1>4 DEF ScanWorker, tables, threads, history
  <1>5. ASSUME NEW p \in Forcers, NEW w \in Workers, NEW k \in Types,
               NEW h \in BOOLEAN, ForceWorker(p, w, k, h)
        PROVE  StaysSettled'
    BY <1>5 DEF ForceWorker, tables, threads, history
  <1>6. ASSUME NEW p \in Autos, NEW c \in ClaimIds, InsertClaim(p, c)
        PROVE  StaysSettled'
    <2>1. ~ Paid(c) /\ ~ Paying(c)
      BY <1>6, NullsAssumption DEF InsertClaim, NewRow, Refs, Exists
    <2>2. /\ p \in Payers
          /\ status' = [status EXCEPT ![c] =
                 IF scan[p].hold THEN "in_review" ELSE "settled"]
          /\ IF scan[p].hold THEN payer' = payer
             ELSE payer' = [payer EXCEPT ![p] =
                 [pc |-> "check", claim |-> c, transfer |-> NoTransfer]]
          /\ UNCHANGED <<transfer, demoted>>
      BY <1>6 DEF InsertClaim, NewRow, PayerAt, Payers, history
    <2>3. CASE scan[p].hold
      BY <2>1, <2>2, <2>3 DEF Typed, TypeOK
    <2>4. CASE ~ scan[p].hold
      BY <2>1, <2>2, <2>4 DEF Typed, TypeOK
    <2> QED
      BY <2>3, <2>4
  <1>7. ASSUME NEW p \in Payers, Reload(p)
        PROVE  StaysSettled'
    BY <1>7 DEF Reload, PayerAt, tables, history, Typed, TypeOK, Busy
  <1>8. ASSUME NEW p \in Payers, CheckPass(p)
        PROVE  StaysSettled'
    BY <1>8 DEF CheckPass, PayerAt, tables, history, Typed, TypeOK, Busy
  <1>9. ASSUME NEW p \in Payers, RefuseAccount(p)
        PROVE  StaysSettled'
    BY <1>9 DEF RefuseAccount, PayerAt, tables, history, Typed, TypeOK, Busy
  <1>10. ASSUME NEW p \in Payers, RefuseByCap(p)
        PROVE  StaysSettled'
    BY <1>10 DEF RefuseByCap, PayerAt, tables, history, Typed, TypeOK, Busy
  <1>11. ASSUME NEW p \in Payers, NEW t \in TransferIds, Pay(p, t)
        PROVE  StaysSettled'
    <2>1. /\ payer[p].pc = "pay" /\ payer[p].claim \in ClaimIds
          /\ payer' = [payer EXCEPT ![p] =
                 [pc |-> "link", claim |-> payer[p].claim, transfer |-> t]]
          /\ transfer' = [transfer EXCEPT ![t] = payer[p].claim]
          /\ UNCHANGED <<status, demoted>>
      BY <1>11 DEF Pay, PayerAt, history, Typed, Busy
    <2> QED
      BY <2>1 DEF Typed, TypeOK
  <1>12. ASSUME NEW p \in Payers, Link(p)
        PROVE  StaysSettled'
    BY <1>12, NullsAssumption DEF Link, PayerAt, tables, history, Typed, TypeOK, Busy
  <1>13. ASSUME NEW p \in Payers, Block(p)
        PROVE  StaysSettled'
    BY <1>13, NullsAssumption DEF Block, Demote, PayerAt, Typed, TypeOK, Busy
  <1>14. ASSUME NEW p \in Admins, NEW c \in ClaimIds,
                NEW e \in EscalationIds \cup {NoEscalation}, Approve(p, c, e)
        PROVE  StaysSettled'
    BY <1>14 DEF Approve, PayerAt, Payers, Typed, TypeOK
  <1>15. ASSUME NEW p \in Admins, NEW c \in ClaimIds,
                NEW e \in EscalationIds \cup {NoEscalation}, Reject(p, c, e)
        PROVE  StaysSettled'
    BY <1>15 DEF Reject, Demote, Typed, TypeOK
  <1>16. ASSUME NEW p \in Admins, NEW c \in ClaimIds, Hold(p, c)
        PROVE  StaysSettled'
    BY <1>16 DEF Hold, Demote, threads, Typed, TypeOK
  <1>17. ASSUME NEW p \in Admins, Close(p)
        PROVE  StaysSettled'
    BY <1>17 DEF Close, tables, threads, history
  <1>18. ASSUME NEW x \in Escalators, NEW c \in ClaimIds, EscalateCheck(x, c)
        PROVE  StaysSettled'
    BY <1>18 DEF EscalateCheck, tables, threads, history
  <1>19. ASSUME NEW x \in Escalators, EscalateFlag(x)
        PROVE  StaysSettled'
    BY <1>19 DEF EscalateFlag, Demote, Typed, TypeOK
  <1>20. ASSUME NEW x \in Escalators, NEW e \in EscalationIds,
                EscalateInsert(x, e)
        PROVE  StaysSettled'
    BY <1>20 DEF EscalateInsert, tables, threads, history
  <1>21. ASSUME NEW p \in Payers, CrashPayer(p)
        PROVE  StaysSettled'
    BY <1>21, NullsAssumption DEF CrashPayer, PayerAt, tables, history, Typed, TypeOK, Busy
  <1>22. ASSUME NEW p \in Autos, CrashScan(p)
        PROVE  StaysSettled'
    BY <1>22 DEF CrashScan, tables, threads, history
  <1>23. ASSUME NEW p \in Admins, CrashReview(p)
        PROVE  StaysSettled'
    BY <1>23 DEF CrashReview, tables, threads, history
  <1>24. ASSUME NEW x \in Escalators, CrashEscalator(x)
        PROVE  StaysSettled'
    BY <1>24 DEF CrashEscalator, tables, threads, history
  <1>25. CASE UNCHANGED vars
    BY <1>25 DEF vars, tables, threads, history
  <1> QED
    BY <1>1, <1>2, <1>3, <1>4, <1>5, <1>6, <1>7, <1>8, <1>9, <1>10, <1>11,
       <1>12, <1>13, <1>14, <1>15, <1>16, <1>17, <1>18, <1>19, <1>20, <1>21,
       <1>22, <1>23, <1>24, <1>25
       DEF Next, MonitorStep, ForcerStep, PayoutStep, AdminStep, SubmitterStep,
           EscalatorStep, Autos, Payers

-----------------------------------------------------------------------------
(***************************************************************************)
(* Arithmetic of days and weeks.                                           *)
(***************************************************************************)
LEMMA DivBelow ==
    ASSUME NEW t \in Nat, NEW n \in Nat \ {0}
    PROVE  t \div n \in Nat /\ (t \div n) * n <= t
  BY Z3

LEMMA ProductMonotone ==
    ASSUME NEW a \in Nat, NEW b \in Nat, NEW n \in Nat, a <= b
    PROVE  a * n <= b * n
  BY Z3

LEMMA DayBelow == ASSUME NEW t \in Nat PROVE Day(t) \in 0..t
  <1>1. Day(t) \in Nat /\ Day(t) * TicksPerDay <= t
    BY DivBelow, ClockAssumption DEF Day
  <1> DEFINE d == Day(t)
  <1> HIDE DEF d
  <1>2. d \in Nat => d * 1 <= d * TicksPerDay
    <2> SUFFICES ASSUME d \in Nat PROVE d * 1 <= d * TicksPerDay
      OBVIOUS
    <2>1. \E k \in Nat : TicksPerDay = 1 + k
      <3>1. TicksPerDay - 1 \in Nat /\ TicksPerDay = 1 + (TicksPerDay - 1)
        BY ClockAssumption
      <3> QED
        BY <3>1
    <2>2. PICK k \in Nat : TicksPerDay = 1 + k
      BY <2>1
    <2>3. d * (1 + k) = d * 1 + d * k /\ d * k \in Nat
      BY <2>2
    <2> QED
      BY <2>2, <2>3
  <1> QED
    BY <1>1, <1>2, ClockAssumption DEF d

LEMMA WeekStartBefore ==
    ASSUME NEW t \in Nat PROVE WeekStart(t) \in Nat /\ WeekStart(t) <= t
  <1> DEFINE d == Day(t)
             e == (d \div 7) * 7
  <1>1. d \in Nat /\ d * TicksPerDay <= t
    BY ClockAssumption, DivBelow DEF Day
  <1>2. d \div 7 \in Nat /\ e <= d
    BY <1>1, DivBelow
  <1>3. e \in Nat
    BY <1>2
  <1>4. WeekStart(t) = e * TicksPerDay
    BY DEF WeekStart
  <1> HIDE DEF e, d
  <1>5. e * TicksPerDay <= d * TicksPerDay
    BY <1>1, <1>2, <1>3, ProductMonotone, ClockAssumption
  <1>6. e * TicksPerDay \in Nat /\ d * TicksPerDay \in Nat
    BY <1>1, <1>3, ClockAssumption
  <1> QED
    BY <1>1, <1>4, <1>5, <1>6

-----------------------------------------------------------------------------
(***************************************************************************)
(* Capped: the days of the claims that are paid or about to be, without    *)
(* the demoted ones.  Only CheckPass adds a day, and then every one of     *)
(* them is among the days it has just counted.                             *)
(***************************************************************************)
Pledged == {c \in ClaimIds \ demoted :
    /\ Exists(c)
    /\ \/ Paid(c)
       \/ \E p \in Payers :
            payer[p].pc \in {"pay", "link"} /\ payer[p].claim = c}

PledgedDays(w, wk) ==
    {Day(row[c].at) : c \in {d \in Pledged :
        row[d].worker = w /\ WeekStart(row[d].at) = wk}}

Capped == \A w \in Workers, wk \in Weeks :
    Cardinality(PledgedDays(w, wk)) <= MaxDays[w]

LEMMA DaysFinite ==
    ASSUME Typed, Refs, NEW S \in SUBSET {Day(row[c].at) : c \in {d \in ClaimIds : Exists(d)}}
    PROVE  IsFiniteSet(S) /\ Cardinality(S) \in Nat
  <1>1. ASSUME NEW c \in ClaimIds, Exists(c)
        PROVE  Day(row[c].at) \in 0..MaxTime
    <2>1. /\ row[c].at \in Nat /\ row[c].at <= now
          /\ now \in Nat /\ now <= MaxTime /\ MaxTime \in Nat
      BY <1>1, ClockAssumption DEF Typed, TypeOK, Refs, Exists, Row
    <2>2. Day(row[c].at) \in 0..row[c].at
      BY <2>1, DayBelow
    <2> QED
      BY <2>1, <2>2
  <1>2. S \subseteq 0..MaxTime
    BY <1>1
  <1>3. IsFiniteSet(0..MaxTime)
    BY FS_Interval, ClockAssumption
  <1>4. IsFiniteSet(S)
    BY <1>2, <1>3, FS_Subset
  <1> QED
    BY <1>4, FS_CardinalityType

LEMMA CappedInit == Init => Capped
  <1> SUFFICES ASSUME Init, NEW w \in Workers, NEW wk \in Weeks
               PROVE  Cardinality(PledgedDays(w, wk)) <= MaxDays[w]
    BY DEF Capped
  <1>1. PledgedDays(w, wk) = {}
    BY DEF Init, PledgedDays, Pledged, Exists
  <1> QED
    BY <1>1, FS_EmptySet, PlanAssumption

(* A step that pledges no claim keeps the cap.                             *)
LEMMA CappedShrinks ==
    ASSUME Typed, Refs, Capped,
           Pledged' \subseteq Pledged, \A c \in Pledged : row'[c] = row[c]
    PROVE  Capped'
  <1> SUFFICES ASSUME NEW w \in Workers, NEW wk \in Weeks
               PROVE  Cardinality(PledgedDays(w, wk)') <= MaxDays[w]
    BY DEF Capped, Weeks, WeekStart, Day
  <1>1. PledgedDays(w, wk)' \subseteq PledgedDays(w, wk)
    BY DEF PledgedDays, Day, WeekStart
  <1>2. PledgedDays(w, wk) \subseteq {Day(row[c].at) : c \in {d \in ClaimIds : Exists(d)}}
    BY DEF PledgedDays, Pledged
  <1>3. /\ IsFiniteSet(PledgedDays(w, wk))
        /\ Cardinality(PledgedDays(w, wk)) \in Nat
    BY <1>2, DaysFinite
  <1>4. /\ Cardinality(PledgedDays(w, wk)') <= Cardinality(PledgedDays(w, wk))
        /\ Cardinality(PledgedDays(w, wk)') \in Nat
    BY <1>1, <1>3, FS_Subset, FS_CardinalityType
  <1>5. Cardinality(PledgedDays(w, wk)) <= MaxDays[w] /\ MaxDays[w] \in Nat
    BY PlanAssumption DEF Capped
  <1> QED
    BY <1>3, <1>4, <1>5

(* The claim that passes the check was counted, and so was every other.    *)
LEMMA CappedByCheck ==
    ASSUME Typed, Refs, Refs', Typed', StaysSettled', Capped,
           NEW p \in Payers, CheckPass(p)
    PROVE  Capped'
  <1> DEFINE c0 == payer[p].claim
  <1>1. /\ c0 \in ClaimIds /\ Exists(c0) /\ payer[p].pc = "check"
        /\ payer' = [payer EXCEPT ![p] =
               [pc |-> "pay", claim |-> c0, transfer |-> NoTransfer]]
        /\ UNCHANGED <<row, status, transfer, demoted>>
    BY DEF CheckPass, PayerAt, tables, history, Typed, Busy, Refs
  <1>2. Pledged' \subseteq Pledged \cup {c0}
    BY <1>1 DEF Pledged, Paid, Exists, Typed, TypeOK
  <1>3. \A c \in Pledged' : c \in ClaimIds /\ Exists(c) /\ status[c] = "settled"
    BY <1>1 DEF Pledged, StaysSettled, Paying, Exists
  <1> SUFFICES ASSUME NEW w \in Workers, NEW wk \in Weeks
               PROVE  Cardinality(PledgedDays(w, wk)') <= MaxDays[w]
    BY DEF Capped, Weeks, WeekStart, Day
  <1>4. CASE c0 \in Pledged' /\ row[c0].worker = w /\ WeekStart(row[c0].at) = wk
    <2>1. Cardinality(CoveredDays(w, wk)) < MaxDays[w] /\ MaxDays[w] \in Nat
      <3>1. CoveredDays(w, wk) \subseteq
              {Day(row[c].at) : c \in {d \in ClaimIds : Exists(d)}}
        BY DEF CoveredDays
      <3>2. Cardinality(CoveredDays(w, wk)) \in Nat
        BY <3>1, DaysFinite
      <3> QED
        BY <1>4, <3>2, PlanAssumption DEF CheckPass, CapRefuses, CapReached
    <2>2. PledgedDays(w, wk)' \subseteq CoveredDays(w, wk)
      <3> SUFFICES ASSUME NEW c \in Pledged', row[c].worker = w,
                          WeekStart(row[c].at) = wk
                   PROVE  Day(row[c].at) \in CoveredDays(w, wk)
        BY <1>1 DEF PledgedDays, Day, WeekStart
      <3>1. row[c].at >= wk
        <4>1. row[c].at \in Nat
          BY <1>3 DEF Typed, TypeOK, Exists, Row
        <4> QED
          BY <4>1, WeekStartBefore
      <3> QED
        BY <1>3, <3>1 DEF CoveredDays
    <2>3. /\ IsFiniteSet(CoveredDays(w, wk))
          /\ Cardinality(CoveredDays(w, wk)) \in Nat
      <3>1. CoveredDays(w, wk) \subseteq
              {Day(row[c].at) : c \in {d \in ClaimIds : Exists(d)}}
        BY DEF CoveredDays
      <3> QED
        BY <3>1, DaysFinite
    <2>4. /\ Cardinality(PledgedDays(w, wk)') <= Cardinality(CoveredDays(w, wk))
          /\ Cardinality(PledgedDays(w, wk)') \in Nat
      BY <2>2, <2>3, FS_Subset, FS_CardinalityType
    <2> QED
      BY <2>1, <2>3, <2>4
  <1>5. CASE ~ (c0 \in Pledged' /\ row[c0].worker = w /\ WeekStart(row[c0].at) = wk)
    <2>1. PledgedDays(w, wk)' \subseteq PledgedDays(w, wk)
      <3> SUFFICES ASSUME NEW c \in Pledged', row[c].worker = w,
                          WeekStart(row[c].at) = wk
                   PROVE  Day(row[c].at) \in PledgedDays(w, wk)
        BY <1>1 DEF PledgedDays, Day, WeekStart
      <3>1. c \in Pledged
        BY <1>2, <1>5
      <3> QED
        BY <3>1 DEF PledgedDays
    <2>2. PledgedDays(w, wk) \subseteq {Day(row[c].at) : c \in {d \in ClaimIds : Exists(d)}}
      BY DEF PledgedDays, Pledged
    <2>3. /\ IsFiniteSet(PledgedDays(w, wk))
          /\ Cardinality(PledgedDays(w, wk)) \in Nat
      BY <2>2, DaysFinite
    <2>4. /\ Cardinality(PledgedDays(w, wk)') <= Cardinality(PledgedDays(w, wk))
          /\ Cardinality(PledgedDays(w, wk)') \in Nat
      BY <2>1, <2>3, FS_Subset, FS_CardinalityType
    <2>5. Cardinality(PledgedDays(w, wk)) <= MaxDays[w] /\ MaxDays[w] \in Nat
      BY PlanAssumption DEF Capped
    <2> QED
      BY <2>3, <2>4, <2>5
  <1> QED
    BY <1>4, <1>5

LEMMA CappedStep ==
    ASSUME Typed, Typed', Refs, Refs', StaysSettled', Capped, [Next]_vars
    PROVE  Capped'
  <1> DEFINE Shrinks == /\ Pledged' \subseteq Pledged
                        /\ \A c \in Pledged : row'[c] = row[c]
  <1>0. Shrinks => Capped'
    BY CappedShrinks
  <1>1. CASE Tick
    <2>1. Shrinks
      BY <1>1 DEF Pledged, Paid, Exists, Tick, tables, threads, history
    <2> HIDE DEF Shrinks
    <2> QED
      BY <1>0, <2>1
  <1>2. ASSUME NEW s \in Submitters, NEW w \in Workers, SubmitCheck(s, w)
        PROVE  Capped'
    <2>1. Shrinks
      BY <1>2 DEF Pledged, Paid, Exists, SubmitCheck, tables, threads, history
    <2> HIDE DEF Shrinks
    <2> QED
      BY <1>0, <2>1
  <1>3. ASSUME NEW s \in Submitters, NEW c \in ClaimIds, NEW k \in Types,
               SubmitInsert(s, c, k)
        PROVE  Capped'
    <2>1. /\ row[c] = NoRow /\ \A d \in ClaimIds \ {c} : row'[d] = row[d]
          /\ UNCHANGED <<transfer, payer, demoted>>
      BY <1>3 DEF SubmitInsert, NewRow, history, Typed, TypeOK
    <2>2. ~ Paid(c) /\ \A p \in Payers : payer[p].pc # "idle" => payer[p].claim # c
      BY <2>1, NullsAssumption DEF Refs, Exists, Paid
    <2>3. Shrinks
      BY <2>1, <2>2 DEF Pledged, Paid, Exists
    <2> HIDE DEF Shrinks
    <2> QED
      BY <1>0, <2>3
  <1>4. ASSUME NEW p \in Monitors, NEW w \in Workers, NEW k \in Types,
               NEW h \in BOOLEAN, ScanWorker(p, w, k, h)
        PROVE  Capped'
    <2>1. Shrinks
      BY <1>4 DEF Pledged, Paid, Exists, ScanWorker, tables, threads, history
    <2> HIDE DEF Shrinks
    <2> QED
      BY <1>0, <2>1
  <1>5. ASSUME NEW p \in Forcers, NEW w \in Workers, NEW k \in Types,
               NEW h \in BOOLEAN, ForceWorker(p, w, k, h)
        PROVE  Capped'
    <2>1. Shrinks
      BY <1>5 DEF Pledged, Paid, Exists, ForceWorker, tables, threads, history
    <2> HIDE DEF Shrinks
    <2> QED
      BY <1>0, <2>1
  <1>6. ASSUME NEW p \in Autos, NEW c \in ClaimIds, InsertClaim(p, c)
        PROVE  Capped'
    <2>1. /\ p \in Payers
          /\ row[c] = NoRow /\ \A d \in ClaimIds \ {c} : row'[d] = row[d]
          /\ UNCHANGED <<transfer, demoted>>
          /\ \/ payer' = payer
             \/ payer' = [payer EXCEPT ![p] = [pc |-> "check", claim |-> c,
                                              transfer |-> NoTransfer]]
      BY <1>6 DEF InsertClaim, NewRow, PayerAt, Payers, history, Typed, TypeOK
    <2>2. ~ Paid(c) /\ \A q \in Payers : payer[q].pc # "idle" => payer[q].claim # c
      BY <2>1, NullsAssumption DEF Refs, Exists, Paid
    <2>3. Shrinks
      BY <2>1, <2>2 DEF Pledged, Paid, Exists, Typed, TypeOK
    <2> HIDE DEF Shrinks
    <2> QED
      BY <1>0, <2>3
  <1>7. ASSUME NEW p \in Payers, Reload(p)
        PROVE  Capped'
    <2>1. Shrinks
      BY <1>7 DEF Pledged, Paid, Exists, Reload, PayerAt, tables, history,
                  Typed, TypeOK
    <2> HIDE DEF Shrinks
    <2> QED
      BY <1>0, <2>1
  <1>8. ASSUME NEW p \in Payers, CheckPass(p)
        PROVE  Capped'
    BY <1>8, CappedByCheck
  <1>9. ASSUME NEW p \in Payers, RefuseAccount(p)
        PROVE  Capped'
    <2>1. Shrinks
      BY <1>9 DEF Pledged, Paid, Exists, RefuseAccount, PayerAt, tables,
                  history, Typed, TypeOK
    <2> HIDE DEF Shrinks
    <2> QED
      BY <1>0, <2>1
  <1>10. ASSUME NEW p \in Payers, RefuseByCap(p)
        PROVE  Capped'
    <2>1. Shrinks
      BY <1>10 DEF Pledged, Paid, Exists, RefuseByCap, PayerAt, tables,
                  history, Typed, TypeOK
    <2> HIDE DEF Shrinks
    <2> QED
      BY <1>0, <2>1
  <1>11. ASSUME NEW p \in Payers, NEW t \in TransferIds, Pay(p, t)
        PROVE  Capped'
    <2>1. /\ payer[p].pc = "pay" /\ payer[p].claim \in ClaimIds
          /\ payer' = [payer EXCEPT ![p] =
                 [pc |-> "link", claim |-> payer[p].claim, transfer |-> t]]
          /\ transfer' = [transfer EXCEPT ![t] = payer[p].claim]
          /\ UNCHANGED <<row, demoted>>
      BY <1>11 DEF Pay, PayerAt, history, Typed, Busy
    <2>2. Shrinks
      BY <2>1 DEF Pledged, Paid, Exists, Typed, TypeOK
    <2> HIDE DEF Shrinks
    <2> QED
      BY <1>0, <2>2
  <1>12. ASSUME NEW p \in Payers, Link(p)
        PROVE  Capped'
    <2>1. Shrinks
      BY <1>12, NullsAssumption DEF Pledged, Paid, Exists, Link, PayerAt,
                                   tables, history, Typed, TypeOK, Busy
    <2> HIDE DEF Shrinks
    <2> QED
      BY <1>0, <2>1
  <1>13. ASSUME NEW p \in Payers, Block(p)
        PROVE  Capped'
    <2>1. Shrinks
      BY <1>13 DEF Pledged, Paid, Exists, Block, Demote, PayerAt, Typed, TypeOK
    <2> HIDE DEF Shrinks
    <2> QED
      BY <1>0, <2>1
  <1>14. ASSUME NEW p \in Admins, NEW c \in ClaimIds,
                NEW e \in EscalationIds \cup {NoEscalation}, Approve(p, c, e)
        PROVE  Capped'
    <2>1. Shrinks
      BY <1>14 DEF Pledged, Paid, Exists, Approve, PayerAt, Payers, Typed,
                  TypeOK
    <2> HIDE DEF Shrinks
    <2> QED
      BY <1>0, <2>1
  <1>15. ASSUME NEW p \in Admins, NEW c \in ClaimIds,
                NEW e \in EscalationIds \cup {NoEscalation}, Reject(p, c, e)
        PROVE  Capped'
    <2>1. Shrinks
      BY <1>15 DEF Pledged, Paid, Exists, Reject, Demote, threads
    <2> HIDE DEF Shrinks
    <2> QED
      BY <1>0, <2>1
  <1>16. ASSUME NEW p \in Admins, NEW c \in ClaimIds, Hold(p, c)
        PROVE  Capped'
    <2>1. Shrinks
      BY <1>16 DEF Pledged, Paid, Exists, Hold, Demote, threads
    <2> HIDE DEF Shrinks
    <2> QED
      BY <1>0, <2>1
  <1>17. ASSUME NEW p \in Admins, Close(p)
        PROVE  Capped'
    <2>1. Shrinks
      BY <1>17 DEF Pledged, Paid, Exists, Close, tables, threads, history
    <2> HIDE DEF Shrinks
    <2> QED
      BY <1>0, <2>1
  <1>18. ASSUME NEW x \in Escalators, NEW c \in ClaimIds, EscalateCheck(x, c)
        PROVE  Capped'
    <2>1. Shrinks
      BY <1>18 DEF Pledged, Paid, Exists, EscalateCheck, tables, threads,
                  history
    <2> HIDE DEF Shrinks
    <2> QED
      BY <1>0, <2>1
  <1>19. ASSUME NEW x \in Escalators, EscalateFlag(x)
        PROVE  Capped'
    <2>1. Shrinks
      BY <1>19 DEF Pledged, Paid, Exists, EscalateFlag, Demote, threads
    <2> HIDE DEF Shrinks
    <2> QED
      BY <1>0, <2>1
  <1>20. ASSUME NEW x \in Escalators, NEW e \in EscalationIds,
                EscalateInsert(x, e)
        PROVE  Capped'
    <2>1. Shrinks
      BY <1>20 DEF Pledged, Paid, Exists, EscalateInsert, tables, threads,
                  history
    <2> HIDE DEF Shrinks
    <2> QED
      BY <1>0, <2>1
  <1>21. ASSUME NEW p \in Payers, CrashPayer(p)
        PROVE  Capped'
    <2>1. Shrinks
      BY <1>21, NullsAssumption DEF Pledged, Paid, Exists, CrashPayer, PayerAt,
                                   tables, history, Typed, TypeOK, Busy
    <2> HIDE DEF Shrinks
    <2> QED
      BY <1>0, <2>1
  <1>22. ASSUME NEW p \in Autos, CrashScan(p)
        PROVE  Capped'
    <2>1. Shrinks
      BY <1>22 DEF Pledged, Paid, Exists, CrashScan, tables, threads, history
    <2> HIDE DEF Shrinks
    <2> QED
      BY <1>0, <2>1
  <1>23. ASSUME NEW p \in Admins, CrashReview(p)
        PROVE  Capped'
    <2>1. Shrinks
      BY <1>23 DEF Pledged, Paid, Exists, CrashReview, tables, threads, history
    <2> HIDE DEF Shrinks
    <2> QED
      BY <1>0, <2>1
  <1>24. ASSUME NEW x \in Escalators, CrashEscalator(x)
        PROVE  Capped'
    <2>1. Shrinks
      BY <1>24 DEF Pledged, Paid, Exists, CrashEscalator, tables, threads,
                  history
    <2> HIDE DEF Shrinks
    <2> QED
      BY <1>0, <2>1
  <1>25. CASE UNCHANGED vars
    <2>1. Shrinks
      BY <1>25 DEF Pledged, Paid, Exists, vars, tables, threads, history
    <2> HIDE DEF Shrinks
    <2> QED
      BY <1>0, <2>1
  <1> QED
    BY <1>1, <1>2, <1>3, <1>4, <1>5, <1>6, <1>7, <1>8, <1>9, <1>10, <1>11,
       <1>12, <1>13, <1>14, <1>15, <1>16, <1>17, <1>18, <1>19, <1>20, <1>21,
       <1>22, <1>23, <1>24, <1>25
       DEF Next, MonitorStep, ForcerStep, PayoutStep, AdminStep, SubmitterStep,
           EscalatorStep, Autos, Payers

-----------------------------------------------------------------------------
(***************************************************************************)
(* The invariant and the theorems.                                         *)
(***************************************************************************)
Inv == /\ Typed /\ Refs
       /\ OnePayout /\ PaidOnce
       /\ SettledIsBacked
       /\ Queued
       /\ Spaced
       /\ StaysSettled /\ Capped

LEMMA InvInit == Init => Inv
  BY TypesInit, RefsInit, OnePayoutInit, BackedInit, QueuedInit, SpacedInit,
     StaysSettledInit, CappedInit DEF Inv

LEMMA InvStep == Inv /\ [Next]_vars => Inv'
  <1> SUFFICES ASSUME Inv, [Next]_vars
               PROVE  Inv'
    OBVIOUS
  <1> USE DEF Inv
  <1>1. Typed'
    BY TypesStep
  <1>2. Refs'
    BY <1>1, RefsStep
  <1>3. OnePayout' /\ PaidOnce'
    BY OnePayoutStep
  <1>4. SettledIsBacked' /\ Queued' /\ Spaced'
    BY BackedStep, QueuedStep, SpacedStep
  <1>5. StaysSettled'
    BY StaysSettledStep
  <1>6. Capped'
    BY <1>1, <1>2, <1>5, CappedStep
  <1> QED
    BY <1>1, <1>2, <1>3, <1>4, <1>5, <1>6

(* The invariant holds in every behaviour of the backend's claims.         *)
THEOREM InvHolds == Spec => []Inv
  BY InvInit, InvStep, PTL DEF Spec

(* Every variable keeps its type.                                          *)
THEOREM TypeCorrect == Spec => []TypeOK
  <1>1. Inv => TypeOK
    BY DEF Inv, Typed
  <1> QED
    BY <1>1, InvHolds, PTL

(* initiate_claim_payout pays a claim at most once unless two payouts of   *)
(* the claim overlap or one dies between its two statements.               *)
THEOREM PaidAtMostOnce == Spec => []PaidOnce
  <1>1. Inv => PaidOnce
    BY DEF Inv
  <1> QED
    BY <1>1, InvHolds, PTL

(* review_claim and the monitor leave no claim settled without a transfer  *)
(* or a payout at work.                                                    *)
THEOREM SettledClaimsAreBacked == Spec => []SettledIsBacked
  <1>1. Inv => SettledIsBacked
    BY DEF Inv
  <1> QED
    BY <1>1, InvHolds, PTL

(* escalate_claim leaves no claim escalated without an open escalation,    *)
(* whatever reviews of earlier escalations end meanwhile.                  *)
THEOREM EscalatedClaimsAreQueued == Spec => []EscalatedIsQueued
  <1>1. Inv => EscalatedIsQueued
    BY DEF Inv, Queued, EscalatedIsQueued, OpenFor, EscalationsOf
  <1> QED
    BY <1>1, InvHolds, PTL

(* The monitor raises claims of one worker and type more than the window   *)
(* of has_recent_auto_claim apart.                                         *)
THEOREM AutoClaimsAreSpaced == Spec => []AutoClaimsSpaced
  <1>1. Inv => AutoClaimsSpaced
    BY DEF Inv, Spaced
  <1> QED
    BY <1>1, InvHolds, PTL

(* No interleaving pays undemoted claims on more days of a week than the   *)
(* worker's plan covers.                                                   *)
THEOREM WeeklyCapHolds == Spec => []CapKept
  <1>1. Inv => CapKept
    <2> SUFFICES ASSUME Inv, NEW w \in Workers, NEW wk \in Weeks
                 PROVE  Cardinality(UndemotedPaidDays(w, wk)) <= MaxDays[w]
      BY DEF CapKept
    <2>1. UndemotedPaidDays(w, wk) \subseteq PledgedDays(w, wk)
      BY DEF UndemotedPaidDays, PledgedDays, Pledged
    <2>2. PledgedDays(w, wk) \subseteq {Day(row[c].at) : c \in {d \in ClaimIds : Exists(d)}}
      BY DEF PledgedDays, Pledged
    <2>3. /\ IsFiniteSet(PledgedDays(w, wk))
          /\ Cardinality(PledgedDays(w, wk)) \in Nat
      BY <2>2, DaysFinite DEF Inv
    <2>4. /\ Cardinality(UndemotedPaidDays(w, wk)) <= Cardinality(PledgedDays(w, wk))
          /\ Cardinality(UndemotedPaidDays(w, wk)) \in Nat
      BY <2>1, <2>3, FS_Subset, FS_CardinalityType
    <2>5. Cardinality(PledgedDays(w, wk)) <= MaxDays[w] /\ MaxDays[w] \in Nat
      BY PlanAssumption DEF Inv, Capped
    <2> QED
      BY <2>3, <2>4, <2>5
  <1> QED
    BY <1>1, InvHolds, PTL

-----------------------------------------------------------------------------
(***************************************************************************)
(* The book: claims and payouts implement SettlementLedger.                *)
(***************************************************************************)
(* Every claim was raised while the clock ran.                             *)
Dated == \A c \in ClaimIds : Exists(c) => row[c].at \in Start..MaxTime

(* A row is written once: by the two inserts, with the time they see.      *)
LEMMA RowsKept ==
    ASSUME Typed, [Next]_vars,
           ~ \E s \in Submitters, c \in ClaimIds, k \in Types : SubmitInsert(s, c, k),
           ~ \E p \in Autos, c \in ClaimIds : InsertClaim(p, c)
    PROVE  row' = row
  BY DEF Next, MonitorStep, ForcerStep, PayoutStep, AdminStep, SubmitterStep,
         EscalatorStep, Tick, SubmitCheck, ScanWorker, ForceWorker, Reload,
         CheckPass, RefuseAccount, RefuseByCap, Pay, Link, Block, Approve,
         Reject, Hold, Close, EscalateCheck, EscalateFlag, EscalateInsert,
         CrashPayer, CrashScan, CrashReview, CrashEscalator, Autos, vars, tables

LEMMA SubmittedRow ==
    ASSUME Typed, NEW s \in Submitters, NEW c \in ClaimIds, NEW k \in Types,
           SubmitInsert(s, c, k)
    PROVE  NewRow(c, submitter[s], k, "manual", "in_review") /\ submitter[s] \in Workers
  BY DEF SubmitInsert, Typed, TypeOK

LEMMA RaisedRow ==
    ASSUME Typed, NEW p \in Autos, NEW c \in ClaimIds, InsertClaim(p, c)
    PROVE  /\ NewRow(c, scan[p].worker, scan[p].type,
                     IF p \in Monitors THEN "auto" ELSE "forced",
                     IF scan[p].hold THEN "in_review" ELSE "settled")
           /\ scan[p].worker \in Workers /\ scan[p].type \in Types
  <1>1. scan[p] \in Scan
    BY DEF InsertClaim, Typed, TypeOK
  <1> QED
    BY <1>1 DEF InsertClaim, Scan

LEMMA DatedStep == Typed /\ Dated /\ [Next]_vars => Dated'
  <1> SUFFICES ASSUME Typed, Dated, [Next]_vars
               PROVE  Dated'
    OBVIOUS
  <1>1. ASSUME NEW c \in ClaimIds, NEW w \in Workers, NEW k \in Types,
               NEW src \in {"auto", "forced", "manual"}, NEW st \in Statuses,
               NewRow(c, w, k, src, st)
        PROVE  Dated'
    <2>1. /\ row'[c].at = now /\ now \in Start..MaxTime
          /\ \A d \in ClaimIds : d # c => row'[d] = row[d]
      BY <1>1, NewRowKeeps DEF Typed, TypeOK
    <2> QED
      BY <2>1 DEF Dated, Exists
  <1>2. ASSUME NEW s \in Submitters, NEW c \in ClaimIds, NEW k \in Types,
               SubmitInsert(s, c, k)
        PROVE  Dated'
    BY <1>1, <1>2, SubmittedRow DEF Statuses
  <1>3. ASSUME NEW p \in Autos, NEW c \in ClaimIds, InsertClaim(p, c)
        PROVE  Dated'
    BY <1>1, <1>3, RaisedRow DEF Statuses
  <1>4. CASE row' = row
    BY <1>4 DEF Dated, Exists
  <1> QED
    BY <1>2, <1>3, <1>4, RowsKept

LEMMA DatedHolds == Spec => []Dated
  <1>1. Init => Dated
    BY DEF Init, Dated, Exists
  <1>2. Inv /\ Dated /\ [Next]_vars => Dated'
    BY DatedStep DEF Inv
  <1> QED
    BY <1>1, <1>2, InvHolds, PTL DEF Spec

-----------------------------------------------------------------------------
(* What the steps do to the columns of the book.                           *)
LEMMA OwnersKept == ASSUME row' = row PROVE Owner' = Owner /\ ClaimDay' = ClaimDay
  BY DEF Owner, ClaimDay, Exists, Day

LEMMA OwnersFiled ==
    ASSUME Typed, NEW c \in ClaimIds, NEW w \in Workers, NEW k \in Types,
           NEW src \in {"auto", "forced", "manual"}, NEW st \in Statuses,
           NewRow(c, w, k, src, st)
    PROVE  /\ Owner[c] = NoWorker
           /\ Owner' = [Owner EXCEPT ![c] = w]
           /\ ClaimDay' = [ClaimDay EXCEPT ![c] = Day(now)]
           /\ Settled' = IF st = "settled" THEN Settled \cup {c} ELSE Settled
  <1>1. /\ ~ Exists(c) /\ Exists(c)'
        /\ row'[c].worker = w /\ row'[c].at = now
        /\ \A d \in ClaimIds : d # c => row'[d] = row[d]
    BY NewRowKeeps
  <1>2. status' = [status EXCEPT ![c] = st] /\ status \in [ClaimIds -> Statuses]
    BY DEF NewRow, Typed, TypeOK
  <1>3. Owner' = [Owner EXCEPT ![c] = w]
    BY <1>1 DEF Owner, Exists
  <1>4. ClaimDay' = [ClaimDay EXCEPT ![c] = Day(now)]
    BY <1>1 DEF ClaimDay, Exists, Day
  <1> QED
    BY <1>1, <1>2, <1>3, <1>4 DEF Owner, Settled, Exists

LEMMA UnderwayKept == ASSUME payer' = payer PROVE Underway' = Underway
  BY DEF Underway, Paying

(* A payer that takes up claim c, or moves within its payout of c.         *)
LEMMA UnderwayMoves ==
    ASSUME Typed, NEW p \in Payers, NEW c \in ClaimIds,
           NEW pc \in {"reload", "check", "pay", "link"}, NEW t,
           PayerAt(p, pc, c, t),
           payer[p].pc \in {"idle", "block"} \/ payer[p].claim = c
    PROVE  Underway' = Underway \cup {c}
  <1>1. payer'[p].pc = pc /\ payer'[p].claim = c
    BY DEF PayerAt, Typed, TypeOK
  <1>2. \A q \in Payers : q # p => payer'[q] = payer[q]
    BY DEF PayerAt, Typed, TypeOK
  <1> QED
    BY <1>1, <1>2 DEF Underway, Paying

(* A payer that gives up its payout; another may be at work on the claim.  *)
LEMMA UnderwayEnds ==
    ASSUME Typed, NEW p \in Payers, NEW c, NEW pc \in {"idle", "block"}, NEW t,
           PayerAt(p, pc, c, t), payer[p].pc # "idle"
    PROVE  Underway' \in {Underway, Underway \ {payer[p].claim}}
  <1>1. payer'[p].pc = pc
    BY DEF PayerAt, Typed, TypeOK
  <1>2. \A q \in Payers : q # p => payer'[q] = payer[q]
    BY DEF PayerAt, Typed, TypeOK
  <1> QED
    BY <1>1, <1>2 DEF Underway, Paying

-----------------------------------------------------------------------------
LEMMA BookInit == Init => Settlement!Init
  BY NullsAssumption DEF Init, Settlement!Init, Owner, ClaimDay, Settled,
     Underway, Exists, Paying, IdlePayer

(* A payout at work that is not the claim's second has not been paid, its  *)
(* claim is settled unless it was demoted, and with the days already paid  *)
(* its day is within the plan.                                             *)
LEMMA PayWithinPlan ==
    ASSUME Inv, Dated, NEW p \in Payers, NEW t \in TransferIds, Pay(p, t),
           payer[p].claim \notin demoted
    PROVE  LET c == payer[p].claim IN
           Cardinality(Settlement!PaidDays(Owner[c], Settlement!Week(ClaimDay[c]))
                         \cup {ClaimDay[c]}) <= MaxDays[Owner[c]]
  <1> DEFINE c == payer[p].claim
             w == row[c].worker
             k == Day(row[c].at) \div 7
             wk == WeekStart(row[c].at)
             Booked == {ClaimDay[e] : e \in {x \in ClaimIds \ demoted :
                          Paid(x) /\ Owner[x] = w /\ ClaimDay[x] \div 7 = k}}
  <1>1. /\ c \in ClaimIds /\ Exists(c) /\ payer[p].pc = "pay"
        /\ row[c] \in Row /\ row[c].at \in Start..MaxTime
    BY DEF Inv, Pay, Typed, TypeOK, Busy, Refs, Dated, Exists
  <1>2. w \in Workers /\ wk \in Weeks
    BY <1>1 DEF Row, Weeks
  <1>3. Owner[c] = w /\ ClaimDay[c] = Day(row[c].at)
    BY <1>1 DEF Owner, ClaimDay
  <1>4. Booked \cup {ClaimDay[c]} \subseteq PledgedDays(w, wk)
    <2>1. c \in Pledged
      BY <1>1 DEF Pledged
    <2>2. ClaimDay[c] \in PledgedDays(w, wk)
      BY <1>3, <2>1 DEF PledgedDays
    <2>3. ASSUME NEW x \in ClaimIds \ demoted, Paid(x), Owner[x] = w,
                 ClaimDay[x] \div 7 = k
          PROVE  ClaimDay[x] \in PledgedDays(w, wk)
      <3>1. Exists(x)
        BY <2>3, NullsAssumption DEF Inv, Refs, Paid
      <3>2. row[x].worker = w /\ ClaimDay[x] = Day(row[x].at)
        BY <2>3, <3>1 DEF Owner, ClaimDay
      <3>3. WeekStart(row[x].at) = wk
        BY <2>3, <3>2 DEF WeekStart
      <3>4. x \in Pledged
        BY <2>3, <3>1 DEF Pledged
      <3> QED
        BY <3>2, <3>3, <3>4 DEF PledgedDays
    <2> QED
      BY <2>2, <2>3
  <1>5. PledgedDays(w, wk) \subseteq {Day(row[d].at) : d \in {e \in ClaimIds : Exists(e)}}
    BY DEF PledgedDays, Pledged
  <1>6. IsFiniteSet(PledgedDays(w, wk)) /\ Cardinality(PledgedDays(w, wk)) \in Nat
    BY <1>5, DaysFinite DEF Inv
  <1>7. /\ Cardinality(Booked \cup {ClaimDay[c]}) <= Cardinality(PledgedDays(w, wk))
        /\ Cardinality(Booked \cup {ClaimDay[c]}) \in Nat
    BY <1>4, <1>6, FS_Subset, FS_CardinalityType
  <1>8. Cardinality(PledgedDays(w, wk)) <= MaxDays[w] /\ MaxDays[w] \in Nat
    BY <1>2, PlanAssumption DEF Inv, Capped
  <1>9. Settlement!PaidDays(w, k) = Booked
    BY DEF Settlement!PaidDays, Settlement!Paid, Settlement!Week, Paid
  <1>10. Settlement!Week(ClaimDay[c]) = k
    BY <1>3 DEF Settlement!Week
  <1> HIDE DEF Booked, k, wk, w
  <1>11. Cardinality(Booked \cup {ClaimDay[c]}) <= MaxDays[w]
    BY <1>6, <1>7, <1>8
  <1> QED
    BY <1>3, <1>9, <1>10, <1>11

(* The book counts as the claims do.                                       *)
LEMMA SameCount == ASSUME NEW S PROVE Settlement!Cardinality(S) = Cardinality(S)
  BY DEF Settlement!Cardinality, Cardinality

(* Every step is one of the book or leaves it alone.                       *)
LEMMA BookStep ==
    ASSUME Inv, Dated, [Next]_vars
    PROVE  [Settlement!Next]_(Settlement!vars)
  <1>a. Typed /\ Refs
    BY DEF Inv
  <1>b. \A c \in ClaimIds : Exists(c) => Settlement!Filed(c)
    BY <1>a, NullsAssumption DEF Typed, TypeOK, Exists, Row, Owner, Settlement!Filed
  <1>1. ASSUME row' = row, Underway' = Underway,
               UNCHANGED <<status, transfer, overlapped, demoted>>
        PROVE  UNCHANGED Settlement!vars
    BY <1>1, OwnersKept DEF Settlement!vars, Settled, Exists
  <1>2. ASSUME NEW s \in Submitters, NEW c \in ClaimIds, NEW k \in Types,
               SubmitInsert(s, c, k)
        PROVE  Settlement!Next
    <2>1. /\ submitter[s] \in Workers /\ Owner[c] = NoWorker
          /\ Owner' = [Owner EXCEPT ![c] = submitter[s]]
          /\ ClaimDay' = [ClaimDay EXCEPT ![c] = Day(now)]
          /\ Settled' = Settled
      BY <1>a, <1>2, SubmittedRow, OwnersFiled DEF Statuses
    <2>2. Underway' = Underway
      BY <1>2, UnderwayKept DEF SubmitInsert
    <2>3. UNCHANGED <<transfer, overlapped, demoted>>
      BY <1>2 DEF SubmitInsert, history
    <2>4. Settlement!File(c, submitter[s], Day(now))
      BY <2>1, <2>2, <2>3 DEF Settlement!File, Settlement!Filed
    <2>5. now \in Start..MaxTime
      BY <1>a DEF Typed, TypeOK
    <2> QED
      BY <2>1, <2>4, <2>5 DEF Settlement!Next
  <1>3. ASSUME NEW p \in Autos, NEW c \in ClaimIds, InsertClaim(p, c)
        PROVE  Settlement!Next
    <2> DEFINE w == scan[p].worker
    <2>1. /\ w \in Workers /\ Owner[c] = NoWorker
          /\ Owner' = [Owner EXCEPT ![c] = w]
          /\ ClaimDay' = [ClaimDay EXCEPT ![c] = Day(now)]
          /\ Settled' = IF scan[p].hold THEN Settled ELSE Settled \cup {c}
      BY <1>a, <1>3, RaisedRow, OwnersFiled DEF Statuses
    <2>2. Underway' = IF scan[p].hold THEN Underway ELSE Underway \cup {c}
      <3>1. p \in Payers /\ payer[p].pc = "idle"
        BY <1>a, <1>3 DEF InsertClaim, Refs, Payers
      <3>2. CASE scan[p].hold
        BY <1>3, <3>2, UnderwayKept DEF InsertClaim
      <3>3. CASE ~ scan[p].hold
        BY <1>a, <1>3, <3>1, <3>3, UnderwayMoves DEF InsertClaim
      <3> QED
        BY <3>2, <3>3
    <2>3. UNCHANGED <<transfer, overlapped, demoted>>
      BY <1>3 DEF InsertClaim, history
    <2> HIDE DEF w
    <2>4. Settlement!File(c, w, Day(now))
      BY <2>1, <2>2, <2>3 DEF Settlement!File, Settlement!Filed
    <2>5. now \in Start..MaxTime
      BY <1>a DEF Typed, TypeOK
    <2> QED
      BY <2>1, <2>4, <2>5 DEF Settlement!Next
  <1>4. ASSUME NEW p \in Admins, NEW c \in ClaimIds,
               NEW e \in EscalationIds \cup {NoEscalation}, Approve(p, c, e)
        PROVE  Settlement!Next
    <2>1. /\ Exists(c) /\ p \in Payers /\ payer[p].pc = "idle"
          /\ status' = [status EXCEPT ![c] = "settled"] /\ row' = row
          /\ overlapped' = IF Paying(c) THEN overlapped \cup {c} ELSE overlapped
          /\ UNCHANGED <<transfer, demoted>>
      BY <1>4 DEF Approve, MayReview, Payers
    <2>2. Underway' = Underway \cup {c}
      BY <1>a, <1>4, <2>1, UnderwayMoves DEF Approve
    <2>3. Settled' = Settled \cup {c}
      BY <1>a, <2>1 DEF Settled, Exists, Typed, TypeOK
    <2>4. c \in Underway <=> Paying(c)
      BY DEF Underway
    <2>5. Settlement!Settle(c)
      BY <1>b, <2>1, <2>2, <2>3, <2>4, OwnersKept DEF Settlement!Settle
    <2> QED
      BY <2>5 DEF Settlement!Next
  <1>5. ASSUME NEW c \in ClaimIds, Exists(c), NEW st \in Statuses \ {"settled"},
               Demote(c, st), row' = row, Underway' = Underway,
               UNCHANGED <<transfer, overlapped>>
        PROVE  Settlement!Next
    <2>1. Settled' = Settled \ {c}
      BY <1>a, <1>5 DEF Demote, Settled, Exists, Typed, TypeOK
    <2>2. (c \in Underway <=> Paying(c)) /\ (Settlement!Paid(c) <=> Paid(c))
      BY DEF Underway, Settlement!Paid, Paid
    <2>3. Settlement!Unsettle(c)
      BY <1>b, <1>5, <2>1, <2>2, OwnersKept DEF Demote, Settlement!Unsettle
    <2> QED
      BY <2>3 DEF Settlement!Next
  <1>6. ASSUME NEW p \in Admins, NEW c \in ClaimIds,
               NEW e \in EscalationIds \cup {NoEscalation}, Reject(p, c, e)
        PROVE  Settlement!Next
    BY <1>5, <1>6, UnderwayKept DEF Reject, MayReview, Statuses
  <1>7. ASSUME NEW p \in Admins, NEW c \in ClaimIds, Hold(p, c)
        PROVE  Settlement!Next
    BY <1>5, <1>7, UnderwayKept DEF Hold, MayReview, Statuses, threads
  <1>8. ASSUME NEW x \in Escalators, EscalateFlag(x)
        PROVE  Settlement!Next
    <2>1. escalator[x].claim \in ClaimIds /\ Exists(escalator[x].claim)
      BY <1>a, <1>8 DEF EscalateFlag, Typed, Busy, Refs
    <2> QED
      BY <1>5, <1>8, <2>1, UnderwayKept DEF EscalateFlag, Statuses
  <1>9. ASSUME NEW c \in ClaimIds, row' = row,
               Underway' \in {Underway, Underway \ {c}},
               UNCHANGED <<status, transfer, overlapped, demoted>>
        PROVE  [Settlement!Next]_(Settlement!vars)
    <2>1. CASE Underway' = Underway
      BY <1>1, <1>9, <2>1
    <2>2. CASE Underway' = Underway \ {c}
      <3>1. Settlement!Finish(c)
        BY <1>9, <2>2, OwnersKept DEF Settlement!Finish, Settled, Exists
      <3> QED
        BY <3>1 DEF Settlement!Next
    <2> QED
      BY <1>9, <2>1, <2>2
  <1>10. ASSUME NEW p \in Payers,
                RefuseAccount(p) \/ RefuseByCap(p) \/ Reload(p) \/ CheckPass(p) \/ Link(p)
         PROVE  [Settlement!Next]_(Settlement!vars)
    <2> DEFINE c == payer[p].claim
    <2>1. /\ c \in ClaimIds /\ payer[p].pc \in {"reload", "check", "link"}
          /\ UNCHANGED <<row, status, transfer, overlapped, demoted>>
      BY <1>a, <1>10 DEF RefuseAccount, RefuseByCap, Reload, CheckPass, Link,
         tables, history, Typed, Busy
    <2>2. CASE \E d, pc : pc \in {"idle", "block"} /\ PayerAt(p, pc, d, NoTransfer)
      <3>1. Underway' \in {Underway, Underway \ {c}}
        BY <1>a, <2>1, <2>2, UnderwayEnds
      <3> QED
        BY <1>9, <2>1, <3>1
    <2>3. CASE \E pc \in {"check", "pay"} : PayerAt(p, pc, c, NoTransfer)
      <3>1. Underway' = Underway \cup {c} /\ c \in Underway
        BY <1>a, <2>1, <2>3, UnderwayMoves DEF Underway, Paying
      <3> QED
        BY <1>9, <2>1, <3>1
    <2> QED
      BY <1>10, <2>2, <2>3 DEF RefuseAccount, RefuseByCap, Reload, CheckPass, Link
  <1>11. ASSUME NEW p \in Payers, Block(p)
         PROVE  Settlement!Next
    <2>1. payer[p].claim \in ClaimIds /\ Exists(payer[p].claim)
      BY <1>a, <1>11 DEF Block, Typed, Busy, Refs
    <2>2. Underway' = Underway
      <3>1. payer'[p].pc = "idle" /\ \A q \in Payers : q # p => payer'[q] = payer[q]
        BY <1>a, <1>11 DEF Block, PayerAt, Typed, TypeOK
      <3> QED
        BY <1>11, <3>1 DEF Block, Underway, Paying
    <2> QED
      BY <1>5, <1>11, <2>1, <2>2 DEF Block, Statuses
  <1>12. ASSUME NEW p \in Payers, NEW t \in TransferIds, Pay(p, t)
         PROVE  Settlement!Next
    <2> DEFINE c == payer[p].claim
    <2>1. /\ c \in ClaimIds /\ Exists(c) /\ payer[p].pc = "pay"
          /\ transfer[t] = NoClaim
          /\ transfer' = [transfer EXCEPT ![t] = c]
          /\ UNCHANGED <<row, status, overlapped, demoted>>
      BY <1>a, <1>12 DEF Pay, history, Typed, Busy, Refs
    <2>2. c \in Underway /\ Underway' = Underway
      <3>1. c \in Underway
        BY <2>1 DEF Underway, Paying
      <3>2. Underway' = Underway \cup {c}
        BY <1>a, <1>12, <2>1, UnderwayMoves DEF Pay
      <3> QED
        BY <3>1, <3>2
    <2>3. Settlement!Paid(c) => c \in overlapped
      BY <2>1 DEF Inv, OnePayout, Paid, Settlement!Paid
    <2>4. c \notin demoted => c \in Settled
      BY <2>1 DEF Inv, StaysSettled, Paying, Settled
    <2>5. c \notin demoted =>
            Settlement!Cardinality(
              Settlement!PaidDays(Owner[c], Settlement!Week(ClaimDay[c]))
                \cup {ClaimDay[c]}) <= MaxDays[Owner[c]]
      BY <1>12, PayWithinPlan, SameCount
    <2>6. UNCHANGED <<Owner, ClaimDay, Settled>>
      BY <2>1, OwnersKept DEF Settled, Exists
    <2> HIDE DEF c
    <2>7. Settlement!Pay(c, t)
      BY <2>1, <2>2, <2>3, <2>4, <2>5, <2>6 DEF Settlement!Pay
    <2> QED
      BY <2>1, <2>7 DEF Settlement!Next
  <1>13. ASSUME NEW p \in Payers, CrashPayer(p)
         PROVE  [Settlement!Next]_(Settlement!vars)
    <2> DEFINE c == payer[p].claim
    <2>1. /\ c \in ClaimIds /\ payer[p].pc # "idle"
          /\ UNCHANGED <<row, status, transfer, demoted>>
          /\ overlapped' = IF payer[p].pc = "link" THEN overlapped \cup {c}
                                                   ELSE overlapped
      BY <1>a, <1>13 DEF CrashPayer, tables, Typed, Busy
    <2>2. Underway' \in {Underway, Underway \ {c}}
      BY <1>a, <1>13, <2>1, UnderwayEnds DEF CrashPayer
    <2>3. CASE payer[p].pc = "link"
      <3>1. c \in Underway /\ Settlement!Paid(c)
        BY <1>a, <2>1, <2>3 DEF Underway, Paying, Refs, Settlement!Paid
      <3>2. UNCHANGED <<Owner, ClaimDay, Settled>>
        BY <2>1, OwnersKept DEF Settled, Exists
      <3> HIDE DEF c
      <3>3. Settlement!Die(c)
        BY <2>1, <2>2, <2>3, <3>1, <3>2 DEF Settlement!Die
      <3> QED
        BY <2>1, <3>3 DEF Settlement!Next
    <2>4. CASE payer[p].pc # "link"
      BY <1>9, <2>1, <2>2, <2>4
    <2> QED
      BY <2>3, <2>4
  <1>14. ASSUME UNCHANGED <<row, status, transfer, payer, overlapped, demoted>>
         PROVE  UNCHANGED Settlement!vars
    BY <1>1, <1>14, UnderwayKept
  <1> QED
    BY <1>2, <1>3, <1>4, <1>6, <1>7, <1>8, <1>10, <1>11, <1>12, <1>13, <1>14
       DEF Next, MonitorStep, ForcerStep, PayoutStep, AdminStep, SubmitterStep,
           EscalatorStep, Tick, SubmitCheck, ScanWorker, ForceWorker, Close,
           EscalateCheck, EscalateInsert, CrashScan, CrashReview,
           CrashEscalator, Autos, Payers, vars, tables, threads, history

(* Claims, reviews, escalations and payouts, with their interleavings and  *)
(* crashes, implement the book of settlements.                             *)
THEOREM SettlementImplemented == Spec => ImplementsSettlement
  BY BookInit, BookStep, InvHolds, DatedHolds, PTL
     DEF Spec, ImplementsSettlement, Settlement!Spec
=============================================================================
